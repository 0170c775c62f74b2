--------------------------- MODULE ReleaseProofs ---------------------------
(***************************************************************************)
(* The release gate for any manifests, artifacts, builds and faults.  First*)
(* what each producer makes of a parsed artifact: records for its control, *)
(* all satisfied only if the artifact is what its documentation asks for.  *)
(* Then the invariant of the gate, and its properties; the crosswalk,      *)
(* whose derived records never lose to older ones; last the dashboard,     *)
(* whose trend is replayed in another order than the rollup's.             *)
(***************************************************************************)
EXTENDS Release, PostureProofs, FiniteSetTheorems, SequenceTheorems

----------------------------------------------------------------------------
(* The producers                                                           *)

LEMMA ResultType ==
    ASSUME NEW good, NEW control, NEW subject, NEW at \in Nat
    PROVE  /\ IsRecord(RecordFor(control, subject, good, at))
           /\ RecordFor(control, subject, good, at).control = control
           /\ RecordFor(control, subject, good, at).result = "satisfied" => good
  BY DEF RecordFor, Result, IsRecord, Results

(***************************************************************************)
(* An approval that Extract finds is the reviewer's last word.             *)
(***************************************************************************)
Review == [login : Logins, state : STRING]
Decides(reviews, login, i) ==
    reviews[i].login = login /\ reviews[i].state \notin Undecided
LatestStep(f, reviews, login, n) ==
    IF n = 0 THEN "none"
    ELSE IF reviews[n].login = login /\ reviews[n].state \notin Undecided
         THEN reviews[n].state
         ELSE f[n - 1]
IsLatest(f, reviews, login) ==
    f = [n \in 0..Len(reviews) |-> LatestStep(f, reviews, login, n)]

LEMMA LatestExists ==
    ASSUME NEW reviews \in Seq(Review), NEW login
    PROVE  \E f : /\ IsLatest(f, reviews, login)
                  /\ Approves(reviews, login) <=> f[Len(reviews)] = "APPROVED"
  <1> DEFINE N == Len(reviews)
             States == {"none"} \cup {reviews[i].state : i \in 1..N}
             T == [n \in 1..N |-> [x \in States |->
                      IF Decides(reviews, login, n) THEN reviews[n].state ELSE x]]
  <1>1. N \in Nat /\ \A n \in 1..N : reviews[n] \in Review
    OBVIOUS
  <1>2. T \in [1..N -> [States -> States]]
    <2>1. ASSUME NEW n \in 1..N PROVE T[n] \in [States -> States]
      BY <1>1
    <2>2. QED
      BY <2>1
  <1> HIDE DEF N
  <1>3. PICK f \in [0..N -> States] : f[0] = "none" /\ \A n \in 1..N : Follows(f, T, n)
    <2> DEFINE x == "none"
    <2> HIDE DEF T, x, States
    <2>1. x \in States
      BY DEF x, States
    <2>2. \E f : Carries(f, T, x, N, States)
      BY <1>1, <1>2, <2>1, Carried
    <2>3. QED
      BY <2>2 DEF x, Carries
  <1>4. ASSUME NEW n \in 0..N PROVE f[n] = LatestStep(f, reviews, login, n)
    <2>1. CASE n = 0
      BY <1>3, <2>1 DEF LatestStep
    <2>2. CASE n # 0
      <3>1. n \in 1..N /\ n - 1 \in 0..N
        BY <1>1, <2>2
      <3>2. f[n] = T[n][f[n - 1]] /\ f[n - 1] \in States
        BY <1>3, <2>2, <3>1 DEF Follows
      <3>3. QED
        BY <2>2, <3>1, <3>2 DEF LatestStep, Decides
    <2>3. QED
      BY <2>1, <2>2
  <1>5. IsLatest(f, reviews, login)
    <2>1. f = [n \in 0..N |-> f[n]]
      BY <1>3
    <2>2. QED
      BY <1>4, <2>1 DEF IsLatest, N
  <1> DEFINE k == CHOOSE g : IsLatest(g, reviews, login)
  <1>6. IsLatest(k, reviews, login)
    BY <1>5
  <1>7. Approves(reviews, login) <=> k[Len(reviews)] = "APPROVED"
    BY DEF Approves, IsLatest, LatestStep
  <1>8. QED
    BY <1>6, <1>7

LEMMA ApprovesLast ==
    ASSUME NEW reviews \in Seq(Review), NEW login, Approves(reviews, login)
    PROVE  SaysLast(reviews, login, "APPROVED")
  <1> DEFINE N == Len(reviews)
  <1>1. PICK f : IsLatest(f, reviews, login) /\ f[N] = "APPROVED"
    BY LatestExists
  <1>2. N \in Nat /\ \A n \in 1..N : reviews[n] \in Review
    OBVIOUS
  <1>3. \A n \in 0..N : f[n] = LatestStep(f, reviews, login, n)
    BY <1>1 DEF IsLatest
  <1> DEFINE Since(i, n) == /\ Decides(reviews, login, i) /\ reviews[i].state = f[n]
                            /\ \A j \in i + 1..n : ~Decides(reviews, login, j)
             Some(n) == \E i \in 1..n : Since(i, n)
             G == {n \in 0..N : f[n] = "none" \/ Some(n)}
  <1> HIDE DEF N
  <1>4. 0 \in G
    BY <1>2, <1>3 DEF LatestStep
  <1>5. ASSUME NEW n \in 0..N, n < N, n \in G PROVE n + 1 \in G
    <2>1. n + 1 \in 1..N /\ n + 1 \in 0..N /\ (n + 1) - 1 = n /\ n + 1 # 0
      BY <1>2, <1>5
    <2>2. f[n + 1] = IF Decides(reviews, login, n + 1) THEN reviews[n + 1].state ELSE f[n]
      BY <1>3, <2>1 DEF LatestStep, Decides
    <2>3. CASE Decides(reviews, login, n + 1)
      <3>1. Since(n + 1, n + 1)
        BY <2>1, <2>2, <2>3
      <3>2. n + 1 \in 1..n + 1
        BY <2>1
      <3>3. QED
        BY <2>1, <3>1, <3>2
    <2>4. CASE ~Decides(reviews, login, n + 1)
      <3>1. f[n + 1] = f[n]
        BY <2>2, <2>4
      <3>2. ASSUME NEW i \in 1..n, Since(i, n) PROVE Since(i, n + 1) /\ i \in 1..n + 1
        <4>1. \A j \in i + 1..n + 1 : j = n + 1 \/ j \in i + 1..n
          BY <1>2
        <4>2. QED
          BY <1>2, <2>4, <3>1, <3>2, <4>1
      <3>3. QED
        BY <1>5, <2>1, <3>1, <3>2
    <2>5. QED
      BY <2>3, <2>4
  <1>6. N \in G
    <2> HIDE DEF G
    <2>1. N \in Nat
      BY <1>2
    <2>2. 0..N \subseteq G
      BY <1>4, <1>5, <2>1, UpTo
    <2>3. QED
      BY <2>1, <2>2
  <1>7. PICK i \in 1..N : Since(i, N)
    BY <1>1, <1>6 DEF N
  <1>8. reviews[i] = [login |-> login, state |-> "APPROVED"]
    BY <1>1, <1>2, <1>7 DEF N, Decides, Review
  <1>9. \A j \in i + 1..Len(reviews) :
            reviews[j].login = login => reviews[j].state \in Undecided
    BY <1>7 DEF N, Decides
  <1>10. QED
    BY <1>7, <1>8, <1>9 DEF N, SaysLast

(***************************************************************************)
(* The violations that FromSBOM finds: a list of gaps, empty only if no    *)
(* component is banned.                                                    *)
(***************************************************************************)
Violation(bom, control, n) ==
    RecordFor(control, ComponentOf(bom, n), FALSE, bom.at)
ViolationStep(f, bom, banned, control, n) ==
    IF n = 0 THEN <<>>
    ELSE IF IsBanned(banned, bom.components[n])
         THEN Append(f[n - 1], Violation(bom, control, n))
         ELSE f[n - 1]
IsViolations(f, bom, banned, control) ==
    f = [n \in 0..Len(bom.components) |-> ViolationStep(f, bom, banned, control, n)]
SBOMRecords(f, bom, control) ==
    LET found == f[Len(bom.components)]
    IN  IF InventoryEmpty(bom) THEN <<RecordFor(control, <<"image", bom.image>>, FALSE, bom.at)>>
        ELSE IF found = <<>> THEN <<RecordFor(control, <<"image", bom.image>>, TRUE, bom.at)>>
        ELSE found

LEMMA SBOMForm ==
    ASSUME NEW bom, NEW N \in Nat, N = Len(bom.components), bom.at \in Nat,
           NEW banned, NEW control
    PROVE  \E f : /\ FromSBOM(bom, banned, control) = SBOMRecords(f, bom, control)
                  /\ f[N] \in Seq({Violation(bom, control, n) : n \in 1..N})
                  /\ f[N] = <<>> => \A n \in 1..N : ~IsBanned(banned, bom.components[n])
  <1> DEFINE S == {Violation(bom, control, n) : n \in 1..N}
             X == Seq(S)
             T == [n \in 1..N |-> [x \in X |->
                      IF IsBanned(banned, bom.components[n])
                      THEN Append(x, Violation(bom, control, n)) ELSE x]]
  <1>1. \A n \in 1..N : Violation(bom, control, n) \in S
    OBVIOUS
  <1> HIDE DEF S
  <1>2. T \in [1..N -> [X -> X]]
    <2>1. ASSUME NEW n \in 1..N PROVE T[n] \in [X -> X]
      <3>1. \A x \in X : Append(x, Violation(bom, control, n)) \in X
        BY <1>1
      <3>2. QED
        BY <3>1
    <2>2. QED
      BY <2>1
  <1>3. PICK f \in [0..N -> X] : f[0] = <<>> /\ \A n \in 1..N : Follows(f, T, n)
    <2> DEFINE x == <<>>
    <2>1. x \in X
      OBVIOUS
    <2>2. N \in Nat
      OBVIOUS
    <2> HIDE DEF T, x, X
    <2>3. \E f : Carries(f, T, x, N, X)
      BY <1>2, <2>1, <2>2, Carried
    <2>4. QED
      BY <2>3 DEF x, Carries
  <1>4. ASSUME NEW n \in 0..N PROVE f[n] = ViolationStep(f, bom, banned, control, n)
    <2>1. CASE n = 0
      BY <1>3, <2>1 DEF ViolationStep
    <2>2. CASE n # 0
      <3>1. n \in 1..N /\ n - 1 \in 0..N
        BY <2>2
      <3>2. f[n] = T[n][f[n - 1]] /\ f[n - 1] \in X
        BY <1>3, <2>2, <3>1 DEF Follows
      <3> HIDE DEF X
      <3>3. QED
        BY <2>2, <3>1, <3>2 DEF ViolationStep
    <2>3. QED
      BY <2>1, <2>2
  <1>5. IsViolations(f, bom, banned, control)
    <2>1. f = [n \in 0..N |-> f[n]]
      BY <1>3
    <2>2. QED
      BY <1>4, <2>1 DEF IsViolations
  <1> DEFINE k == CHOOSE g : IsViolations(g, bom, banned, control)
  <1>6. IsViolations(k, bom, banned, control)
    BY <1>5
  <1>7. FromSBOM(bom, banned, control) = SBOMRecords(k, bom, control)
    BY DEF FromSBOM, SBOMRecords, IsViolations, ViolationStep, Violation
  <1>8. \A n \in 0..N : k[n] = ViolationStep(k, bom, banned, control, n)
    BY <1>6 DEF IsViolations
  <1> DEFINE G == {n \in 0..N : /\ k[n] \in X
                                /\ k[n] = <<>> => \A i \in 1..n : ~IsBanned(banned, bom.components[i])}
  <1> HIDE DEF k
  <1>9. 0 \in G
    <2>1. k[0] = <<>> /\ 0 \in 0..N
      BY <1>8 DEF ViolationStep
    <2>2. <<>> \in X
      OBVIOUS
    <2> HIDE DEF X
    <2>3. QED
      BY <2>1, <2>2
  <1>10. ASSUME NEW n \in 0..N, n < N, n \in G PROVE n + 1 \in G
    <2>1. n + 1 \in 1..N /\ n + 1 \in 0..N /\ (n + 1) - 1 = n /\ n + 1 # 0
      BY <1>10
    <2>2. k[n + 1] = IF IsBanned(banned, bom.components[n + 1])
                     THEN Append(k[n], Violation(bom, control, n + 1)) ELSE k[n]
      BY <1>8, <2>1 DEF ViolationStep
    <2>3. CASE IsBanned(banned, bom.components[n + 1])
      <3>1. Append(k[n], Violation(bom, control, n + 1)) \in X
        BY <1>1, <1>10, <2>1
      <3>2. Append(k[n], Violation(bom, control, n + 1)) # <<>>
        BY <1>1, <1>10, <2>1
      <3>3. QED
        BY <2>1, <2>2, <2>3, <3>1, <3>2
    <2>4. CASE ~IsBanned(banned, bom.components[n + 1])
      <3>1. \A i \in 1..n + 1 : i = n + 1 \/ i \in 1..n
        OBVIOUS
      <3>2. k[n + 1] = k[n]
        BY <2>2, <2>4
      <3> HIDE DEF X
      <3>3. QED
        BY <1>10, <2>1, <2>4, <3>1, <3>2
    <2>5. QED
      BY <2>3, <2>4
  <1>11. N \in G
    <2> HIDE DEF G
    <2>1. 0..N \subseteq G
      BY <1>9, <1>10, UpTo
    <2>2. QED
      BY <2>1
  <1>12. QED
    BY <1>7, <1>11 DEF S

(***************************************************************************)
(* What a producer yields: a list of records for one control.  A clean one *)
(* is not empty and has no gap.                                            *)
(***************************************************************************)
Yields(p, control) ==
    \E S : p \in Seq(S) /\ \A r \in S : IsRecord(r) /\ r.control = control
Spotless(p) == p # <<>> /\ \A i \in 1..Len(p) : p[i].result = "satisfied"

LEMMA OneYields ==
    ASSUME NEW control, NEW subject, NEW good, NEW at \in Nat
    PROVE  LET p == <<RecordFor(control, subject, good, at)>>
           IN  Yields(p, control) /\ (Spotless(p) => good)
  <1> DEFINE r == RecordFor(control, subject, good, at)
             S == {r}
  <1>1. IsRecord(r) /\ r.control = control /\ (r.result = "satisfied" => good)
    BY ResultType
  <1> HIDE DEF r
  <1>2. <<r>> \in Seq(S) /\ Len(<<r>>) = 1 /\ <<r>>[1] = r
    OBVIOUS
  <1>3. Yields(<<r>>, control)
    <2>1. \A q \in S : IsRecord(q) /\ q.control = control
      BY <1>1
    <2> HIDE DEF S
    <2>2. QED
      BY <1>2, <2>1 DEF Yields
  <1>4. Spotless(<<r>>) => good
    BY <1>1, <1>2 DEF Spotless
  <1>5. QED
    BY <1>3, <1>4 DEF r

LEMMA ManyYield ==
    ASSUME NEW N \in Nat, NEW control, NEW p, p = [i \in 1..N |-> p[i]],
           \A i \in 1..N : IsRecord(p[i]) /\ p[i].control = control
    PROVE  Yields(p, control) /\ Len(p) = N /\ (p # <<>> => N # 0)
  <1> DEFINE S == {p[i] : i \in 1..N}
  <1>1. \A i \in 1..N : p[i] \in S
    OBVIOUS
  <1>2. \A r \in S : IsRecord(r) /\ r.control = control
    OBVIOUS
  <1> HIDE DEF S
  <1>3. p \in [1..N -> S]
    BY <1>1
  <1>4. p \in Seq(S) /\ Len(p) = N
    BY <1>3
  <1>5. Yields(p, control)
    BY <1>2, <1>4 DEF Yields
  <1>6. N = 0 => p = <<>>
    BY <1>4
  <1>7. QED
    BY <1>4, <1>5, <1>6

LEMMA ChangeSound ==
    ASSUME NEW source, source.type = "change-control", NEW a, a # Unreadable,
           Parsed(source.type, a)
    PROVE  LET p == Produce(source, a)
           IN  Yields(p, source.control) /\ (Spotless(p) => Shippable(source, a))
  <1>1. /\ a.merged \in BOOLEAN /\ a.author \in Logins
        /\ a.at \in Nat /\ a.reviews \in Seq(Review)
    BY DEF Parsed, Review
  <1>2. Produce(source, a)
          = <<RecordFor(source.control, <<"commit", a.commit>>, Authorized(a), a.at)>>
    BY DEF Produce, FromChange
  <1>3. ASSUME Authorized(a) PROVE Shippable(source, a)
    <2>1. PICK login \in Approvers(a) : PersonOf[login] # PersonOf[a.author]
      BY <1>3 DEF Authorized
    <2>2. Approves(a.reviews, login) /\ login # Nobody
      BY DEF Approvers
    <2>3. PICK v \in ToSet(a.reviews) : v.login = login
      BY DEF Approvers
    <2>4. v \in Review
      BY <1>1, <2>3 DEF ToSet
    <2>5. login \in DOMAIN PersonOf
      BY <2>2, <2>3, <2>4 DEF Review, Logins
    <2>6. SaysLast(a.reviews, login, "APPROVED")
      BY <1>1, <2>2, ApprovesLast
    <2>7. a.merged /\ a.commit # NoCommit /\ a.at # 0 /\ a.author # Nobody
      BY <1>3 DEF Authorized
    <2>8. QED
      BY <2>1, <2>5, <2>6, <2>7 DEF Shippable
  <1>4. a.at \in Nat
    BY <1>1
  <1>5. QED
    BY <1>2, <1>3, <1>4, OneYields

LEMMA EvalSound ==
    ASSUME NEW source, source.type = "eval-gate", NEW a, a # Unreadable,
           Parsed(source.type, a)
    PROVE  LET p == Produce(source, a)
           IN  Yields(p, source.control) /\ (Spotless(p) => Shippable(source, a))
  <1>1. a.at \in Nat
    BY DEF Parsed
  <1>2. Produce(source, a)
          = <<RecordFor(source.control, <<"agent", a.agent, a.version>>,
                        Promote(a, source.gate), a.at)>>
    BY DEF Produce, FromEvalGate
  <1>3. ASSUME Promote(a, source.gate) PROVE Shippable(source, a)
    <2>1. \A s \in source.gate.required : \E i \in DOMAIN a.results : a.results[i].suite = s
      BY <1>3 DEF Promote, ToSet
    <2>2. Cardinality({i \in DOMAIN a.results : ~a.results[i].passed}) <= source.gate.maxFailures
      BY <1>3 DEF Promote, Failures
    <2>3. QED
      BY <2>1, <2>2 DEF Shippable
  <1>4. QED
    BY <1>1, <1>2, <1>3, OneYields

LEMMA DriftSound ==
    ASSUME NEW source, source.type = "drift", NEW a, a # Unreadable,
           Parsed(source.type, a)
    PROVE  LET p == Produce(source, a)
           IN  Yields(p, source.control) /\ (Spotless(p) => Shippable(source, a))
  <1> DEFINE p == Produce(source, a)
             N == Len(a)
             r(i) == RecordFor(source.control, <<"app", a[i].name>>, a[i].sync = "Synced", a[i].at)
  <1>1. N \in Nat /\ \A i \in 1..N : a[i].at \in Nat
    BY DEF Parsed
  <1>2. p = [i \in 1..N |-> r(i)]
    BY DEF Produce, FromArgoApplications
  <1>3. ASSUME NEW i \in 1..N
        PROVE  /\ IsRecord(r(i)) /\ r(i).control = source.control
               /\ r(i).result = "satisfied" => a[i].sync = "Synced"
    BY <1>1 DEF RecordFor, Result, IsRecord, Results
  <1> HIDE DEF p, r, N
  <1>4. \A i \in 1..N : p[i] = r(i)
    BY <1>2
  <1>5. p = [i \in 1..N |-> p[i]]
    BY <1>2
  <1>6. Yields(p, source.control) /\ Len(p) = N /\ (p # <<>> => N # 0)
    BY <1>1, <1>3, <1>4, <1>5, ManyYield
  <1>7. ASSUME Spotless(p) PROVE Shippable(source, a)
    <2>1. N # 0 /\ \A i \in 1..N : a[i].sync = "Synced"
      BY <1>3, <1>4, <1>6, <1>7 DEF Spotless
    <2>2. a # <<>>
      BY <2>1 DEF N
    <2>3. QED
      BY <2>1, <2>2 DEF Shippable, N
  <1>8. QED
    BY <1>6, <1>7 DEF p

LEMMA ProvenanceSound ==
    ASSUME NEW source, source.type = "provenance", NEW a, a # Unreadable,
           Parsed(source.type, a)
    PROVE  LET p == Produce(source, a)
           IN  Yields(p, source.control) /\ (Spotless(p) => Shippable(source, a))
  <1> DEFINE p == Produce(source, a)
             N == Len(a.subjects)
             trusted == a.slsa /\ a.builder = source.builder
             at == IF a.finished # 0 THEN a.finished ELSE a.started
             r(i) == RecordFor(source.control, <<"image", a.subjects[i]>>, trusted, at)
  <1>1. N \in Nat /\ at \in Nat
    BY DEF Parsed
  <1>2. p = [i \in 1..N |-> r(i)]
    BY DEF Produce, FromProvenance
  <1> HIDE DEF N, trusted, at
  <1>3. ASSUME NEW i \in 1..N
        PROVE  /\ IsRecord(r(i)) /\ r(i).control = source.control
               /\ r(i).result = "satisfied" => trusted
    BY <1>1, ResultType
  <1> HIDE DEF p, r
  <1>4. \A i \in 1..N : p[i] = r(i)
    BY <1>2
  <1>5. p = [i \in 1..N |-> p[i]]
    BY <1>2
  <1>6. Yields(p, source.control) /\ Len(p) = N /\ (p # <<>> => N # 0)
    BY <1>1, <1>3, <1>4, <1>5, ManyYield
  <1>7. ASSUME Spotless(p) PROVE Shippable(source, a)
    <2>1. N # 0
      BY <1>6, <1>7 DEF Spotless
    <2>2. 1 \in 1..N
      BY <1>1, <2>1
    <2>3. trusted
      BY <1>3, <1>4, <1>6, <1>7, <2>2 DEF Spotless
    <2>4. a.subjects # <<>>
      BY <2>1 DEF N
    <2>5. QED
      BY <2>3, <2>4 DEF Shippable, trusted
  <1>8. QED
    BY <1>6, <1>7 DEF p

LEMMA SBOMSound ==
    ASSUME NEW source, source.type = "sbom", NEW a, a # Unreadable,
           Parsed(source.type, a)
    PROVE  LET p == Produce(source, a)
           IN  Yields(p, source.control) /\ (Spotless(p) => Shippable(source, a))
  <1> DEFINE N == Len(a.components)
             control == source.control
  <1>1. N \in Nat /\ a.at \in Nat
    BY DEF Parsed
  <1>2. Produce(source, a) = FromSBOM(a, source.banned, control)
    BY DEF Produce
  <1>3. PICK f : /\ FromSBOM(a, source.banned, control) = SBOMRecords(f, a, control)
                 /\ f[N] \in Seq({Violation(a, control, n) : n \in 1..N})
                 /\ f[N] = <<>> => \A n \in 1..N : ~IsBanned(source.banned, a.components[n])
    BY <1>1, SBOMForm
  <1> DEFINE found == f[N]
             bare == <<RecordFor(control, <<"image", a.image>>, FALSE, a.at)>>
             good == <<RecordFor(control, <<"image", a.image>>, TRUE, a.at)>>
  <1>4. Produce(source, a) = IF InventoryEmpty(a) THEN bare
                             ELSE IF found = <<>> THEN good ELSE found
    BY <1>2, <1>3 DEF SBOMRecords
  <1>5. Yields(bare, control) /\ ~Spotless(bare) /\ Yields(good, control)
    BY <1>1, OneYields
  <1>6. Yields(found, control) /\ ~(found # <<>> /\ Spotless(found))
    <2> DEFINE S == {Violation(a, control, n) : n \in 1..N}
    <2>1. \A n \in 1..N : LET v == Violation(a, control, n)
                         IN  IsRecord(v) /\ v.control = control /\ v.result # "satisfied"
      BY <1>1 DEF Violation, RecordFor, Result, IsRecord, Results
    <2>2. found \in Seq(S)
      BY <1>3
    <2>3. \A r \in S : IsRecord(r) /\ r.control = control /\ r.result # "satisfied"
      BY <2>1
    <2> HIDE DEF S, found
    <2>4. Yields(found, control)
      BY <2>2, <2>3 DEF Yields
    <2>5. found # <<>> => 1 \in 1..Len(found) /\ found[1] \in S
      BY <2>2
    <2>6. QED
      BY <2>3, <2>4, <2>5 DEF Spotless
  <1>7. ASSUME ~InventoryEmpty(a), found = <<>> PROVE Shippable(source, a)
    <2>1. a.components # <<>>
      BY <1>7 DEF InventoryEmpty
    <2>2. \A n \in 1..N : ~IsBanned(source.banned, a.components[n])
      BY <1>3, <1>7
    <2>3. \A n \in 1..N, b \in source.banned :
              b.name = a.components[n].name =>
                  b.version \notin {AnyVersion, a.components[n].version}
      BY <2>2 DEF IsBanned
    <2>4. QED
      BY <2>1, <2>3 DEF Shippable
  <1> HIDE DEF found, bare, good
  <1>8. QED
    BY <1>4, <1>5, <1>6, <1>7

(***************************************************************************)
(* Every producer yields records for its source's control, and clean ones  *)
(* only of an artifact that its documentation would ship.                  *)
(***************************************************************************)
LEMMA ProduceSound ==
    ASSUME NEW source, source.type \in SourceTypes, NEW a, a # Unreadable,
           Parsed(source.type, a)
    PROVE  LET p == Produce(source, a)
           IN  Yields(p, source.control) /\ (Spotless(p) => Shippable(source, a))
  <1>1. \/ source.type = "change-control" \/ source.type = "drift"
        \/ source.type = "eval-gate" \/ source.type = "provenance"
        \/ source.type = "sbom"
    BY DEF SourceTypes
  <1>2. QED
    BY <1>1, ChangeSound, DriftSound, EvalSound, ProvenanceSound, SBOMSound

----------------------------------------------------------------------------
(* The invariant of the gate                                               *)

AllArtifacts == UNION {Artifacts(type, b) : type \in SourceTypes, b \in 1..MaxBuilds}
Given == UNION {{<<source, a>> : a \in Artifacts(source.type, b) \ {Unreadable}} :
                   source \in Sources, b \in 1..MaxBuilds}
Emitted == UNION {ToSet(Produce(q[1], q[2])) : q \in Given}
Cited == {Crosswalk[i].control : i \in 1..Len(Crosswalk)}
Citations ==
    {r \in [control : Cited, subject : {<<"crosswalk", c>> : c \in Cited},
            result : Results, at : Nat] : r.subject = <<"crosswalk", r.control>>}

RTypes ==
    /\ step \in {"idle", "read", "append", "verify", "judge", "derive"}
    /\ manifest \in Manifests \cup {<<>>}
    /\ withLedger \in BOOLEAN /\ current \in BOOLEAN /\ paired \in BOOLEAN /\ fresh \in BOOLEAN
    /\ read \in Seq(AllArtifacts) /\ Len(read) <= Len(manifest)
    /\ records \in Seq(Emitted) /\ ledger \in Seq(Emitted)
    /\ derived \in Seq(Citations) /\ target \in Seq(Citations)
    /\ appended \in Nat
    /\ exit \in {"none", "cleared", "blocked", "error"}
    /\ builds \in 0..MaxBuilds /\ faults \in 0..MaxFaults

(***************************************************************************)
(* The records hold what the producers made of every artifact read so far. *)
(***************************************************************************)
Backed(recs, m, arts) ==
    \A j \in 1..Len(arts) :
        /\ <<m[j], arts[j]>> \in Given
        /\ Produce(m[j], arts[j]) # <<>>
        /\ ToSet(Produce(m[j], arts[j])) \subseteq ToSet(recs)

Evidencing == step \in {"read", "append", "verify", "judge"}
GateInv ==
    /\ Evidencing => manifest # <<>> /\ exit = "none" /\ builds # 0
    /\ Evidencing \/ exit = "cleared" => Backed(records, manifest, read)
    /\ step = "read" => Len(read) < Len(manifest) /\ appended = 0
    /\ step \in {"append", "verify", "judge"} => Len(read) = Len(manifest) /\ records # <<>>
    /\ step \in {"append", "verify"} => withLedger
    /\ exit = "cleared" => /\ manifest # <<>> /\ Len(read) = Len(manifest)
                           /\ Blocking(records) = {}

(***************************************************************************)
(* s ends with the first n of t, and has nothing else if alone.            *)
(***************************************************************************)
EndsWith(s, t, n, alone) ==
    /\ n <= Len(s) /\ (alone => Len(s) = n)
    /\ \A i \in 1..n : s[Len(s) - n + i] = t[i]

LedgerInv ==
    /\ step = "read" /\ fresh => ledger = <<>>
    /\ step = "append" =>
          appended < Len(records) /\ EndsWith(ledger, records, appended, fresh)
    /\ step = "verify" \/ (withLedger /\ (step = "judge" \/ exit = "cleared")) =>
          EndsWith(ledger, records, Len(records), fresh)
    /\ step # "derive" => appended <= Len(records) + Len(derived)

(***************************************************************************)
(* In a derived ledger of this source alone no record is younger than what *)
(* the crosswalk would derive now, nor than a later one of its citation.   *)
(***************************************************************************)
Single(c) == \E i \in 1..Len(Crosswalk) : Crosswalk[i].control = c /\ MappedOnce(i)
NotNewer(recs, t) ==
    \A k \in 1..Len(t), i \in 1..Len(Crosswalk) :
        t[k].control = Crosswalk[i].control /\ MappedOnce(i) =>
            t[k].at <= Derived(recs, Crosswalk[i]).at
Rising(t) ==
    \A j, k \in 1..Len(t) :
        j < k /\ t[j].control = t[k].control /\ Single(t[k].control) => t[j].at <= t[k].at

CrosswalkInv ==
    /\ paired => NotNewer(ledger, target) /\ Rising(target)
    /\ step = "derive" => /\ appended < Len(derived) /\ derived = Apply(ledger, Crosswalk)
                          /\ EndsWith(target, derived, appended, FALSE)
    /\ current => /\ step = "idle"
                  /\ EndsWith(target, Apply(ledger, Crosswalk), Len(Crosswalk), FALSE)

RInv == RTypes /\ GateInv /\ LedgerInv /\ CrosswalkInv

(***************************************************************************)
(* What is given to a producer, and the records it makes of it.            *)
(***************************************************************************)
LEMMA GivenFacts ==
    ASSUME NEW source, NEW a, <<source, a>> \in Given
    PROVE  /\ source \in Sources /\ a # Unreadable /\ a \in AllArtifacts
           /\ Yields(Produce(source, a), source.control)
           /\ Spotless(Produce(source, a)) => Shippable(source, a)
  <1>1. PICK t \in Sources, b \in 1..MaxBuilds :
            <<source, a>> \in {<<t, x>> : x \in Artifacts(t.type, b) \ {Unreadable}}
    BY DEF Given
  <1>2. source = t /\ a \in Artifacts(t.type, b) \ {Unreadable}
    BY <1>1
  <1>3. source.type \in SourceTypes
    BY <1>2, ReleaseAssumption
  <1>4. Parsed(source.type, a)
    BY <1>2, <1>3, ReleaseAssumption
  <1>5. a \in AllArtifacts
    BY <1>2, <1>3 DEF AllArtifacts
  <1>6. QED
    BY <1>2, <1>3, <1>4, <1>5, ProduceSound

LEMMA IsGiven ==
    ASSUME NEW source \in Sources, NEW b \in 1..MaxBuilds,
           NEW a \in Artifacts(source.type, b) \ {Unreadable}
    PROVE  <<source, a>> \in Given
  <1> DEFINE P(t, d) == {<<t, x>> : x \in Artifacts(t.type, d) \ {Unreadable}}
  <1>1. <<source, a>> \in P(source, b)
    OBVIOUS
  <1>2. Given = UNION {P(t, d) : t \in Sources, d \in 1..MaxBuilds}
    BY DEF Given
  <1> HIDE DEF P
  <1>3. P(source, b) \in {P(t, d) : t \in Sources, d \in 1..MaxBuilds}
    OBVIOUS
  <1>4. QED
    BY <1>1, <1>2, <1>3

LEMMA YieldsList ==
    ASSUME NEW p, NEW control, Yields(p, control)
    PROVE  /\ p \in Seq(ToSet(p)) /\ Len(p) \in Nat
           /\ \A r \in ToSet(p) : IsRecord(r) /\ r.control = control
           /\ ToSet(p) = {p[i] : i \in 1..Len(p)}
  <1>1. PICK S : p \in Seq(S) /\ \A r \in S : IsRecord(r) /\ r.control = control
    BY DEF Yields
  <1>2. DOMAIN p = 1..Len(p) /\ Len(p) \in Nat /\ \A i \in 1..Len(p) : p[i] \in S
    BY <1>1
  <1>3. ToSet(p) = {p[i] : i \in 1..Len(p)}
    BY <1>2 DEF ToSet
  <1>4. p \in [1..Len(p) -> ToSet(p)]
    <2>1. p = [i \in 1..Len(p) |-> p[i]]
      BY <1>1
    <2>2. \A i \in 1..Len(p) : p[i] \in ToSet(p)
      BY <1>3
    <2>3. QED
      BY <2>1, <2>2
  <1>5. QED
    BY <1>1, <1>2, <1>3, <1>4

LEMMA EmittedFacts ==
    /\ IsRecordOf(Emitted)
    /\ \A q \in Given : Produce(q[1], q[2]) \in Seq(Emitted)
  <1>1. ASSUME NEW q \in Given
        PROVE  /\ Produce(q[1], q[2]) \in Seq(ToSet(Produce(q[1], q[2])))
               /\ \A r \in ToSet(Produce(q[1], q[2])) : IsRecord(r)
    <2>1. q = <<q[1], q[2]>>
      BY DEF Given
    <2>2. Yields(Produce(q[1], q[2]), q[1].control)
      BY <2>1, GivenFacts
    <2>3. QED
      BY <2>2, YieldsList
  <1>2. IsRecordOf(Emitted)
    BY <1>1 DEF IsRecordOf, Emitted, IsRecord
  <1>3. ASSUME NEW q \in Given PROVE Produce(q[1], q[2]) \in Seq(Emitted)
    <2>1. ToSet(Produce(q[1], q[2])) \subseteq Emitted
      BY DEF Emitted
    <2>2. QED
      BY <1>1, <2>1
  <1>4. QED
    BY <1>2, <1>3

----------------------------------------------------------------------------
(* Times                                                                   *)

LEMMA MaxOf ==
    ASSUME NEW N \in Nat, NEW S, S \subseteq 0..N, S # {}
    PROVE  Max(S) \in S /\ \A x \in S : x <= Max(S)
  <1> DEFINE Top(m, n) == m \in S /\ \A y \in S : y <= n => y <= m
             G == {n \in 0..N : (\E x \in S : x <= n) => \E m \in S : Top(m, n)}
  <1>1. 0 \in G
    <2>1. \A x \in S : x <= 0 => x = 0
      OBVIOUS
    <2>2. QED
      BY <2>1
  <1>2. ASSUME NEW n \in 0..N, n < N, n \in G PROVE n + 1 \in G
    <2>1. n + 1 \in 0..N
      BY <1>2
    <2>2. \A y \in S : y <= n + 1 <=> y <= n \/ y = n + 1
      OBVIOUS
    <2>3. CASE n + 1 \in S
      <3>1. Top(n + 1, n + 1)
        BY <2>3
      <3>2. QED
        BY <2>1, <2>3, <3>1
    <2>4. CASE n + 1 \notin S
      <3>1. \A y \in S : y <= n + 1 <=> y <= n
        BY <2>2, <2>4
      <3>2. QED
        BY <1>2, <2>1, <3>1
    <2>5. QED
      BY <2>3, <2>4
  <1>3. N \in G
    <2> HIDE DEF G
    <2>1. 0..N \subseteq G
      BY <1>1, <1>2, UpTo
    <2>2. QED
      BY <2>1
  <1>4. PICK m \in S : Top(m, N)
    BY <1>3
  <1>5. \A y \in S : m >= y
    BY <1>4
  <1>6. Max(S) \in S /\ \A y \in S : Max(S) >= y
    BY <1>5 DEF Max
  <1>7. QED
    BY <1>6

LEMMA Dated ==
    ASSUME NEW S, IsRecordOf(S), NEW recs \in Seq(S)
    PROVE  \E N \in Nat : \A i \in 1..Len(recs) : recs[i].at <= N
  <1> DEFINE M == Len(recs)
             G == {n \in 0..M : \E N \in Nat : \A i \in 1..n : recs[i].at <= N}
  <1>1. M \in Nat /\ \A i \in 1..M : recs[i].at \in Nat
    BY DEF IsRecordOf
  <1> HIDE DEF M
  <1>2. 0 \in G
    BY <1>1
  <1>3. ASSUME NEW n \in 0..M, n < M, n \in G PROVE n + 1 \in G
    <2>1. PICK N \in Nat : \A i \in 1..n : recs[i].at <= N
      BY <1>3
    <2>2. n + 1 \in 1..M /\ n + 1 \in 0..M
      BY <1>1, <1>3
    <2> DEFINE a == recs[n + 1].at
    <2>3. a \in Nat
      BY <1>1, <2>2
    <2>4. \A i \in 1..n + 1 : i = n + 1 \/ i \in 1..n
      OBVIOUS
    <2>5. \A i \in 1..n : recs[i].at \in Nat
      BY <1>1, <2>2
    <2> HIDE DEF a
    <2>6. \A i \in 1..n + 1 : recs[i].at <= N + a
      BY <2>1, <2>3, <2>4, <2>5 DEF a
    <2> DEFINE b == N + a
    <2>7. b \in Nat /\ \A i \in 1..n + 1 : recs[i].at <= b
      BY <2>3, <2>6
    <2> HIDE DEF b
    <2>8. QED
      BY <2>2, <2>7
  <1>4. M \in G
    <2> HIDE DEF G
    <2>1. 0..M \subseteq G
      BY <1>1, <1>2, <1>3, UpTo
    <2>2. QED
      BY <1>1, <2>1
  <1>5. QED
    BY <1>4 DEF M

(***************************************************************************)
(* When a control was last observed, and how old a derived record is.      *)
(***************************************************************************)
LEMMA LastObservedFacts ==
    ASSUME NEW S, IsRecordOf(S), NEW recs \in Seq(S), NEW N \in Nat,
           \A i \in 1..Len(recs) : recs[i].at <= N, NEW c
    PROVE  /\ LastObserved(recs, c) \in 0..N
           /\ \A i \in 1..Len(recs) :
                 recs[i].control = c => recs[i].at <= LastObserved(recs, c)
           /\ \/ LastObserved(recs, c) = 0
              \/ \E i \in 1..Len(recs) :
                    recs[i].control = c /\ recs[i].at = LastObserved(recs, c)
  <1> DEFINE T == {0} \cup {recs[i].at : i \in {j \in 1..Len(recs) : recs[j].control = c}}
  <1>1. \A i \in 1..Len(recs) : recs[i].at \in Nat
    BY DEF IsRecordOf
  <1>2. ToSet(recs) = {recs[i] : i \in 1..Len(recs)}
    BY DEF ToSet
  <1>3. T = {0} \cup {r.at : r \in {q \in ToSet(recs) : q.control = c}}
    BY <1>2
  <1>4. LastObserved(recs, c) = Max(T)
    BY <1>3 DEF LastObserved
  <1>5. T \subseteq 0..N /\ T # {}
    BY <1>1
  <1>6. Max(T) \in T /\ \A x \in T : x <= Max(T)
    <2> HIDE DEF T
    <2>1. QED
      BY <1>5, MaxOf
  <1>7. QED
    BY <1>4, <1>5, <1>6

LEMMA DerivedAt ==
    ASSUME NEW S, IsRecordOf(S), NEW recs \in Seq(S), NEW m
    PROVE  /\ Derived(recs, m).at \in Nat
           /\ \A c \in m.satisfiedBy : LastObserved(recs, c) <= Derived(recs, m).at
           /\ \/ Derived(recs, m).at = 0
              \/ \E c \in m.satisfiedBy : Derived(recs, m).at = LastObserved(recs, c)
  <1> DEFINE T == {0} \cup {LastObserved(recs, c) : c \in m.satisfiedBy}
  <1>1. PICK N \in Nat : \A i \in 1..Len(recs) : recs[i].at <= N
    BY Dated
  <1>2. \A c : LastObserved(recs, c) \in 0..N
    BY <1>1, LastObservedFacts
  <1>3. T \subseteq 0..N /\ T # {}
    BY <1>2
  <1>4. Derived(recs, m).at = Max(T)
    BY DEF Derived
  <1>5. Max(T) \in T /\ \A x \in T : x <= Max(T)
    <2> HIDE DEF T
    <2>1. QED
      BY <1>3, MaxOf
  <1>6. Max(T) \in Nat
    BY <1>3, <1>5
  <1> DEFINE top == Max(T)
  <1> HIDE DEF top
  <1>7. /\ \A c \in m.satisfiedBy : LastObserved(recs, c) <= top
        /\ top = 0 \/ \E c \in m.satisfiedBy : top = LastObserved(recs, c)
    BY <1>5 DEF top
  <1>8. top \in Nat /\ Derived(recs, m).at = top
    BY <1>4, <1>6 DEF top
  <1>9. QED
    BY <1>7, <1>8

LEMMA DerivedLater ==
    ASSUME NEW S, IsRecordOf(S), NEW recs \in Seq(S), NEW r \in S, NEW m
    PROVE  Derived(recs, m).at <= Derived(Append(recs, r), m).at
  <1> DEFINE more == Append(recs, r)
             old == Derived(recs, m).at
             new == Derived(more, m).at
  <1>1. /\ more \in Seq(S) /\ Len(recs) \in Nat
        /\ \A i \in 1..Len(recs) : i \in 1..Len(more) /\ more[i] = recs[i]
    OBVIOUS
  <1>2. PICK N \in Nat : \A i \in 1..Len(more) : more[i].at <= N
    BY <1>1, Dated
  <1>3. \A i \in 1..Len(recs) : recs[i].at <= N
    BY <1>1, <1>2
  <1>4. \A c : LastObserved(recs, c) \in 0..N /\ LastObserved(more, c) \in 0..N
    BY <1>1, <1>2, <1>3, LastObservedFacts
  <1>5. \A c : LastObserved(recs, c) <= LastObserved(more, c)
    <2> TAKE c
    <2>1. CASE LastObserved(recs, c) = 0
      BY <1>4, <2>1
    <2>2. CASE LastObserved(recs, c) # 0
      <3>1. PICK i \in 1..Len(recs) :
                recs[i].control = c /\ recs[i].at = LastObserved(recs, c)
        BY <1>3, <2>2, LastObservedFacts
      <3>2. i \in 1..Len(more) /\ more[i] = recs[i]
        BY <1>1
      <3>3. more[i].at <= LastObserved(more, c)
        BY <1>1, <1>2, <3>1, <3>2, LastObservedFacts
      <3>4. QED
        BY <3>1, <3>2, <3>3
    <2>3. QED
      BY <2>1, <2>2
  <1> HIDE DEF more
  <1>6. /\ old \in Nat /\ new \in Nat
        /\ \A c \in m.satisfiedBy : LastObserved(more, c) <= new
        /\ old = 0 \/ \E c \in m.satisfiedBy : old = LastObserved(recs, c)
    BY <1>1, DerivedAt
  <1> HIDE DEF old, new
  <1>7. CASE old = 0
    BY <1>6, <1>7 DEF more, old, new
  <1>8. CASE old # 0
    <2>1. PICK c \in m.satisfiedBy : old = LastObserved(recs, c)
      BY <1>6, <1>8
    <2>2. LastObserved(recs, c) <= LastObserved(more, c) /\ LastObserved(more, c) <= new
      BY <1>5, <1>6
    <2>3. old <= new
      BY <1>4, <1>6, <2>1, <2>2
    <2>4. QED
      BY <2>3 DEF more, old, new
  <1>9. QED
    BY <1>7, <1>8

----------------------------------------------------------------------------
(* The steps of the gate                                                   *)

LEMMA InSet ==
    ASSUME NEW S, NEW s \in Seq(S)
    PROVE  /\ ToSet(s) = {s[i] : i \in 1..Len(s)} /\ ToSet(s) \subseteq S
           /\ \A i \in 1..Len(s) : s[i] \in ToSet(s) /\ s[i] \in S
  BY DEF ToSet

LEMMA Joined ==
    ASSUME NEW S, NEW s \in Seq(S), NEW t \in Seq(S)
    PROVE  s \o t \in Seq(S) /\ ToSet(s) \subseteq ToSet(s \o t) /\ ToSet(t) \subseteq ToSet(s \o t)
  <1> DEFINE u == s \o t
  <1>1. u \in Seq(S) /\ Len(u) = Len(s) + Len(t) /\ Len(s) \in Nat /\ Len(t) \in Nat
    OBVIOUS
  <1>2. /\ \A i \in 1..Len(s) : i \in 1..Len(u) /\ u[i] = s[i]
        /\ \A i \in 1..Len(t) : Len(s) + i \in 1..Len(u) /\ u[Len(s) + i] = t[i]
    OBVIOUS
  <1> HIDE DEF u
  <1>3. ToSet(u) = {u[i] : i \in 1..Len(u)}
    BY <1>1, InSet
  <1>4. ToSet(s) \subseteq ToSet(u)
    BY <1>2, <1>3, InSet
  <1>5. ToSet(t) \subseteq ToSet(u)
    <2> SUFFICES ASSUME NEW x \in ToSet(t) PROVE x \in ToSet(u)
      OBVIOUS
    <2>1. PICK i \in 1..Len(t) : x = t[i]
      BY InSet
    <2>2. QED
      BY <1>2, <1>3, <2>1
  <1>6. QED
    BY <1>1, <1>4, <1>5 DEF u

LEMMA ManifestFacts ==
    ASSUME NEW m \in Manifests \cup {<<>>}
    PROVE  /\ m \in Seq(Sources) /\ Len(m) \in Nat
           /\ \A i \in 1..Len(m) : m[i] \in Sources /\ m[i].type \in SourceTypes
           /\ m # <<>> => Len(m) # 0
  <1>1. m \in Seq(Sources)
    <2>1. <<>> \in Seq(Sources)
      OBVIOUS
    <2>2. QED
      BY <2>1, ReleaseAssumption
  <1>2. Len(m) \in Nat /\ \A i \in 1..Len(m) : m[i] \in Sources
    BY <1>1
  <1>3. m # <<>> => Len(m) # 0
    BY <1>1
  <1>4. QED
    BY <1>1, <1>2, <1>3, ReleaseAssumption

LEMMA CitationFacts ==
    ASSUME NEW recs \in Seq(Emitted)
    PROVE  /\ Apply(recs, Crosswalk) \in Seq(Citations)
           /\ Len(Apply(recs, Crosswalk)) = Len(Crosswalk) /\ Len(Crosswalk) \in Nat
           /\ \A i \in 1..Len(Crosswalk) :
                 Apply(recs, Crosswalk)[i] = Derived(recs, Crosswalk[i])
  <1>1. Len(Crosswalk) \in Nat
    BY ReleaseAssumption
  <1>2. ASSUME NEW i \in 1..Len(Crosswalk) PROVE Derived(recs, Crosswalk[i]) \in Citations
    <2>1. Derived(recs, Crosswalk[i]).at \in Nat
      BY DerivedAt, EmittedFacts
    <2>2. Crosswalk[i].control \in Cited
      BY DEF Cited
    <2>3. QED
      BY <2>1, <2>2 DEF Derived, Citations, Results
  <1>3. QED
    BY <1>1, <1>2 DEF Apply

(***************************************************************************)
(* Nothing was read yet, and everything is as it was.                      *)
(***************************************************************************)
LEMMA Initially == Init => RInv
  <1> SUFFICES ASSUME Init PROVE RInv
    OBVIOUS
  <1>1. <<>> \in Seq(AllArtifacts) /\ <<>> \in Seq(Emitted) /\ <<>> \in Seq(Citations)
        /\ Len(<<>>) = 0
    OBVIOUS
  <1>2. 0 \in 0..MaxBuilds /\ 0 \in 0..MaxFaults
    BY ReleaseAssumption
  <1>3. RTypes
    <2>1. /\ step = "idle" /\ manifest = <<>> /\ withLedger = FALSE /\ current = FALSE
          /\ paired = TRUE /\ fresh = TRUE /\ read = <<>> /\ records = <<>> /\ ledger = <<>> /\ derived = <<>>
          /\ target = <<>> /\ appended = 0 /\ exit = "none" /\ builds = 0 /\ faults = 0
      BY DEF Init
    <2>2. {withLedger, current, paired, fresh} \subseteq BOOLEAN
      BY <2>1
    <2>3. manifest \in Manifests \cup {<<>>} /\ Len(read) <= Len(manifest)
      BY <1>1, <2>1
    <2>4. /\ read \in Seq(AllArtifacts) /\ records \in Seq(Emitted) /\ ledger \in Seq(Emitted)
          /\ derived \in Seq(Citations) /\ target \in Seq(Citations)
      BY <1>1, <2>1
    <2>5. QED
      BY <1>2, <2>1, <2>2, <2>3, <2>4 DEF RTypes
  <1>4. GateInv
    BY DEF GateInv, Evidencing, Init
  <1>5. LedgerInv
    BY <1>1 DEF LedgerInv, Init
  <1>6. CrosswalkInv
    <2>1. NotNewer(ledger, target) /\ Rising(target)
      BY <1>1 DEF NotNewer, Rising, Init
    <2>2. QED
      BY <2>1 DEF CrosswalkInv, Init
  <1>7. QED
    BY <1>3, <1>4, <1>5, <1>6 DEF RInv

LEMMA BeginKeeps ==
    ASSUME RInv, Begin
    PROVE  RInv'
  <1>1. PICK m \in Manifests, l \in BOOLEAN, new \in BOOLEAN :
          /\ manifest' = m /\ withLedger' = l
          /\ fresh' = (new \/ ledger = <<>>)
          /\ ledger' = IF new THEN <<>> ELSE ledger
          /\ paired' = IF new THEN target = <<>> ELSE paired
          /\ step' = IF m = <<>> THEN "idle" ELSE "read"
          /\ exit' = IF m = <<>> THEN "error" ELSE "none"
    BY DEF Begin
  <1>2. /\ builds < MaxBuilds /\ builds' = builds + 1 /\ read' = <<>> /\ records' = <<>>
        /\ appended' = 0 /\ current' = FALSE /\ derived' = derived /\ target' = target
        /\ faults' = faults
    BY DEF Begin
  <1>3. <<>> \in Seq(AllArtifacts) /\ <<>> \in Seq(Emitted) /\ <<>> \in Seq(Citations)
        /\ Len(<<>>) = 0
    OBVIOUS
  <1>4. Len(m) \in Nat /\ (m # <<>> => Len(m) # 0)
    BY ManifestFacts
  <1>5. builds \in Nat /\ builds + 1 \in 0..MaxBuilds /\ builds + 1 # 0
    BY <1>2, ReleaseAssumption DEF RInv, RTypes
  <1>6. RTypes'
    <2>1. RTypes
      BY DEF RInv
    <2>2. step' \in {"idle", "read"} /\ exit' \in {"none", "error"}
      BY <1>1
    <2>3. manifest' \in Manifests \cup {<<>>} /\ Len(read') <= Len(manifest')
      BY <1>1, <1>2, <1>3, <1>4
    <2>4. withLedger' \in BOOLEAN /\ fresh' \in BOOLEAN /\ current' \in BOOLEAN
          /\ paired' \in BOOLEAN
      BY <1>1, <1>2, <2>1 DEF RTypes
    <2>5. ledger' \in Seq(Emitted) /\ target' \in Seq(Citations)
      BY <1>1, <1>2, <1>3, <2>1 DEF RTypes
    <2>6. QED
      BY <1>2, <1>3, <1>5, <2>1, <2>2, <2>3, <2>4, <2>5 DEF RTypes
  <1>7. GateInv'
    BY <1>1, <1>2, <1>3, <1>4, <1>5 DEF GateInv, Evidencing, Backed
  <1>8. LedgerInv'
    <2>1. fresh' => ledger' = <<>>
      BY <1>1
    <2>2. appended' <= Len(records') + Len(derived')
      BY <1>2, <1>3 DEF RInv, RTypes
    <2>3. step' \in {"idle", "read"} /\ exit' # "cleared"
      BY <1>1
    <2>4. QED
      BY <2>1, <2>2, <2>3 DEF LedgerInv
  <1>9. CrosswalkInv'
    <2>1. paired => NotNewer(ledger, target) /\ Rising(target)
      BY DEF RInv, CrosswalkInv
    <2>2. paired' => NotNewer(ledger', target') /\ Rising(target')
      <3>1. CASE new
        <4>1. paired' => target' = <<>>
          BY <1>1, <1>2, <3>1
        <4>2. target' = <<>> => NotNewer(ledger', target') /\ Rising(target')
          BY <1>3 DEF NotNewer, Rising
        <4>3. QED
          BY <4>1, <4>2
      <3>2. CASE ~new
        BY <1>1, <1>2, <2>1, <3>2
      <3>3. QED
        BY <3>1, <3>2
    <2>3. step' \in {"idle", "read"} /\ ~current'
      BY <1>1, <1>2
    <2>4. QED
      BY <2>2, <2>3 DEF CrosswalkInv
  <1>10. QED
    BY <1>6, <1>7, <1>8, <1>9 DEF RInv

(***************************************************************************)
(* One more artifact and its records.                                      *)
(***************************************************************************)
LEMMA BackedMore ==
    ASSUME NEW recs \in Seq(Emitted), NEW m, NEW arts \in Seq(AllArtifacts),
           NEW a \in AllArtifacts, Backed(recs, m, arts),
           <<m[Len(arts) + 1], a>> \in Given, Produce(m[Len(arts) + 1], a) # <<>>
    PROVE  Backed(recs \o Produce(m[Len(arts) + 1], a), m, Append(arts, a))
  <1> DEFINE n == Len(arts)
             p == Produce(m[n + 1], a)
             more == Append(arts, a)
  <1>1. n \in Nat /\ Len(more) = n + 1 /\ more[n + 1] = a /\ \A j \in 1..n : more[j] = arts[j]
    OBVIOUS
  <1>2. p \in Seq(Emitted)
    BY EmittedFacts
  <1>3. ToSet(recs) \subseteq ToSet(recs \o p) /\ ToSet(p) \subseteq ToSet(recs \o p)
    BY <1>2, Joined
  <1>4. ASSUME NEW j \in 1..n + 1
        PROVE  /\ <<m[j], more[j]>> \in Given
               /\ Produce(m[j], more[j]) # <<>>
               /\ ToSet(Produce(m[j], more[j])) \subseteq ToSet(recs \o p)
    <2>1. CASE j = n + 1
      BY <1>1, <1>3, <2>1
    <2>2. CASE j # n + 1
      <3>1. j \in 1..n /\ more[j] = arts[j]
        BY <1>1, <2>2
      <3>2. /\ <<m[j], arts[j]>> \in Given
            /\ Produce(m[j], arts[j]) # <<>>
            /\ ToSet(Produce(m[j], arts[j])) \subseteq ToSet(recs)
        BY <3>1 DEF Backed
      <3>3. QED
        BY <1>3, <3>1, <3>2
    <2>3. QED
      BY <2>1, <2>2
  <1>5. QED
    BY <1>1, <1>4 DEF Backed

LEMMA ReadKeeps ==
    ASSUME RInv, ReadSource
    PROVE  RInv'
  <1> DEFINE n == Len(read)
             source == manifest[n + 1]
             last == n + 1 = Len(manifest)
  <1>1. /\ step = "read" /\ manifest # <<>> /\ exit = "none" /\ builds \in 1..MaxBuilds
        /\ Backed(records, manifest, read) /\ n < Len(manifest) /\ appended = 0
    BY ReleaseAssumption DEF ReadSource, RInv, RTypes, GateInv, Evidencing
  <1>2. UNCHANGED <<manifest, withLedger, appended, derived, ledger, target,
                    current, paired, fresh, builds, faults>>
    BY DEF ReadSource
  <1>3. manifest \in Manifests \cup {<<>>} /\ read \in Seq(AllArtifacts)
        /\ records \in Seq(Emitted) /\ derived \in Seq(Citations) /\ withLedger \in BOOLEAN
    BY DEF RInv, RTypes
  <1>4. n \in Nat /\ Len(manifest) \in Nat
    BY <1>3, ManifestFacts
  <1>5. n + 1 \in 1..Len(manifest)
    BY <1>1, <1>4
  <1>6. source \in Sources /\ source.type \in SourceTypes
    BY <1>3, <1>5, ManifestFacts
  <1>7. PICK a \in Artifacts(source.type, builds) :
              /\ read' = Append(read, a)
              /\ IF a = Unreadable \/ NoEvidence(Produce(source, a))
                 THEN /\ exit' = "error" /\ step' = "idle"
                      /\ records' = <<>>
                 ELSE /\ records' = records \o Produce(source, a)
                      /\ step' = IF ~last THEN "read"
                                 ELSE IF withLedger THEN "append" ELSE "judge"
                      /\ UNCHANGED exit
    BY DEF ReadSource
  <1>8. a \in AllArtifacts
    BY <1>1, <1>6 DEF AllArtifacts
  <1>9. read' \in Seq(AllArtifacts) /\ Len(read') = n + 1 /\ Len(read') <= Len(manifest)
    BY <1>1, <1>3, <1>4, <1>7, <1>8
  <1>10. <<>> \in Seq(Emitted) /\ Len(<<>>) = 0 /\ Len(derived) \in Nat
    BY <1>3
  <1>11. CrosswalkInv /\ LedgerInv /\ ~current
    BY <1>1 DEF RInv, CrosswalkInv
  <1> DEFINE p == Produce(source, a)
  <1> HIDE DEF n, source, last
  <1>12. CASE a = Unreadable \/ NoEvidence(p)
    <2>1. exit' = "error" /\ step' = "idle" /\ records' = <<>>
      BY <1>7, <1>12
    <2>2. RTypes'
      BY <1>2, <1>9, <1>10, <2>1 DEF RInv, RTypes
    <2>3. GateInv'
      BY <2>1 DEF GateInv, Evidencing
    <2>4. LedgerInv'
      BY <1>1, <1>2, <1>10, <2>1 DEF LedgerInv
    <2>5. CrosswalkInv'
      BY <1>2, <1>11, <2>1 DEF CrosswalkInv
    <2>6. QED
      BY <2>2, <2>3, <2>4, <2>5 DEF RInv
  <1>13. CASE ~(a = Unreadable \/ NoEvidence(p))
    <2>1. /\ records' = records \o p /\ exit' = "none" /\ a # Unreadable /\ p # <<>>
          /\ step' = IF ~last THEN "read" ELSE IF withLedger THEN "append" ELSE "judge"
      BY <1>1, <1>7, <1>13 DEF NoEvidence
    <2>2. <<source, a>> \in Given
      <3>1. a \in Artifacts(source.type, builds) \ {Unreadable}
        BY <2>1
      <3>2. QED
        BY <1>1, <1>6, <3>1, IsGiven
    <2>3. p \in Seq(Emitted)
      BY <2>2, EmittedFacts
    <2>4. records' \in Seq(Emitted)
      BY <1>3, <2>1, <2>3
    <2>5. Len(records') = Len(records) + Len(p) /\ Len(p) # 0 /\ Len(p) \in Nat
          /\ Len(records) \in Nat
      BY <1>3, <2>1, <2>3
    <2>6. records' # <<>> /\ Len(records') # 0
      BY <2>5
    <2>7. Backed(records', manifest, read')
      BY <1>1, <1>3, <1>7, <1>8, <2>1, <2>2, BackedMore DEF n, source
    <2>8. RTypes'
      BY <1>2, <1>9, <2>1, <2>4 DEF RInv, RTypes
    <2>9. GateInv'
      <3>1. ~last => Len(read') < Len(manifest)
        BY <1>1, <1>4, <1>9 DEF last
      <3>2. last => Len(read') = Len(manifest)
        BY <1>9 DEF last
      <3>3. QED
        BY <1>1, <1>2, <2>1, <2>6, <2>7, <3>1, <3>2 DEF GateInv, Evidencing
    <2>10. LedgerInv'
      <3>1. fresh => ledger = <<>>
        BY <1>1, <1>11 DEF LedgerInv
      <3>2. appended' = 0 /\ 0 < Len(records') /\ 0 <= Len(records') + Len(derived)
        BY <1>1, <1>2, <1>10, <2>5
      <3>3. EndsWith(ledger, records', 0, fresh)
        BY <3>1 DEF EndsWith, RInv, RTypes
      <3>4. step' = "judge" => ~withLedger
        BY <2>1
      <3>5. QED
        BY <1>2, <2>1, <3>1, <3>2, <3>3, <3>4 DEF LedgerInv
    <2>11. CrosswalkInv'
      BY <1>2, <1>11, <2>1 DEF CrosswalkInv
    <2>12. QED
      BY <2>8, <2>9, <2>10, <2>11 DEF RInv
  <1>14. QED
    BY <1>12, <1>13

LEMMA EndsWithMore ==
    ASSUME NEW S, NEW s \in Seq(S), NEW t \in Seq(S), NEW n \in Nat, n < Len(t), NEW alone,
           EndsWith(s, t, n, alone)
    PROVE  EndsWith(Append(s, t[n + 1]), t, n + 1, alone)
  <1> DEFINE x == t[n + 1]
             u == Append(s, x)
  <1>1. Len(s) \in Nat /\ Len(t) \in Nat /\ x \in S
    OBVIOUS
  <1> HIDE DEF x
  <1>2. /\ Len(u) = Len(s) + 1 /\ u[Len(s) + 1] = x
        /\ \A i \in 1..Len(s) : u[i] = s[i]
    BY <1>1
  <1>3. n <= Len(s) /\ (alone => Len(s) = n) /\ \A i \in 1..n : s[Len(s) - n + i] = t[i]
    BY DEF EndsWith
  <1> DEFINE l == Len(s)
  <1> HIDE DEF u, l
  <1>4. l \in Nat /\ Len(u) = l + 1
    BY <1>1, <1>2 DEF l
  <1>5. ASSUME NEW i \in 1..n + 1 PROVE u[(l + 1) - (n + 1) + i] = t[i]
    <2>1. (l + 1) - (n + 1) + i = l - n + i
      BY <1>4
    <2>2. CASE i = n + 1
      <3>1. l - n + i = l + 1
        BY <1>4, <2>2
      <3>2. QED
        BY <1>2, <2>1, <2>2, <3>1 DEF l, x
    <2>3. CASE i # n + 1
      <3>1. i \in 1..n /\ l - n + i \in 1..l
        BY <1>3, <1>4, <2>3 DEF l
      <3>2. u[l - n + i] = s[l - n + i]
        BY <1>2, <3>1 DEF l
      <3>3. QED
        BY <1>3, <2>1, <3>1, <3>2 DEF l
    <2>4. QED
      BY <2>2, <2>3
  <1>6. n + 1 <= Len(u) /\ (alone => Len(u) = n + 1)
    BY <1>3, <1>4 DEF l
  <1>7. \A i \in 1..n + 1 : u[Len(u) - (n + 1) + i] = t[i]
    BY <1>4, <1>5
  <1>8. EndsWith(u, t, n + 1, alone)
    BY <1>6, <1>7 DEF EndsWith
  <1>9. QED
    BY <1>8 DEF u, x

LEMMA AppendKeeps ==
    ASSUME RInv, AppendRecord
    PROVE  RInv'
  <1>1. /\ step = "append" /\ ledger' = Append(ledger, records[appended + 1])
        /\ appended' = appended + 1
        /\ step' = IF appended' = Len(records) THEN "verify" ELSE "append"
        /\ UNCHANGED <<manifest, withLedger, read, records, exit, fresh, builds,
                       derived, target, current, paired, faults>>
    BY DEF AppendRecord, release
  <1>2. /\ records \in Seq(Emitted) /\ ledger \in Seq(Emitted) /\ appended \in Nat
        /\ target \in Seq(Citations) /\ derived \in Seq(Citations)
    BY DEF RInv, RTypes
  <1>3. /\ appended < Len(records) /\ EndsWith(ledger, records, appended, fresh)
        /\ Len(records) \in Nat /\ Len(derived) \in Nat
    BY <1>1, <1>2 DEF RInv, LedgerInv
  <1> DEFINE r == records[appended + 1]
  <1>4. r \in Emitted
    BY <1>2, <1>3
  <1>5. ledger' \in Seq(Emitted)
    BY <1>1, <1>2, <1>4
  <1>6. RTypes'
    <2>1. step' \in {"append", "verify"} /\ appended' \in Nat
      BY <1>1, <1>2
    <2>2. QED
      BY <1>1, <1>5, <2>1 DEF RInv, RTypes
  <1>7. GateInv'
    <2>1. step' \in {"append", "verify"}
      BY <1>1
    <2>2. QED
      BY <1>1, <2>1 DEF RInv, GateInv, Evidencing
  <1>8. LedgerInv'
    <2>1. EndsWith(ledger', records, appended', fresh)
      BY <1>1, <1>2, <1>3, EndsWithMore
    <2>2. appended' <= Len(records) /\ appended' <= Len(records) + Len(derived)
      BY <1>1, <1>2, <1>3
    <2>3. exit # "cleared"
      BY <1>1 DEF RInv, GateInv, Evidencing
    <2>4. CASE appended' = Len(records)
      BY <1>1, <2>1, <2>2, <2>3, <2>4 DEF LedgerInv
    <2>5. CASE appended' # Len(records)
      <3>1. appended' < Len(records)
        BY <1>1, <1>2, <1>3, <2>2, <2>5
      <3>2. QED
        BY <1>1, <2>1, <2>2, <2>3, <2>5, <3>1 DEF LedgerInv
    <2>6. QED
      BY <2>4, <2>5
  <1>9. CrosswalkInv'
    <2>1. CrosswalkInv /\ ~current
      BY <1>1 DEF RInv, CrosswalkInv
    <2>2. ASSUME paired, NEW k \in 1..Len(target), NEW i \in 1..Len(Crosswalk),
                 target[k].control = Crosswalk[i].control, MappedOnce(i)
          PROVE  target[k].at <= Derived(ledger', Crosswalk[i]).at
      <3> DEFINE a == target[k].at
                 b == Derived(ledger, Crosswalk[i]).at
                 d == Derived(ledger', Crosswalk[i]).at
      <3>1. a <= b
        BY <2>1, <2>2 DEF CrosswalkInv, NotNewer
      <3>2. b <= d
        BY <1>1, <1>2, <1>4, EmittedFacts, DerivedLater
      <3>3. a \in Nat
        BY <1>2 DEF Citations
      <3>4. b \in Nat /\ d \in Nat
        BY <1>2, <1>5, EmittedFacts, DerivedAt
      <3> HIDE DEF a, b, d
      <3>5. a <= d
        BY <3>1, <3>2, <3>3, <3>4
      <3>6. QED
        BY <3>5 DEF a, d
    <2>3. paired => NotNewer(ledger', target)
      BY <2>2 DEF NotNewer
    <2>4. QED
      BY <1>1, <2>1, <2>3 DEF CrosswalkInv
  <1>10. QED
    BY <1>6, <1>7, <1>8, <1>9 DEF RInv

LEMMA OneFault == \A n \in 0..MaxFaults : n < MaxFaults => n + 1 \in 0..MaxFaults
  BY ReleaseAssumption

LEMMA FailureKeeps ==
    ASSUME RInv, AppendError \/ VerifyFails
    PROVE  RInv'
  <1>1. /\ step \in {"append", "verify"} /\ step' = "idle" /\ exit' \in {"error", "blocked"}
        /\ faults < MaxFaults /\ faults' = faults + 1
        /\ UNCHANGED <<manifest, withLedger, read, records, appended, derived, ledger,
                       target, current, paired, fresh, builds>>
    BY DEF AppendError, VerifyFails, Fault
  <1>2. RTypes'
    BY <1>1, OneFault DEF RInv, RTypes
  <1>3. GateInv'
    BY <1>1 DEF RInv, GateInv, Evidencing
  <1>4. LedgerInv'
    BY <1>1 DEF RInv, LedgerInv
  <1>5. CrosswalkInv'
    BY <1>1 DEF RInv, CrosswalkInv
  <1>6. QED
    BY <1>2, <1>3, <1>4, <1>5 DEF RInv

LEMMA VerdictKeeps ==
    ASSUME RInv, VerifyPasses \/ Judge
    PROVE  RInv'
  <1>1. /\ step \in {"verify", "judge"}
        /\ UNCHANGED <<manifest, withLedger, read, records, appended, derived, ledger,
                       target, current, paired, fresh, builds, faults>>
        /\ \/ step = "verify" /\ step' = "judge" /\ exit' = exit
           \/ /\ step = "judge" /\ step' = "idle"
              /\ exit' = IF Blocking(records) = {} THEN "cleared" ELSE "blocked"
    BY DEF VerifyPasses, Judge, release
  <1>2. RTypes'
    BY <1>1 DEF RInv, RTypes
  <1>3. GateInv'
    BY <1>1 DEF RInv, GateInv, Evidencing
  <1>4. LedgerInv'
    BY <1>1 DEF RInv, LedgerInv
  <1>5. CrosswalkInv'
    BY <1>1 DEF RInv, CrosswalkInv
  <1>6. QED
    BY <1>2, <1>3, <1>4, <1>5 DEF RInv

LEMMA StartKeeps ==
    ASSUME RInv, StartCrosswalk
    PROVE  RInv'
  <1> DEFINE all == Apply(ledger, Crosswalk)
  <1>1. /\ step = "idle" /\ derived' = all /\ appended' = 0
        /\ step' = IF all = <<>> THEN "idle" ELSE "derive"
        /\ current' = (all = <<>>)
        /\ \/ target' = target /\ paired' = paired
           \/ target' = <<>> /\ paired' = TRUE
        /\ UNCHANGED <<manifest, withLedger, read, records, exit, fresh, builds,
                       ledger, faults>>
    BY DEF StartCrosswalk, release
  <1>2. /\ ledger \in Seq(Emitted) /\ target \in Seq(Citations)
        /\ records \in Seq(Emitted) /\ Len(records) \in Nat
    BY DEF RInv, RTypes
  <1>2a. target' \in Seq(Citations) /\ Len(target') \in Nat /\ paired' \in BOOLEAN
    <2>1. paired \in BOOLEAN /\ <<>> \in Seq(Citations)
      BY DEF RInv, RTypes
    <2>2. target' \in Seq(Citations)
      BY <1>1, <1>2, <2>1
    <2>3. paired' \in BOOLEAN
      BY <1>1, <2>1
    <2>4. QED
      BY <2>2, <2>3
  <1>3. all \in Seq(Citations) /\ Len(all) = Len(Crosswalk) /\ Len(all) \in Nat
    BY <1>2, CitationFacts
  <1>4. all = <<>> <=> Len(all) = 0
    BY <1>3
  <1> HIDE DEF all
  <1>5. RTypes'
    BY <1>1, <1>2a, <1>3 DEF RInv, RTypes
  <1>6. GateInv'
    BY <1>1 DEF RInv, GateInv, Evidencing
  <1>7. LedgerInv'
    <2>1. 0 <= Len(records) + Len(all)
      BY <1>2, <1>3
    <2>2. QED
      BY <1>1, <2>1 DEF RInv, LedgerInv
  <1>8. CrosswalkInv'
    <2>1. EndsWith(target', all, 0, FALSE)
      BY <1>2a DEF EndsWith
    <2>1a. paired' => NotNewer(ledger, target') /\ Rising(target')
      <3>1. CASE target' = target /\ paired' = paired
        BY <3>1 DEF RInv, CrosswalkInv
      <3>2. CASE target' = <<>>
        <4>1. Len(<<>>) = 0
          OBVIOUS
        <4>2. QED
          BY <3>2, <4>1 DEF NotNewer, Rising
      <3>3. QED
        BY <1>1, <3>1, <3>2
    <2>2. CASE all = <<>>
      <3>1. EndsWith(target', all, Len(Crosswalk), FALSE)
        BY <1>3, <1>4, <2>1, <2>2
      <3>2. QED
        BY <1>1, <2>1a, <2>2, <3>1 DEF RInv, CrosswalkInv, all
    <2>3. CASE all # <<>>
      <3>1. 0 < Len(all)
        BY <1>3, <1>4, <2>3
      <3>2. QED
        BY <1>1, <2>1, <2>1a, <2>3, <3>1 DEF RInv, CrosswalkInv, all
    <2>4. QED
      BY <2>2, <2>3
  <1>9. QED
    BY <1>5, <1>6, <1>7, <1>8 DEF RInv

LEMMA DeriveErrorKeeps ==
    ASSUME RInv, DeriveError
    PROVE  RInv'
  <1>1. /\ step = "derive" /\ step' = "idle" /\ faults < MaxFaults /\ faults' = faults + 1
        /\ UNCHANGED <<manifest, withLedger, read, records, exit, fresh, builds,
                       appended, derived, ledger, target, current, paired>>
    BY DEF DeriveError, Fault, release
  <1>2. RTypes'
    BY <1>1, OneFault DEF RInv, RTypes
  <1>3. GateInv'
    BY <1>1 DEF RInv, GateInv, Evidencing
  <1>4. LedgerInv'
    <2>1. appended < Len(derived) /\ appended \in Nat /\ Len(derived) \in Nat
          /\ Len(records) \in Nat
      BY <1>1 DEF RInv, RTypes, CrosswalkInv
    <2>2. appended <= Len(records) + Len(derived)
      BY <2>1
    <2>3. QED
      BY <1>1, <2>2 DEF RInv, LedgerInv
  <1>5. CrosswalkInv'
    BY <1>1 DEF RInv, CrosswalkInv
  <1>6. QED
    BY <1>2, <1>3, <1>4, <1>5 DEF RInv

(***************************************************************************)
(* A derived record is as old as the anchors are now, and so no older than *)
(* what was derived before.                                                *)
(***************************************************************************)
LEMMA DerivedRises ==
    ASSUME NEW recs \in Seq(Emitted), NEW t \in Seq(Citations),
           NotNewer(recs, t), Rising(t), NEW n \in 1..Len(Crosswalk)
    PROVE  LET u == Append(t, Derived(recs, Crosswalk[n]))
           IN  NotNewer(recs, u) /\ Rising(u)
  <1> DEFINE d == Derived(recs, Crosswalk[n])
             u == Append(t, d)
             At(i) == Derived(recs, Crosswalk[i]).at
  <1>1. d \in Citations /\ d.control = Crosswalk[n].control /\ d.at = At(n)
    <2>1. d = Apply(recs, Crosswalk)[n]
      BY CitationFacts
    <2>2. d \in Citations
      BY <2>1, CitationFacts
    <2>3. QED
      BY <2>2 DEF Derived
  <1>2. \A i \in 1..Len(Crosswalk) : At(i) \in Nat
    BY EmittedFacts, DerivedAt
  <1> HIDE DEF d, At
  <1>3. /\ Len(t) \in Nat /\ Len(u) = Len(t) + 1 /\ u[Len(t) + 1] = d
        /\ \A k \in 1..Len(t) : u[k] = t[k] /\ t[k] \in Citations
    BY <1>1
  <1> DEFINE l == Len(t)
  <1>4. l \in Nat /\ \A k \in 1..Len(u) : k = l + 1 \/ k \in 1..l
    BY <1>3
  <1> HIDE DEF u
  <1>5. ASSUME NEW k \in 1..Len(u), NEW i \in 1..Len(Crosswalk),
               u[k].control = Crosswalk[i].control, MappedOnce(i)
        PROVE  u[k].at <= At(i)
    <2>1. CASE k = l + 1
      <3>1. u[k] = d
        BY <1>3, <2>1
      <3>2. n = i
        BY <1>1, <1>5, <3>1 DEF MappedOnce
      <3>3. u[k].at = At(i) /\ At(i) \in Nat
        BY <1>1, <1>2, <3>1, <3>2
      <3>4. QED
        BY <3>3
    <2>2. CASE k \in 1..l
      <3>1. u[k] = t[k]
        BY <1>3, <2>2
      <3>2. QED
        BY <1>5, <2>2, <3>1 DEF NotNewer, At
    <2>3. QED
      BY <1>4, <2>1, <2>2
  <1>6. NotNewer(recs, u)
    BY <1>5 DEF NotNewer, At
  <1>7. ASSUME NEW j \in 1..Len(u), NEW k \in 1..Len(u), j < k, u[j].control = u[k].control,
               Single(u[k].control)
        PROVE  u[j].at <= u[k].at
    <2>1. CASE k = l + 1
      <3>1. u[k] = d /\ j \in 1..l /\ u[j] = t[j]
        BY <1>3, <1>4, <1>7, <2>1
      <3>2. PICK i \in 1..Len(Crosswalk) :
                Crosswalk[i].control = u[k].control /\ MappedOnce(i)
        BY <1>7 DEF Single
      <3>3. i = n
        BY <1>1, <3>1, <3>2 DEF MappedOnce
      <3>4. t[j].at <= At(n)
        BY <1>7, <3>1, <3>2, <3>3 DEF NotNewer, At
      <3>5. QED
        BY <1>1, <3>1, <3>4
    <2>2. CASE k \in 1..l
      <3>1. j \in 1..l
        BY <1>4, <1>7, <2>2
      <3>2. u[k] = t[k] /\ u[j] = t[j]
        BY <1>3, <2>2, <3>1
      <3>3. QED
        BY <1>7, <2>2, <3>1, <3>2 DEF Rising
    <2>3. QED
      BY <1>4, <2>1, <2>2
  <1>8. Rising(u)
    BY <1>7 DEF Rising
  <1>9. QED
    BY <1>6, <1>8 DEF u, d

LEMMA DeriveKeeps ==
    ASSUME RInv, AppendDerived
    PROVE  RInv'
  <1>1. /\ step = "derive" /\ target' = Append(target, derived[appended + 1])
        /\ appended' = appended + 1
        /\ step' = IF appended' = Len(derived) THEN "idle" ELSE "derive"
        /\ current' = (appended' = Len(derived))
        /\ UNCHANGED <<manifest, withLedger, read, records, exit, fresh, builds,
                       derived, ledger, paired, faults>>
    BY DEF AppendDerived, release
  <1>2. /\ ledger \in Seq(Emitted) /\ target \in Seq(Citations) /\ derived \in Seq(Citations)
        /\ appended \in Nat /\ Len(derived) \in Nat /\ Len(records) \in Nat
    BY DEF RInv, RTypes
  <1>3. /\ appended < Len(derived) /\ derived = Apply(ledger, Crosswalk)
        /\ EndsWith(target, derived, appended, FALSE)
        /\ paired => NotNewer(ledger, target) /\ Rising(target)
    BY <1>1 DEF RInv, CrosswalkInv
  <1> DEFINE n == appended + 1
  <1>4. /\ n \in 1..Len(Crosswalk) /\ Len(derived) = Len(Crosswalk)
        /\ derived[n] = Derived(ledger, Crosswalk[n]) /\ derived[n] \in Citations
    <2>1. Len(derived) = Len(Crosswalk)
      BY <1>2, <1>3, CitationFacts
    <2>2. n \in 1..Len(Crosswalk) /\ n \in 1..Len(derived)
      BY <1>2, <1>3, <2>1
    <2>3. derived[n] = Derived(ledger, Crosswalk[n])
      BY <1>2, <1>3, <2>2, CitationFacts
    <2>4. QED
      BY <1>2, <2>1, <2>2, <2>3
  <1>5. target' \in Seq(Citations)
    BY <1>1, <1>2, <1>4
  <1>6. paired' => NotNewer(ledger, target') /\ Rising(target')
    BY <1>1, <1>2, <1>3, <1>4, DerivedRises
  <1>7. EndsWith(target', derived, n, FALSE)
    BY <1>1, <1>2, <1>3, EndsWithMore
  <1>8. RTypes'
    <2>1. step' \in {"idle", "derive"} /\ appended' \in Nat /\ current' \in BOOLEAN
      BY <1>1, <1>2
    <2>2. QED
      BY <1>1, <1>5, <2>1 DEF RInv, RTypes
  <1>9. GateInv'
    BY <1>1 DEF RInv, GateInv, Evidencing
  <1>10. LedgerInv'
    <2>1. appended' <= Len(records) + Len(derived)
      BY <1>1, <1>2, <1>3
    <2>2. QED
      BY <1>1, <2>1 DEF RInv, LedgerInv
  <1>11. CrosswalkInv'
    <2>1. CASE n = Len(derived)
      <3>1. EndsWith(target', Apply(ledger, Crosswalk), Len(Crosswalk), FALSE)
        BY <1>3, <1>4, <1>7, <2>1
      <3>2. QED
        BY <1>1, <1>6, <2>1, <3>1 DEF CrosswalkInv
    <2>2. CASE n # Len(derived)
      <3>1. n < Len(derived)
        BY <1>2, <1>3, <2>2
      <3>2. QED
        BY <1>1, <1>3, <1>6, <1>7, <2>2, <3>1 DEF CrosswalkInv
    <2>3. QED
      BY <2>1, <2>2
  <1>12. QED
    BY <1>8, <1>9, <1>10, <1>11 DEF RInv

(***************************************************************************)
(* RInv is an invariant.                                                   *)
(***************************************************************************)
THEOREM RInvHolds == Spec => []RInv
  <1>1. RInv /\ [Next]_vars => RInv'
    <2> SUFFICES ASSUME RInv, [Next]_vars PROVE RInv'
      OBVIOUS
    <2>1. CASE Begin
      BY <2>1, BeginKeeps
    <2>2. CASE ReadSource
      BY <2>2, ReadKeeps
    <2>3. CASE AppendRecord
      BY <2>3, AppendKeeps
    <2>4. CASE AppendError \/ VerifyFails
      BY <2>4, FailureKeeps
    <2>5. CASE VerifyPasses \/ Judge
      BY <2>5, VerdictKeeps
    <2>6. CASE StartCrosswalk
      BY <2>6, StartKeeps
    <2>7. CASE AppendDerived
      BY <2>7, DeriveKeeps
    <2>8. CASE DeriveError
      BY <2>8, DeriveErrorKeeps
    <2>9. CASE UNCHANGED vars
      BY <2>9 DEF vars, RInv, RTypes, GateInv, Evidencing, LedgerInv, CrosswalkInv
    <2>10. QED
      BY <2>1, <2>2, <2>3, <2>4, <2>5, <2>6, <2>7, <2>8, <2>9 DEF Next
  <1>2. QED
    BY <1>1, Initially, PTL DEF Spec

----------------------------------------------------------------------------
(* The theorems                                                            *)

LEMMA TypesFollow == RInv => ReleaseTypeOK
  <1> SUFFICES ASSUME RInv PROVE ReleaseTypeOK
    OBVIOUS
  <1>1. RTypes
    BY DEF RInv
  <1>2. {withLedger, current, paired, fresh} \subseteq BOOLEAN
    BY <1>1 DEF RTypes
  <1>3. step \in {"append", "verify", "judge"} => records # <<>>
    BY DEF RInv, GateInv
  <1>4. ASSUME NEW r \in ToSet(records) \cup ToSet(derived) \cup ToSet(ledger) \cup ToSet(target)
        PROVE  IsRecord(r)
    <2>1. /\ ToSet(records) \subseteq Emitted /\ ToSet(ledger) \subseteq Emitted
          /\ ToSet(derived) \subseteq Citations /\ ToSet(target) \subseteq Citations
      BY <1>1, InSet DEF RTypes
    <2>2. CASE r \in Emitted
      BY <2>2, EmittedFacts DEF IsRecordOf, IsRecord
    <2>3. CASE r \in Citations
      BY <2>3 DEF Citations, IsRecord
    <2>4. QED
      BY <1>4, <2>1, <2>2, <2>3
  <1>5. appended \in 0..Len(IF step = "derive" THEN derived ELSE records \o derived)
    <2>1. /\ records \in Seq(Emitted) /\ derived \in Seq(Citations) /\ appended \in Nat
          /\ Len(derived) \in Nat /\ Len(records) \in Nat
      BY <1>1 DEF RTypes
    <2>2. CASE step = "derive"
      <3>1. appended < Len(derived)
        BY <2>2 DEF RInv, CrosswalkInv
      <3>2. QED
        BY <2>1, <2>2, <3>1
    <2>3. CASE step # "derive"
      <3>1. appended <= Len(records) + Len(derived)
        BY <2>3 DEF RInv, LedgerInv
      <3>2. Len(records \o derived) = Len(records) + Len(derived)
        <4> DEFINE S == Emitted \cup Citations
        <4>1. records \in Seq(S) /\ derived \in Seq(S)
          BY <2>1
        <4> HIDE DEF S
        <4>2. QED
          BY <4>1
      <3>3. QED
        BY <2>1, <2>3, <3>1, <3>2
    <2>4. QED
      BY <2>2, <2>3
  <1>6. QED
    BY <1>1, <1>2, <1>3, <1>4, <1>5 DEF RTypes, ReleaseTypeOK

(***************************************************************************)
(* Every variable keeps its type (the fields of a running release, the     *)
(* records of both ledgers, the bounds), whatever is released.             *)
(***************************************************************************)
THEOREM TypesHold == Spec => []ReleaseTypeOK
  BY RInvHolds, TypesFollow, PTL

(***************************************************************************)
(* A spotless list of records backs its artifact.                          *)
(***************************************************************************)
LEMMA NothingBlocks ==
    ASSUME NEW source, NEW a, <<source, a>> \in Given, NEW recs, Blocking(recs) = {},
           Produce(source, a) # <<>>, ToSet(Produce(source, a)) \subseteq ToSet(recs)
    PROVE  Shippable(source, a) /\ \E r \in ToSet(recs) : r.control = source.control
  <1> DEFINE p == Produce(source, a)
  <1>1. Yields(p, source.control) /\ (Spotless(p) => Shippable(source, a))
    BY GivenFacts
  <1> HIDE DEF p
  <1>2. /\ p \in Seq(ToSet(p)) /\ ToSet(p) = {p[i] : i \in 1..Len(p)}
        /\ \A r \in ToSet(p) : r.control = source.control
    BY <1>1, YieldsList
  <1>3. ToSet(p) \subseteq ToSet(recs) /\ p # <<>>
    BY DEF p
  <1>4. \A r \in ToSet(p) : r.result = "satisfied"
    BY <1>3 DEF Blocking
  <1>5. Spotless(p)
    BY <1>2, <1>3, <1>4 DEF Spotless
  <1>6. p[1] \in ToSet(p)
    <2>1. 1 \in 1..Len(p)
      BY <1>2, <1>3
    <2>2. QED
      BY <1>2, <2>1
  <1>7. QED
    BY <1>1, <1>2, <1>3, <1>5, <1>6

LEMMA ClearedFollows == RInv => ClearedSound
  <1> SUFFICES ASSUME RInv, exit = "cleared"
               PROVE  /\ manifest # <<>> /\ Len(read) = Len(manifest)
                      /\ \A i \in 1..Len(read) : Shippable(manifest[i], read[i])
    BY DEF ClearedSound
  <1>1. /\ manifest # <<>> /\ Len(read) = Len(manifest) /\ Blocking(records) = {}
        /\ Backed(records, manifest, read)
    BY DEF RInv, GateInv
  <1>2. ASSUME NEW i \in 1..Len(read) PROVE Shippable(manifest[i], read[i])
    BY <1>1, NothingBlocks DEF Backed
  <1>3. QED
    BY <1>1, <1>2

(***************************************************************************)
(* A release is cleared only if every source of its manifest was read and  *)
(* gave good evidence (Judge against ReadSource, release.go).              *)
(***************************************************************************)
THEOREM ClearedHolds == Spec => []ClearedSound
  BY RInvHolds, ClearedFollows, PTL

(***************************************************************************)
(* What EndsWith says of whole sequences.                                  *)
(***************************************************************************)
LEMMA SuffixOf ==
    ASSUME NEW S, NEW s \in Seq(S), NEW t \in Seq(S), NEW alone, EndsWith(s, t, Len(t), alone)
    PROVE  /\ IsSuffix(t, s) /\ ToSet(t) \subseteq ToSet(s)
           /\ alone => s = t
  <1> DEFINE l == Len(s)
             n == Len(t)
             rs == Reverse(s)
             rt == Reverse(t)
  <1>1. l \in Nat /\ n \in Nat /\ n <= l /\ \A i \in 1..n : s[l - n + i] = t[i]
    BY DEF EndsWith
  <1>2. rs \in Seq(S) /\ Len(rs) = l /\ \A i \in 1..l : rs[i] = s[l - i + 1]
    <2>1. rs = [i \in 1..l |-> s[l - i + 1]]
      BY DEF Reverse
    <2>2. \A i \in 1..l : s[l - i + 1] \in S
      OBVIOUS
    <2>3. rs \in [1..l -> S]
      BY <2>1, <2>2
    <2>4. QED
      BY <1>1, <2>1, <2>3
  <1>3. rt \in Seq(S) /\ Len(rt) = n /\ \A i \in 1..n : rt[i] = t[n - i + 1]
    <2>1. rt = [i \in 1..n |-> t[n - i + 1]]
      BY DEF Reverse
    <2>2. \A i \in 1..n : t[n - i + 1] \in S
      OBVIOUS
    <2>3. rt \in [1..n -> S]
      BY <2>1, <2>2
    <2>4. QED
      BY <1>1, <2>1, <2>3
  <1> HIDE DEF l, n, rs, rt
  <1>4. \A i \in 1..n : rt[i] = rs[i]
    <2> SUFFICES ASSUME NEW i \in 1..n PROVE rt[i] = rs[i]
      OBVIOUS
    <2>1. n - i + 1 \in 1..n /\ i \in 1..l /\ l - n + (n - i + 1) = l - i + 1
      BY <1>1
    <2>2. s[l - n + (n - i + 1)] = t[n - i + 1]
      BY <1>1, <2>1
    <2>3. QED
      BY <1>2, <1>3, <2>1, <2>2
  <1>5. SubSeq(rt, 1, n) = SubSeq(rs, 1, n)
    <2>1. SubSeq(rt, 1, n) = [i \in 1..n |-> rt[i]] /\ SubSeq(rs, 1, n) = [i \in 1..n |-> rs[i]]
      BY <1>1, <1>2, <1>3
    <2>2. QED
      BY <1>4, <2>1
  <1>6. IsSuffix(t, s)
    <2>1. IsPrefix(rt, rs)
      BY <1>1, <1>2, <1>3, <1>5 DEF IsPrefix
    <2>2. QED
      BY <2>1 DEF IsSuffix, rs, rt
  <1>7. ToSet(t) \subseteq ToSet(s)
    <2> SUFFICES ASSUME NEW x \in ToSet(t) PROVE x \in ToSet(s)
      OBVIOUS
    <2>1. PICK i \in 1..n : x = t[i]
      BY InSet DEF n
    <2>2. x = s[l - n + i] /\ l - n + i \in 1..l
      BY <1>1, <2>1
    <2>3. QED
      BY <2>2, InSet DEF l
  <1>8. ASSUME alone PROVE s = t
    <2>1. l = n
      BY <1>8 DEF EndsWith, l, n
    <2>2. \A i \in 1..n : s[i] = t[i]
      BY <1>1, <2>1
    <2>3. QED
      BY <2>1, <2>2 DEF l, n
  <1>9. QED
    BY <1>6, <1>7, <1>8

(***************************************************************************)
(* Where nothing blocks there is no gap.                                   *)
(***************************************************************************)
LEMMA NoGap ==
    ASSUME NEW recs \in Seq(Emitted), Blocking(recs) = {}
    PROVE  NotSatisfied(recs) = {}
  <1>1. ASSUME NEW c, NEW s \in SubjectsOf(recs, c)
        PROVE  SubjectStatus(recs, c, s) = "satisfied"
    <2>1. PICK r \in ToSet(recs) : r.control = c /\ r.subject = s
      BY DEF SubjectsOf
    <2>2. PICK k \in 1..Len(recs) : r = recs[k]
      BY InSet
    <2>3. k \in About(recs, c, s)
      BY <2>1, <2>2 DEF About, Speaks
    <2>4. \A i \in About(recs, c, s) : recs[i].result = "satisfied"
      BY InSet DEF About, Blocking
    <2>5. QED
      BY <2>3, <2>4, AllSatisfied, EmittedFacts
  <1>2. \A c : ControlSatisfied(recs, c)
    BY <1>1 DEF ControlSatisfied
  <1>3. QED
    BY <1>2 DEF NotSatisfied

LEMMA RecordedFollows == RInv => ClearedRecorded
  <1> SUFFICES ASSUME RInv, exit = "cleared", withLedger
               PROVE  /\ IsSuffix(records, ledger)
                      /\ \A i \in 1..Len(manifest) : manifest[i].control \in Controls(ledger)
                      /\ fresh => NotSatisfied(ledger) = {}
    BY DEF ClearedRecorded
  <1>1. records \in Seq(Emitted) /\ ledger \in Seq(Emitted)
    BY DEF RInv, RTypes
  <1>2. EndsWith(ledger, records, Len(records), fresh)
    BY DEF RInv, LedgerInv
  <1>3. /\ Len(read) = Len(manifest) /\ Blocking(records) = {}
        /\ Backed(records, manifest, read)
    BY DEF RInv, GateInv
  <1>4. /\ IsSuffix(records, ledger) /\ ToSet(records) \subseteq ToSet(ledger)
        /\ fresh => ledger = records
    BY <1>1, <1>2, SuffixOf
  <1>5. ASSUME NEW i \in 1..Len(manifest) PROVE manifest[i].control \in Controls(ledger)
    <2>1. /\ <<manifest[i], read[i]>> \in Given /\ Produce(manifest[i], read[i]) # <<>>
          /\ ToSet(Produce(manifest[i], read[i])) \subseteq ToSet(records)
      BY <1>3 DEF Backed
    <2>2. PICK r \in ToSet(records) : r.control = manifest[i].control
      BY <1>3, <2>1, NothingBlocks
    <2>3. QED
      BY <1>4, <2>2 DEF Controls
  <1>6. fresh => NotSatisfied(ledger) = {}
    BY <1>1, <1>3, <1>4, NoGap
  <1>7. QED
    BY <1>4, <1>5, <1>6

(***************************************************************************)
(* A cleared release's ledger ends with its records and has evidence for   *)
(* every control of the manifest, and a fresh one has no gap.              *)
(***************************************************************************)
THEOREM RecordedHolds == Spec => []ClearedRecorded
  BY RInvHolds, RecordedFollows, PTL

(***************************************************************************)
(* The last record of a citation decides: the records before it are no     *)
(* younger.                                                                *)
(***************************************************************************)
LEMMA LastDerived ==
    ASSUME NEW t \in Seq(Citations), Rising(t), NEW i \in 1..Len(Crosswalk), MappedOnce(i),
           NEW recs \in Seq(Emitted), EndsWith(t, Apply(recs, Crosswalk), Len(Crosswalk), FALSE)
    PROVE  LET m == Crosswalk[i]
           IN  ControlSatisfied(t, m.control) <=> Derived(recs, m).result = "satisfied"
  <1> DEFINE m == Crosswalk[i]
             c == m.control
             s == <<"crosswalk", c>>
             n == Len(Crosswalk)
             k == Len(t) - n + i
             all == Apply(recs, Crosswalk)
  <1>1. /\ all \in Seq(Citations) /\ Len(all) = n /\ n \in Nat
        /\ \A j \in 1..n : all[j] = Derived(recs, Crosswalk[j])
    BY CitationFacts
  <1>2. n <= Len(t) /\ \A j \in 1..n : t[Len(t) - n + j] = all[j]
    BY DEF EndsWith
  <1>3. Len(t) \in Nat /\ i \in 1..n /\ \A j \in 1..Len(t) : t[j] \in Citations
    OBVIOUS
  <1> HIDE DEF n, all
  <1>4. k \in 1..Len(t) /\ t[k] = all[i]
    BY <1>1, <1>2, <1>3
  <1>5. t[k].control = c /\ t[k].result = Derived(recs, m).result
    <2>1. Derived(recs, m).control = c
      BY DEF Derived
    <2>2. t[k] = Derived(recs, m)
      BY <1>1, <1>3, <1>4
    <2>3. QED
      BY <2>1, <2>2
  <1>6. \A j \in 1..Len(t) : t[j].subject = <<"crosswalk", t[j].control>>
    BY <1>3 DEF Citations
  <1> HIDE DEF k
  <1>7. SubjectsOf(t, c) = {s}
    <2>1. ToSet(t) = {t[j] : j \in 1..Len(t)}
      BY InSet
    <2>2. s \in SubjectsOf(t, c)
      BY <1>4, <1>5, <1>6, <2>1 DEF SubjectsOf
    <2>3. \A x \in SubjectsOf(t, c) : x = s
      BY <1>6, <2>1 DEF SubjectsOf
    <2>4. QED
      BY <2>2, <2>3
  <1>8. \A j \in About(t, c, s) : j \in 1..Len(t) /\ t[j].control = c
    BY DEF About, Speaks
  <1>9. k \in About(t, c, s)
    BY <1>4, <1>5, <1>6 DEF About, Speaks
  <1>10. ASSUME NEW j \in About(t, c, s) PROVE j <= k
    <2> DEFINE l == Len(t)
               g == j - l + n
    <2>1. j \in 1..l /\ l \in Nat /\ n \in Nat /\ k \in 1..l /\ k = l - n + i /\ i \in 1..n
      BY <1>1, <1>3, <1>4, <1>8 DEF k
    <2>2. t[j].control = c
      BY <1>8
    <2> HIDE DEF l
    <2>3. SUFFICES ASSUME j > k PROVE FALSE
      BY <2>1
    <2>4. g \in 1..n /\ g # i /\ l - n + g = j
      BY <2>1, <2>3
    <2> HIDE DEF g
    <2>5. t[j] = Derived(recs, Crosswalk[g])
      BY <1>1, <1>2, <2>4 DEF l
    <2>6. Derived(recs, Crosswalk[g]).control = Crosswalk[g].control
      BY DEF Derived
    <2>7. QED
      BY <2>2, <2>4, <2>5, <2>6 DEF MappedOnce, n
  <1>11. InTurn(t, c, s)
    <2>1. Single(c)
      BY DEF Single
    <2>2. \A a, b \in About(t, c, s) : a < b => t[a].at <= t[b].at
      BY <1>8, <2>1 DEF Rising
    <2>3. QED
      BY <2>2 DEF InTurn, Orderly
  <1>12. SubjectStatus(t, c, s) = t[k].result
    <2>1. IsRecordOf(Citations)
      BY DEF IsRecordOf, Citations
    <2>2. QED
      BY <1>9, <1>10, <1>11, <2>1, LatestWins
  <1>13. QED
    BY <1>5, <1>7, <1>12 DEF ControlSatisfied

LEMMA CurrentFollows == RInv => CitationCurrent
  <1> SUFFICES ASSUME RInv, current, paired, NEW i \in 1..Len(Crosswalk), MappedOnce(i)
               PROVE  LET m == Crosswalk[i]
                      IN  ControlSatisfied(target, m.control) <=>
                              /\ m.satisfiedBy # {}
                              /\ \A c \in m.satisfiedBy :
                                    c \in Controls(ledger) \ NotSatisfied(ledger)
    BY DEF CitationCurrent
  <1> DEFINE m == Crosswalk[i]
  <1>1. ledger \in Seq(Emitted) /\ target \in Seq(Citations)
    BY DEF RInv, RTypes
  <1>2. Rising(target) /\ EndsWith(target, Apply(ledger, Crosswalk), Len(Crosswalk), FALSE)
    BY DEF RInv, CrosswalkInv
  <1>3. ControlSatisfied(target, m.control) <=> Derived(ledger, m).result = "satisfied"
    BY <1>1, <1>2, LastDerived
  <1>4. Derived(ledger, m).result = "satisfied" <=>
            Evidenced(ledger, m) /\ \A c \in m.satisfiedBy : ControlSatisfied(ledger, c)
    BY DEF Derived
  <1>5. \A c : c \in Controls(ledger) \ NotSatisfied(ledger) <=>
                  c \in Controls(ledger) /\ ControlSatisfied(ledger, c)
    BY DEF Controls, NotSatisfied
  <1>6. QED
    BY <1>3, <1>4, <1>5 DEF Evidenced

(***************************************************************************)
(* After a crosswalk a citation with one mapping is satisfied in the       *)
(* derived ledger exactly if it has anchors and each has evidence and no   *)
(* gap, whatever of the same source was derived into it before.            *)
(***************************************************************************)
THEOREM CurrentHolds == Spec => []CitationCurrent
  BY RInvHolds, CurrentFollows, PTL

----------------------------------------------------------------------------
(* The dashboard                                                           *)

(***************************************************************************)
(* The chronological order is strict and total, so that every place in it  *)
(* has exactly one record.                                                 *)
(***************************************************************************)
Timed(recs) == Len(recs) \in Nat /\ \A i \in 1..Len(recs) : recs[i].at \in Nat
PlaceOf(recs, n) == CHOOSE i \in 1..Len(recs) : Position(recs, i) = n

LEMMA Before ==
    ASSUME NEW recs, Timed(recs)
    PROVE  /\ \A i \in 1..Len(recs) : ~Earlier(recs, i, i)
           /\ \A i, j \in 1..Len(recs) : i # j => Earlier(recs, i, j) \/ Earlier(recs, j, i)
           /\ \A i, j, k \in 1..Len(recs) :
                 Earlier(recs, i, j) /\ Earlier(recs, j, k) => Earlier(recs, i, k)
  BY DEF Timed, Earlier

LEMMA PositionRises ==
    ASSUME NEW recs, Timed(recs), NEW i \in 1..Len(recs), NEW j \in 1..Len(recs),
           Earlier(recs, i, j)
    PROVE  Position(recs, i) < Position(recs, j)
  <1> DEFINE D == 1..Len(recs)
             A == {k \in D : Earlier(recs, k, i)}
             B == {k \in D : Earlier(recs, k, j)}
  <1>1. A \cup {i} \subseteq B /\ i \notin A
    BY Before
  <1>2. IsFiniteSet(A) /\ IsFiniteSet(B)
    <2>1. IsFiniteSet(D)
      BY FS_Interval DEF Timed
    <2>2. A \subseteq D /\ B \subseteq D
      OBVIOUS
    <2> HIDE DEF A, B, D
    <2>3. QED
      BY <2>1, <2>2, FS_Subset
  <1>3. Position(recs, i) = 1 + Cardinality(A) /\ Position(recs, j) = 1 + Cardinality(B)
    BY DEF Position
  <1> HIDE DEF A, B
  <1>4. Cardinality(A \cup {i}) = Cardinality(A) + 1 /\ Cardinality(A \cup {i}) <= Cardinality(B)
    BY <1>1, <1>2, FS_AddElement, FS_Subset
  <1>5. Cardinality(A) \in Nat /\ Cardinality(B) \in Nat
    BY <1>2, FS_CardinalityType
  <1>6. QED
    BY <1>3, <1>4, <1>5

LEMMA PositionRange ==
    ASSUME NEW recs, Timed(recs), NEW i \in 1..Len(recs)
    PROVE  Position(recs, i) \in 1..Len(recs)
  <1> DEFINE D == 1..Len(recs)
             A == {k \in D : Earlier(recs, k, i)}
  <1>1. A \cup {i} \subseteq D /\ i \notin A /\ A \subseteq D
    BY Before
  <1>2. IsFiniteSet(D) /\ Cardinality(D) = Len(recs) /\ Len(recs) \in Nat
    BY FS_Interval DEF Timed
  <1>3. Position(recs, i) = 1 + Cardinality(A)
    BY DEF Position
  <1> HIDE DEF A, D
  <1>4. IsFiniteSet(A)
    BY <1>1, <1>2, FS_Subset
  <1>5. Cardinality(A \cup {i}) = Cardinality(A) + 1 /\ Cardinality(A \cup {i}) <= Cardinality(D)
    BY <1>1, <1>2, <1>4, FS_AddElement, FS_Subset
  <1>6. Cardinality(A) \in Nat
    BY <1>4, FS_CardinalityType
  <1>7. QED
    BY <1>2, <1>3, <1>5, <1>6

LEMMA PositionOnce ==
    ASSUME NEW recs, Timed(recs), NEW i \in 1..Len(recs), NEW j \in 1..Len(recs),
           Position(recs, i) = Position(recs, j)
    PROVE  i = j
  <1>1. Position(recs, i) \in Nat /\ Position(recs, j) \in Nat
    BY PositionRange
  <1>2. ~Earlier(recs, i, j) /\ ~Earlier(recs, j, i)
    <2>1. Earlier(recs, i, j) => Position(recs, i) < Position(recs, j)
      BY PositionRises
    <2>2. Earlier(recs, j, i) => Position(recs, j) < Position(recs, i)
      BY PositionRises
    <2>3. QED
      BY <1>1, <2>1, <2>2
  <1>3. QED
    BY <1>2, Before

LEMMA EveryPosition ==
    ASSUME NEW recs, Timed(recs), NEW n \in 1..Len(recs)
    PROVE  \E i \in 1..Len(recs) : Position(recs, i) = n
  <1> DEFINE D == 1..Len(recs)
             place == [i \in D |-> Position(recs, i)]
  <1>1. IsFiniteSet(D)
    BY FS_Interval DEF Timed
  <1>2. place \in [D -> D]
    BY PositionRange
  <1>3. \A i, j \in D : place[i] = place[j] => i = j
    BY PositionOnce
  <1>4. place \in Surjection(D, D)
    <2> HIDE DEF place, D
    <2>1. place \in Injection(D, D)
      BY <1>2, <1>3 DEF Injection, IsInjective
    <2>2. QED
      BY <1>1, <2>1, FS_Injection
  <1>5. \A m \in D : \E i \in D : place[i] = m
    <2> HIDE DEF place, D
    <2>1. QED
      BY <1>4 DEF Surjection
  <1>6. QED
    BY <1>5

LEMMA PlaceIn ==
    ASSUME NEW recs, Timed(recs), NEW n \in 1..Len(recs)
    PROVE  /\ PlaceOf(recs, n) \in 1..Len(recs) /\ Position(recs, PlaceOf(recs, n)) = n
           /\ Chronological(recs)[n] = recs[PlaceOf(recs, n)]
  BY EveryPosition DEF PlaceOf, Chronological

LEMMA PositionIn ==
    ASSUME NEW recs, Timed(recs), NEW i \in 1..Len(recs)
    PROVE  /\ Position(recs, i) \in 1..Len(recs)
           /\ Chronological(recs)[Position(recs, i)] = recs[i]
  <1>1. PICK n \in 1..Len(recs) : n = Position(recs, i)
    BY PositionRange
  <1>2. /\ PlaceOf(recs, n) \in 1..Len(recs) /\ Position(recs, PlaceOf(recs, n)) = n
        /\ Chronological(recs)[n] = recs[PlaceOf(recs, n)]
    BY PlaceIn
  <1>3. PlaceOf(recs, n) = i
    BY <1>1, <1>2, PositionOnce
  <1>4. QED
    BY <1>1, <1>2, <1>3

(***************************************************************************)
(* What is known as the records are replayed: the latest result per        *)
(* control, and points that never claim more than there is.                *)
(***************************************************************************)
Point == [at : Nat, total : Nat, satisfied : Nat]
Latests(C) == UNION {[D -> Results] : D \in SUBSET C}
History(C) == [latest : Latests(C), points : Seq(Point)]
Good(latest) == {c \in DOMAIN latest : latest[c] = "satisfied"}
PointOf(at, latest) ==
    [at |-> at, total |-> Cardinality(DOMAIN latest), satisfied |-> Cardinality(Good(latest))]

LEMMA Count ==
    ASSUME NEW C, IsFiniteSet(C), NEW latest \in Latests(C), NEW at \in Nat
    PROVE  /\ PointOf(at, latest) \in Point /\ DOMAIN latest \subseteq C
           /\ IsFiniteSet(DOMAIN latest) /\ Good(latest) \subseteq DOMAIN latest
           /\ PointOf(at, latest).satisfied <= PointOf(at, latest).total
           /\ PointOf(at, latest).total <= Cardinality(C)
  <1>1. DOMAIN latest \subseteq C /\ Good(latest) \subseteq DOMAIN latest
    BY DEF Latests, Good
  <1>2. /\ IsFiniteSet(DOMAIN latest) /\ IsFiniteSet(Good(latest))
        /\ Cardinality(DOMAIN latest) <= Cardinality(C)
        /\ Cardinality(Good(latest)) <= Cardinality(DOMAIN latest)
    <2>1. IsFiniteSet(DOMAIN latest) /\ Cardinality(DOMAIN latest) <= Cardinality(C)
      BY <1>1, FS_Subset
    <2>2. QED
      BY <1>1, <2>1, FS_Subset
  <1>3. Cardinality(DOMAIN latest) \in Nat /\ Cardinality(Good(latest)) \in Nat
    BY <1>2, FS_CardinalityType
  <1>4. QED
    BY <1>1, <1>2, <1>3 DEF PointOf, Point

Replays(x, r, y) ==
    /\ DOMAIN y.latest = DOMAIN x.latest \cup {r.control}
    /\ \A c \in DOMAIN y.latest :
          y.latest[c] = IF c = r.control THEN r.result ELSE x.latest[c]
    /\ Len(y.points) > 0 /\ y.points[Len(y.points)] = PointOf(r.at, y.latest)
    /\ \A i \in 1..Len(y.points) :
          i # Len(y.points) => i \in 1..Len(x.points) /\ y.points[i] = x.points[i]

LEMMA ReplayForm ==
    ASSUME NEW C, IsFiniteSet(C), NEW x \in History(C),
           NEW r, r.control \in C, r.result \in Results, r.at \in Nat
    PROVE  Replay(x, r) \in History(C) /\ Replays(x, r, Replay(x, r))
  <1> DEFINE latest == [c \in DOMAIN x.latest \cup {r.control} |->
                            IF c = r.control THEN r.result ELSE x.latest[c]]
             before == IF x.points # <<>> /\ Last(x.points).at = r.at
                       THEN Front(x.points) ELSE x.points
             point == PointOf(r.at, latest)
  <1>1. x.latest \in Latests(C) /\ x.points \in Seq(Point)
    BY DEF History
  <1>2. latest \in Latests(C)
    <2>1. PICK D \in SUBSET C : x.latest \in [D -> Results]
      BY <1>1 DEF Latests
    <2>2. latest \in [D \cup {r.control} -> Results]
      BY <2>1
    <2>3. QED
      BY <2>2 DEF Latests
  <1>3. Replay(x, r) = [latest |-> latest, points |-> Append(before, point)]
    BY DEF Replay, PointOf, Good
  <1>4. before \in Seq(Point) /\ Len(before) <= Len(x.points)
        /\ \A i \in 1..Len(before) : before[i] = x.points[i]
    BY <1>1 DEF Front
  <1>5. /\ DOMAIN latest = DOMAIN x.latest \cup {r.control}
        /\ \A c \in DOMAIN latest : latest[c] = IF c = r.control THEN r.result ELSE x.latest[c]
    OBVIOUS
  <1> HIDE DEF latest, before
  <1>6. point \in Point
    BY <1>2, Count
  <1> HIDE DEF point
  <1> DEFINE y == [latest |-> latest, points |-> Append(before, point)]
  <1>7. y \in History(C)
    BY <1>2, <1>4, <1>6 DEF History
  <1>8. Len(y.points) = Len(before) + 1 /\ Len(before) \in Nat /\ y.points[Len(before) + 1] = point
        /\ \A i \in 1..Len(before) : y.points[i] = before[i]
    BY <1>4, <1>6
  <1>9. \A i \in 1..Len(y.points) :
           i # Len(y.points) => i \in 1..Len(x.points) /\ y.points[i] = x.points[i]
    BY <1>1, <1>4, <1>8
  <1>10. Replays(x, r, y)
    BY <1>5, <1>8, <1>9 DEF Replays, point
  <1>11. QED
    BY <1>3, <1>7, <1>10

(***************************************************************************)
(* The history that TrendOf replays.                                       *)
(***************************************************************************)
TrendStep(f, recs, n) ==
    IF n = 0 THEN NoHistory ELSE Replay(f[n - 1], Chronological(recs)[n])
IsTrend(f, recs) == f = [n \in 0..Len(recs) |-> TrendStep(f, recs, n)]

LEMMA Ledgered ==
    ASSUME NEW S, IsRecordOf(S), NEW recs \in Seq(S)
    PROVE  /\ Timed(recs) /\ IsFiniteSet(Controls(recs))
           /\ \A n \in 1..Len(recs) :
                 LET r == Chronological(recs)[n]
                 IN  /\ r \in S /\ r.control \in Controls(recs)
                     /\ r.result \in Results /\ r.at \in Nat
           /\ \A i \in 1..Len(recs) : recs[i].control \in Controls(recs) /\ recs[i] \in S
  <1>1. Len(recs) \in Nat /\ \A i \in 1..Len(recs) : recs[i] \in S
    OBVIOUS
  <1>2. \A r \in S : r.result \in Results /\ r.at \in Nat
    BY DEF IsRecordOf
  <1>3. Timed(recs)
    BY <1>1, <1>2 DEF Timed
  <1> DEFINE D == 1..Len(recs)
             control == [i \in D |-> recs[i].control]
  <1>4. ToSet(recs) = {recs[i] : i \in 1..Len(recs)}
    BY <1>1 DEF ToSet
  <1>5. control \in Surjection(D, Controls(recs))
    BY <1>4 DEF Surjection, Controls
  <1>6. IsFiniteSet(D)
    BY <1>1, FS_Interval
  <1>7. IsFiniteSet(Controls(recs))
    <2> HIDE DEF control, D
    <2>1. QED
      BY <1>5, <1>6, FS_Surjection
  <1>8. \A i \in 1..Len(recs) : recs[i].control \in Controls(recs)
    BY <1>4 DEF Controls
  <1>9. \A n \in 1..Len(recs) : \E i \in 1..Len(recs) : Chronological(recs)[n] = recs[i]
    BY <1>3, PlaceIn
  <1>10. QED
    BY <1>1, <1>2, <1>3, <1>7, <1>8, <1>9

LEMMA TrendExists ==
    ASSUME NEW S, IsRecordOf(S), NEW recs \in Seq(S), NEW C, C = Controls(recs)
    PROVE  \E f : /\ IsTrend(f, recs) /\ TrendOf(recs) = f[Len(recs)].points
                  /\ \A n \in 0..Len(recs) : f[n] \in History(C)
  <1> DEFINE N == Len(recs)
             ordered == Chronological(recs)
             X == History(C)
             T == [n \in 1..N |-> [x \in X |-> Replay(x, ordered[n])]]
  <1>1. /\ N \in Nat /\ IsFiniteSet(C)
        /\ \A n \in 1..N : /\ ordered[n].control \in C /\ ordered[n].result \in Results
                           /\ ordered[n].at \in Nat
    BY Ledgered DEF Timed
  <1>2. NoHistory \in X
    <2>1. {} \in SUBSET C /\ [c \in {} |-> "satisfied"] \in [{} -> Results]
      OBVIOUS
    <2>2. [c \in {} |-> "satisfied"] \in Latests(C)
      BY <2>1 DEF Latests
    <2>3. <<>> \in Seq(Point)
      OBVIOUS
    <2>4. QED
      BY <2>2, <2>3 DEF NoHistory, History
  <1>3. T \in [1..N -> [X -> X]]
    <2>1. ASSUME NEW n \in 1..N PROVE T[n] \in [X -> X]
      <3>1. \A x \in X : Replay(x, ordered[n]) \in X
        BY <1>1, ReplayForm
      <3>2. QED
        BY <3>1
    <2>2. QED
      BY <2>1
  <1> HIDE DEF N, X, ordered
  <1>4. PICK f \in [0..N -> X] :
            f[0] = NoHistory /\ \A n \in 1..N : Follows(f, T, n)
    <2> HIDE DEF T
    <2>1. \E f : Carries(f, T, NoHistory, N, X)
      BY <1>1, <1>2, <1>3, Carried
    <2>2. QED
      BY <2>1 DEF Carries
  <1>5. ASSUME NEW n \in 0..N PROVE f[n] = TrendStep(f, recs, n)
    <2>1. CASE n = 0
      BY <1>4, <2>1 DEF TrendStep
    <2>2. CASE n # 0
      <3>1. n \in 1..N /\ n - 1 \in 0..N
        BY <1>1, <2>2
      <3>2. f[n] = T[n][f[n - 1]] /\ f[n - 1] \in X
        BY <1>4, <3>1 DEF Follows
      <3>3. QED
        BY <2>2, <3>1, <3>2 DEF TrendStep, ordered
    <2>3. QED
      BY <2>1, <2>2
  <1>6. IsTrend(f, recs)
    <2>1. f = [n \in 0..N |-> f[n]]
      BY <1>4
    <2>2. QED
      BY <1>5, <2>1 DEF IsTrend, N
  <1> DEFINE k == CHOOSE g : IsTrend(g, recs)
  <1>7. IsTrend(k, recs)
    BY <1>6
  <1>8. TrendOf(recs) = k[Len(recs)].points
    BY DEF TrendOf, IsTrend, TrendStep
  <1>9. k = f
    <2> DEFINE G == {n \in 0..N : k[n] = f[n]}
    <2>0. \A n \in 0..N : k[n] = TrendStep(k, recs, n) /\ f[n] = TrendStep(f, recs, n)
      BY <1>6, <1>7 DEF IsTrend, N
    <2>00. DOMAIN k = 0..N /\ DOMAIN f = 0..N /\ k = [n \in 0..N |-> k[n]]
      BY <1>6, <1>7 DEF IsTrend, N
    <2> HIDE DEF k
    <2>1. 0 \in G
      BY <1>1, <2>0 DEF TrendStep
    <2>2. ASSUME NEW n \in 0..N, n < N, n \in G PROVE n + 1 \in G
      <3>1. n + 1 \in 0..N /\ (n + 1) - 1 = n /\ n + 1 # 0
        BY <1>1, <2>2
      <3>2. QED
        BY <2>0, <2>2, <3>1 DEF TrendStep
    <2>3. 0..N \subseteq G
      <3> HIDE DEF G
      <3>1. QED
        BY <1>1, <2>1, <2>2, UpTo
    <2>4. \A n \in 0..N : k[n] = f[n]
      BY <2>3
    <2>5. QED
      BY <1>4, <2>00, <2>4
  <1>10. QED
    BY <1>4, <1>6, <1>8, <1>9 DEF N, X

(***************************************************************************)
(* After n records every control they are about is known by the latest of  *)
(* its records, and the last point counts them.                            *)
(***************************************************************************)
LastWord(ordered, n, c, result) ==
    \E m \in 1..n : /\ ordered[m].control = c /\ ordered[m].result = result
                    /\ \A k \in 1..n : k > m => ordered[k].control # c
Drawn(ordered, C, n, x) ==
    /\ x \in History(C)
    /\ \A m \in 1..n : ordered[m].control \in DOMAIN x.latest
    /\ \A c \in DOMAIN x.latest : LastWord(ordered, n, c, x.latest[c])
    /\ \A i \in 1..Len(x.points) : /\ x.points[i].satisfied <= x.points[i].total
                                   /\ x.points[i].total <= Cardinality(C)
    /\ n > 0 => /\ Len(x.points) > 0
                /\ x.points[Len(x.points)] = PointOf(ordered[n].at, x.latest)
    /\ n = 0 => x.points = <<>>

LEMMA DrawnOn ==
    ASSUME NEW C, IsFiniteSet(C), NEW ordered, NEW n \in Nat, NEW x, Drawn(ordered, C, n, x),
           NEW r, r = ordered[n + 1], r.control \in C, r.result \in Results, r.at \in Nat
    PROVE  Drawn(ordered, C, n + 1, Replay(x, r))
  <1>1. PICK y : y = Replay(x, r)
    OBVIOUS
  <1>2. x \in History(C)
    BY DEF Drawn
  <1>3. y \in History(C) /\ Replays(x, r, y)
    BY <1>1, <1>2, ReplayForm
  <1>4. y.latest \in Latests(C) /\ x.points \in Seq(Point) /\ y.points \in Seq(Point)
    BY <1>2, <1>3 DEF History
  <1>5. n + 1 \in 1..n + 1 /\ \A m \in 1..n + 1 : m = n + 1 \/ m \in 1..n
    OBVIOUS
  <1>6. \A m \in 1..n + 1 : ordered[m].control \in DOMAIN y.latest
    BY <1>3, <1>5 DEF Drawn, Replays
  <1>7. ASSUME NEW c \in DOMAIN y.latest PROVE LastWord(ordered, n + 1, c, y.latest[c])
    <2>1. CASE c = r.control
      <3>1. y.latest[c] = r.result
        BY <1>3, <2>1 DEF Replays
      <3>2. \A k \in 1..n + 1 : ~(k > n + 1)
        OBVIOUS
      <3>3. QED
        BY <1>5, <2>1, <3>1, <3>2 DEF LastWord
    <2>2. CASE c # r.control
      <3>1. c \in DOMAIN x.latest /\ y.latest[c] = x.latest[c]
        BY <1>3, <2>2 DEF Replays
      <3>2. LastWord(ordered, n, c, x.latest[c])
        BY <3>1 DEF Drawn
      <3>3. PICK m \in 1..n : /\ ordered[m].control = c /\ ordered[m].result = x.latest[c]
                              /\ \A k \in 1..n : k > m => ordered[k].control # c
        BY <3>2 DEF LastWord
      <3>4. m \in 1..n + 1 /\ \A k \in 1..n + 1 : k > m => ordered[k].control # c
        BY <1>5, <2>2, <3>3
      <3>5. QED
        BY <3>1, <3>3, <3>4 DEF LastWord
    <2>3. QED
      BY <2>1, <2>2
  <1>8. ASSUME NEW i \in 1..Len(y.points)
        PROVE  /\ y.points[i].satisfied <= y.points[i].total
               /\ y.points[i].total <= Cardinality(C)
    <2>1. CASE i = Len(y.points)
      <3>1. y.points[i] = PointOf(r.at, y.latest)
        BY <1>3, <2>1 DEF Replays
      <3>2. QED
        BY <1>4, <3>1, Count
    <2>2. CASE i # Len(y.points)
      <3>1. i \in 1..Len(x.points) /\ y.points[i] = x.points[i]
        BY <1>3, <2>2 DEF Replays
      <3>2. QED
        BY <3>1 DEF Drawn
    <2>3. QED
      BY <2>1, <2>2
  <1>9. Len(y.points) > 0 /\ y.points[Len(y.points)] = PointOf(ordered[n + 1].at, y.latest)
    BY <1>3 DEF Replays
  <1>10. Drawn(ordered, C, n + 1, y)
    <2>1. n + 1 # 0
      OBVIOUS
    <2>2. QED
      BY <1>3, <1>6, <1>7, <1>8, <1>9, <2>1 DEF Drawn
  <1>11. QED
    BY <1>1, <1>10

LEMMA TrendDrawn ==
    ASSUME NEW S, IsRecordOf(S), NEW recs \in Seq(S), NEW C, C = Controls(recs),
           NEW ordered, ordered = Chronological(recs)
    PROVE  \E x : Drawn(ordered, C, Len(recs), x) /\ TrendOf(recs) = x.points
  <1>1. PICK f : /\ IsTrend(f, recs) /\ TrendOf(recs) = f[Len(recs)].points
                 /\ \A n \in 0..Len(recs) : f[n] \in History(C)
    BY TrendExists
  <1>2. /\ Len(recs) \in Nat /\ IsFiniteSet(C)
        /\ \A n \in 1..Len(recs) : /\ ordered[n].control \in C /\ ordered[n].result \in Results
                                   /\ ordered[n].at \in Nat
    BY Ledgered DEF Timed
  <1>3. \A n \in 0..Len(recs) : f[n] = TrendStep(f, recs, n)
    BY <1>1 DEF IsTrend
  <1> DEFINE N == Len(recs)
             G == {n \in 0..N : Drawn(ordered, C, n, f[n])}
  <1>4. 0 \in G
    <2>1. f[0] = NoHistory /\ f[0] \in History(C)
      BY <1>1, <1>2, <1>3 DEF TrendStep
    <2>2. f[0].latest = [c \in {} |-> "satisfied"] /\ f[0].points = <<>>
      BY <2>1 DEF NoHistory
    <2>3. Len(f[0].points) = 0 /\ DOMAIN f[0].latest = {}
      BY <2>2
    <2>4. Drawn(ordered, C, 0, f[0])
      BY <2>1, <2>2, <2>3 DEF Drawn
    <2>5. QED
      BY <1>2, <2>4
  <1>5. ASSUME NEW n \in 0..N, n < N, n \in G PROVE n + 1 \in G
    <2>1. n + 1 \in 0..N /\ n + 1 \in 1..N /\ (n + 1) - 1 = n /\ n + 1 # 0 /\ n \in Nat
      BY <1>2, <1>5
    <2>2. PICK r, x : r = ordered[n + 1] /\ x = f[n]
      OBVIOUS
    <2>3. f[n + 1] = Replay(x, r)
      BY <1>3, <2>1, <2>2 DEF TrendStep
    <2>4. Drawn(ordered, C, n, x)
      BY <1>5, <2>2
    <2>5. r.control \in C /\ r.result \in Results /\ r.at \in Nat
      BY <1>2, <2>1, <2>2
    <2>6. Drawn(ordered, C, n + 1, Replay(x, r))
      BY <1>2, <2>1, <2>2, <2>4, <2>5, DrawnOn
    <2>7. QED
      BY <2>1, <2>3, <2>6
  <1>6. N \in G
    <2>1. N \in Nat
      BY <1>2
    <2> HIDE DEF G, N
    <2>2. 0..N \subseteq G
      BY <1>4, <1>5, <2>1, UpTo
    <2>3. QED
      BY <2>1, <2>2
  <1>7. QED
    BY <1>1, <1>6

----------------------------------------------------------------------------
(* The sparkline                                                           *)

(***************************************************************************)
(* A share of k, rounded, stays between 0 and k.  All of it is k, and only *)
(* a share so close to all that rounding hides the rest.                   *)
(***************************************************************************)
LEMMA Rounded ==
    ASSUME NEW n \in Nat, NEW b \in Nat, b > 0, NEW q, q = Nearest(n, b)
    PROVE  q \in Int /\ 2 * n - b <= 2 * (q * b) /\ 2 * (q * b) <= 2 * n + b
  <1> DEFINE p == n \div b
             Near(x) == 2 * n - b <= 2 * (x * b) /\ 2 * (x * b) <= 2 * n + b
  <1>1. p \in Int /\ b * p <= n /\ n < b * p + b
    OBVIOUS
  <1> HIDE DEF p
  <1>2. \E x \in p..p + 1 : Near(x)
    <2>1. p * b = b * p /\ (p + 1) * b = b * p + b /\ b * p \in Int
      BY <1>1
    <2>2. CASE 2 * n <= 2 * (b * p) + b
      <3>1. Near(p)
        BY <1>1, <2>1, <2>2
      <3>2. QED
        BY <1>1, <3>1
    <2>3. CASE ~(2 * n <= 2 * (b * p) + b)
      <3>1. Near(p + 1)
        BY <1>1, <2>1, <2>3
      <3>2. QED
        BY <1>1, <3>1
    <2>4. QED
      BY <2>2, <2>3
  <1>3. q = CHOOSE x \in p..p + 1 : Near(x)
    BY DEF Nearest, p
  <1> HIDE DEF Near
  <1>4. q \in p..p + 1 /\ Near(q)
    BY <1>2, <1>3
  <1>5. QED
    BY <1>1, <1>4 DEF Near

LEMMA Scaled ==
    ASSUME NEW a \in Nat, NEW b \in Nat, b > 0, a <= b, NEW k \in Nat, k > 0,
           NEW q, q = Nearest(a * k, b)
    PROVE  /\ q \in 0..k
           /\ a = b => q = k
           /\ q = k => 2 * k * (b - a) <= b
  <1>1. a * k \in Nat /\ k * b \in Nat /\ a * k <= k * b
    OBVIOUS
  <1>2. q \in Int /\ 2 * (a * k) - b <= 2 * (q * b) /\ 2 * (q * b) <= 2 * (a * k) + b
    BY <1>1, Rounded
  <1>3. q >= 0
    <2>1. CASE q <= 0 - 1
      <3>1. q * b <= 0 - b
        BY <1>2, <2>1
      <3>2. QED
        BY <1>1, <1>2, <3>1
    <2>2. QED
      BY <1>2, <2>1
  <1>4. q <= k
    <2>1. CASE q >= k + 1
      <3>1. q * b >= k * b + b
        BY <1>2, <2>1
      <3>2. QED
        BY <1>1, <1>2, <3>1
    <2>2. QED
      BY <1>2, <2>1
  <1>5. a = b => q = k
    <2>1. CASE a = b /\ q <= k - 1
      <3>1. q * b + b <= k * b /\ a * k = k * b
        BY <1>2, <2>1
      <3>2. QED
        BY <1>1, <1>2, <3>1
    <2>2. QED
      BY <1>2, <1>4, <2>1
  <1>6. ASSUME q = k PROVE 2 * k * (b - a) <= b
    <2>1. 2 * (k * b) <= 2 * (a * k) + b
      BY <1>2, <1>6
    <2>2. 2 * k * (b - a) = 2 * (k * b) - 2 * (a * k)
      OBVIOUS
    <2>3. QED
      BY <1>1, <2>1, <2>2
  <1>7. QED
    BY <1>2, <1>3, <1>4, <1>5, <1>6

LEMMA MostControls ==
    ASSUME NEW points \in Seq(Point), NEW B \in Nat,
           \A i \in 1..Len(points) : points[i].total <= B
    PROVE  /\ MaxTotal(points) \in Nat /\ MaxTotal(points) >= 1
           /\ \A i \in 1..Len(points) : points[i].total <= MaxTotal(points)
           /\ MaxTotal(points) = 1 \/ MaxTotal(points) <= B
  <1> DEFINE S == {1} \cup {points[i].total : i \in DOMAIN points}
  <1>0. DOMAIN points = 1..Len(points) /\ \A i \in 1..Len(points) : points[i] \in Point
    OBVIOUS
  <1>1. DOMAIN points = 1..Len(points) /\ \A i \in 1..Len(points) : points[i].total \in Nat
    BY <1>0 DEF Point
  <1>2. S \subseteq 0..(B + 1) /\ S # {} /\ B + 1 \in Nat
    BY <1>1
  <1>3. 1 \in S /\ (\A i \in 1..Len(points) : points[i].total \in S)
        /\ \A x \in S : x = 1 \/ x <= B
    BY <1>1
  <1>4. MaxTotal(points) = Max(S)
    BY DEF MaxTotal
  <1> HIDE DEF S
  <1>5. Max(S) \in S /\ \A x \in S : x <= Max(S)
    BY <1>2, MaxOf
  <1>6. Max(S) \in Nat
    BY <1>2, <1>5
  <1>7. QED
    BY <1>3, <1>4, <1>5, <1>6

LEMMA Frame ==
    ASSUME NEW p \in Nat, NEW k \in Nat, NEW t, t = p + k, NEW q \in 0..k
    PROVE  t - q \in p..t /\ (t - q = p <=> q = k) /\ p + q \in p..t
  <1>1. p \in Int /\ k \in Int /\ q \in Int /\ 0 <= q /\ q <= k /\ 0 <= p
    OBVIOUS
  <1>2. t - q \in Int /\ p + q \in Int /\ t \in Int
    BY <1>1
  <1>3. p <= t - q /\ t - q <= t
    BY <1>1
  <1>4. p + q <= t /\ p <= p + q
    BY <1>1
  <1>5. t - q = p <=> q = k
    BY <1>1
  <1>6. QED
    BY <1>2, <1>3, <1>4, <1>5, <1>1

LEMMA Doubled ==
    ASSUME NEW X, NEW s \in Seq(X), Len(s) = 1
    PROVE  /\ Len(s \o s) = 2 /\ DOMAIN (s \o s) = 1..2
           /\ (s \o s)[1] = s[1] /\ (s \o s)[2] = s[1]
  <1>1. /\ s \o s \in Seq(X) /\ Len(s \o s) = Len(s) + Len(s)
        /\ \A i \in 1..Len(s) + Len(s) :
              (s \o s)[i] = IF i <= Len(s) THEN s[i] ELSE s[i - Len(s)]
    BY ConcatProperties
  <1>2. Len(s \o s) = 2 /\ DOMAIN (s \o s) = 1..2
    BY <1>1
  <1>3. (s \o s)[1] = IF 1 <= Len(s) THEN s[1] ELSE s[1 - Len(s)]
    BY <1>1
  <1>4. (s \o s)[2] = IF 2 <= Len(s) THEN s[2] ELSE s[2 - Len(s)]
    BY <1>1
  <1>5. QED
    BY <1>2, <1>3, <1>4

InFrame(v) == v.x \in pad..(w - pad) /\ v.y \in pad..(h - pad)
AtTop(v, s, M) ==
    /\ s = M => v.y = pad
    /\ v.y = pad => 2 * (h - 2 * pad) * (M - s) <= M

LEMMA VertexFramed ==
    ASSUME NEW points \in Seq(Point), NEW B \in Nat,
           \A i \in 1..Len(points) : points[i].satisfied <= points[i].total /\ points[i].total <= B,
           NEW i \in 1..Len(points)
    PROVE  /\ InFrame(Vertex(points, i))
           /\ AtTop(Vertex(points, i), points[i].satisfied, MaxTotal(points))
  <1> DEFINE M == MaxTotal(points)
             s == points[i].satisfied
             L == Len(points)
             v == Vertex(points, i)
  <1>1. M \in Nat /\ M > 0 /\ points[i].total <= M
    <2>1. \A j \in 1..Len(points) : points[j].total <= B
      OBVIOUS
    <2>2. M \in Nat /\ M >= 1 /\ \A j \in 1..Len(points) : points[j].total <= M
      BY <2>1, MostControls
    <2> HIDE DEF M
    <2>3. QED
      BY <2>2
  <1>2. s \in Nat /\ points[i].total \in Nat /\ L \in Nat /\ i \in 1..L
    <2>1. points[i] \in Point /\ L \in Nat
      OBVIOUS
    <2>2. QED
      BY <2>1 DEF Point
  <1>3. s <= M
    BY <1>1, <1>2
  <1>4. PICK kx, ky, bx, by :
            /\ kx = w - 2 * pad /\ ky = h - 2 * pad /\ bx = w - pad /\ by = h - pad
    OBVIOUS
  <1>5. /\ pad \in Nat /\ kx \in Nat /\ ky \in Nat /\ kx > 0 /\ ky > 0
        /\ bx = pad + kx /\ by = pad + ky /\ w \div 2 \in pad..bx
    BY <1>4 DEF w, h, pad
  <1>6. v.y = by - Nearest(s * ky, M)
    BY <1>4 DEF Vertex
  <1>7. v.x = IF L = 1 THEN w \div 2 ELSE pad + Nearest((i - 1) * kx, L - 1)
    BY <1>4 DEF Vertex
  <1> HIDE DEF M, s, L, v
  <1>8. v.y \in pad..by /\ (s = M => v.y = pad) /\ (v.y = pad => 2 * ky * (M - s) <= M)
    <2>1. PICK q : q = Nearest(s * ky, M)
      OBVIOUS
    <2>2. q \in 0..ky /\ (s = M => q = ky) /\ (q = ky => 2 * ky * (M - s) <= M)
      <3>1. PICK a, b : a = s /\ b = M
        OBVIOUS
      <3>2. a \in Nat /\ b \in Nat /\ b > 0 /\ a <= b
        BY <1>1, <1>2, <1>3, <3>1
      <3>3. ky \in Nat /\ ky > 0
        BY <1>5
      <3>4. q = Nearest(a * ky, b)
        BY <2>1, <3>1
      <3>5. q \in 0..ky /\ (a = b => q = ky) /\ (q = ky => 2 * ky * (b - a) <= b)
        BY <3>2, <3>3, <3>4, Scaled
      <3>6. QED
        BY <3>1, <3>5
    <2>3. v.y = by - q
      BY <1>6, <2>1
    <2>4. by - q \in pad..by /\ (by - q = pad <=> q = ky)
      BY <1>5, <2>2, Frame
    <2>5. QED
      BY <2>2, <2>3, <2>4
  <1>9. v.x \in pad..bx
    <2>1. CASE L = 1
      BY <1>5, <1>7, <2>1
    <2>2. CASE L # 1
      <3>1. PICK a, b : a = i - 1 /\ b = L - 1
        OBVIOUS
      <3>2. a \in Nat /\ b \in Nat /\ b > 0 /\ a <= b
        BY <1>2, <2>2, <3>1
      <3>3. PICK q : q = Nearest(a * kx, b)
        OBVIOUS
      <3>4. q \in 0..kx
        BY <1>5, <3>2, <3>3, Scaled
      <3>5. v.x = pad + q
        BY <1>7, <2>2, <3>1, <3>3
      <3>6. pad + q \in pad..bx
        BY <1>5, <3>4, Frame
      <3>7. QED
        BY <3>5, <3>6
    <2>3. QED
      BY <2>1, <2>2
  <1>10. QED
    BY <1>4, <1>8, <1>9 DEF InFrame, AtTop, v, s, M

(***************************************************************************)
(* All of a sparkline is in its frame, and it ends at the top if the last  *)
(* point has as many satisfied controls as ever were known.                *)
(***************************************************************************)
LEMMA LineFramed ==
    ASSUME NEW points \in Seq(Point), NEW B \in Nat, Len(points) > 0,
           \A i \in 1..Len(points) : points[i].satisfied <= points[i].total /\ points[i].total <= B,
           NEW line, line = Polyline(points)
    PROVE  /\ line # <<>> /\ \A i \in DOMAIN line : InFrame(line[i])
           /\ AtTop(Last(line), points[Len(points)].satisfied, MaxTotal(points))
  <1> DEFINE L == Len(points)
             vertices == [i \in DOMAIN points |-> Vertex(points, i)]
  <1>1. L \in Nat /\ DOMAIN points = 1..L /\ L > 0
    OBVIOUS
  <1>2. \A i \in 1..L : /\ vertices[i] = Vertex(points, i) /\ InFrame(vertices[i])
                        /\ AtTop(vertices[i], points[i].satisfied, MaxTotal(points))
    BY <1>1, VertexFramed
  <1>3. vertices \in Seq({Vertex(points, i) : i \in 1..L}) /\ Len(vertices) = L
    BY <1>1
  <1>4. line = IF L = 1 THEN vertices \o vertices ELSE vertices
    BY DEF Polyline
  <1> HIDE DEF vertices
  <1>5. CASE L = 1
    <2>1. line = vertices \o vertices /\ Len(vertices) = 1
      BY <1>3, <1>4, <1>5
    <2>2. Len(line) = 2 /\ DOMAIN line = 1..2 /\ line[1] = vertices[1] /\ line[2] = vertices[1]
      <3>1. PICK X, t : t = vertices /\ t \in Seq(X)
        BY <1>3
      <3>2. Len(t) = 1 /\ line = t \o t
        BY <2>1, <3>1
      <3>3. QED
        BY <3>1, <3>2, Doubled
    <2>3. line # <<>> /\ Last(line) = vertices[1] /\ 1 \in 1..L
      <3>1. Last(line) = vertices[1]
        BY <2>2 DEF Last
      <3>2. line # <<>>
        <4>1. Len(line) # 0
          BY <2>2
        <4>2. \A t : t = <<>> => Len(t) = 0
          OBVIOUS
        <4>3. QED
          BY <4>1, <4>2, Zenon
      <3>3. QED
        BY <1>5, <3>1, <3>2
    <2>4. \A i \in DOMAIN line : line[i] = vertices[1]
      BY <2>2
    <2>5. QED
      BY <1>2, <1>5, <2>3, <2>4
  <1>6. CASE L # 1
    <2>1. line = vertices /\ DOMAIN line = 1..L /\ Len(line) = L /\ L \in 1..L
      BY <1>1, <1>3, <1>4, <1>6
    <2>2. line # <<>> /\ Last(line) = vertices[L]
      BY <1>1, <2>1 DEF Last
    <2>3. QED
      BY <1>2, <2>1, <2>2
  <1>7. QED
    BY <1>5, <1>6

----------------------------------------------------------------------------
(* The page                                                                *)

LEMMA RowFacts ==
    ASSUME NEW S, IsRecordOf(S), NEW recs \in Seq(S), NEW c \in Controls(recs)
    PROVE  /\ Row(recs, c).status = "not-satisfied" => Row(recs, c).lapses > 0
           /\ Row(recs, c).lapses = Row(recs, c).records => Row(recs, c).status = "not-satisfied"
  <1> DEFINE D == 1..Len(recs)
             O == Of(recs, c)
             P == Lapses(recs, c)
  <1>1. Len(recs) \in Nat /\ IsFiniteSet(D) /\ ToSet(recs) = {recs[i] : i \in D}
    <2>1. Len(recs) \in Nat /\ ToSet(recs) = {recs[i] : i \in 1..Len(recs)}
      BY InSet
    <2>2. QED
      BY <2>1, FS_Interval
  <1>2. O \subseteq D /\ P \subseteq O /\ \A i \in P : recs[i].result # "satisfied"
    BY DEF Of, Lapses
  <1>3. \A i \in D : /\ recs[i].control = c => i \in O
                     /\ recs[i].control = c /\ recs[i].result # "satisfied" => i \in P
    BY DEF Of, Lapses
  <1>4. \A s : About(recs, c, s) \subseteq O
    BY DEF About, Speaks, Of
  <1>5. Row(recs, c).lapses = Cardinality(P) /\ Row(recs, c).records = Cardinality(O)
        /\ Row(recs, c).status = IF ControlSatisfied(recs, c) THEN "satisfied" ELSE "not-satisfied"
    BY DEF Row
  <1>6. \A s \in SubjectsOf(recs, c) :
           \E i \in About(recs, c, s) : SubjectStatus(recs, c, s) = recs[i].result
    <2> SUFFICES ASSUME NEW s \in SubjectsOf(recs, c)
                 PROVE \E i \in About(recs, c, s) : SubjectStatus(recs, c, s) = recs[i].result
      OBVIOUS
    <2>1. PICK i \in D : recs[i].control = c /\ recs[i].subject = s
      BY <1>1 DEF SubjectsOf
    <2>2. i \in About(recs, c, s)
      BY <2>1 DEF About, Speaks
    <2>3. QED
      BY <2>2, SpokenFor
  <1>7. SubjectsOf(recs, c) # {}
    <2>1. PICK r \in ToSet(recs) : r.control = c
      BY DEF Controls
    <2>2. QED
      BY <2>1 DEF SubjectsOf
  <1> HIDE DEF D, O, P
  <1>8. IsFiniteSet(O) /\ IsFiniteSet(P)
    <2>1. IsFiniteSet(O)
      BY <1>1, <1>2, FS_Subset
    <2>2. QED
      BY <1>2, <2>1, FS_Subset
  <1>9. ASSUME ~ControlSatisfied(recs, c) PROVE Cardinality(P) > 0
    <2>1. PICK s \in SubjectsOf(recs, c) : SubjectStatus(recs, c, s) # "satisfied"
      BY <1>9 DEF ControlSatisfied
    <2>2. PICK i \in About(recs, c, s) : recs[i].result # "satisfied"
      BY <1>6, <2>1
    <2>3. i \in P
      BY <2>2, <1>3 DEF About, Speaks, D
    <2>4. Cardinality(P) \in Nat /\ Cardinality(P) # 0
      BY <1>8, <2>3, FS_CardinalityType, FS_EmptySet
    <2>5. QED
      BY <2>4
  <1>10. ASSUME Cardinality(P) = Cardinality(O) PROVE ~ControlSatisfied(recs, c)
    <2>1. P = O
      BY <1>2, <1>8, <1>10, FS_Subset
    <2>2. PICK s : s \in SubjectsOf(recs, c)
      BY <1>7
    <2>3. PICK i \in About(recs, c, s) : SubjectStatus(recs, c, s) = recs[i].result
      BY <1>6, <2>2
    <2>4. SubjectStatus(recs, c, s) # "satisfied"
      BY <1>2, <1>4, <2>1, <2>3
    <2>5. QED
      BY <2>2, <2>4 DEF ControlSatisfied
  <1>11. QED
    BY <1>5, <1>9, <1>10

(***************************************************************************)
(* The headline counts controls.                                           *)
(***************************************************************************)
LEMMA Headline ==
    ASSUME NEW S, IsRecordOf(S), NEW recs \in Seq(S), NEW C, C = Controls(recs),
           NEW top, top = PostureJSON(recs)
    PROVE  /\ top.total = Cardinality(C)
           /\ top.satisfied = Cardinality(C \ NotSatisfied(recs))
           /\ top.gaps \in Nat /\ top.gaps = top.total - top.satisfied
           /\ top.controls = {Row(recs, c) : c \in C}
  <1> DEFINE rows == {Row(recs, c) : c \in C}
             row == [c \in C |-> Row(recs, c)]
             gaps == NotSatisfied(recs)
  <1>1. IsFiniteSet(C)
    BY Ledgered
  <1>2. row \in Surjection(C, rows)
    BY DEF Surjection
  <1>3. row \in Injection(C, rows)
    <2>1. \A c \in C : row[c].control = c
      BY DEF Row
    <2>2. \A c, d \in C : row[c] = row[d] => c = d
      BY <2>1
    <2>3. row \in [C -> rows]
      OBVIOUS
    <2> HIDE DEF row, rows
    <2>4. QED
      BY <2>2, <2>3 DEF Injection, IsInjective
  <1>4. top.total = Cardinality(rows) /\ top.gaps = Cardinality(gaps) /\ top.controls = rows
        /\ top.satisfied = Cardinality(rows) - Cardinality(gaps)
    BY DEF PostureJSON
  <1>5. gaps \subseteq C
    BY DEF NotSatisfied, Controls
  <1> HIDE DEF row, rows, gaps
  <1>6. Cardinality(rows) = Cardinality(C)
    BY <1>1, <1>2, <1>3, FS_Surjection
  <1>7. IsFiniteSet(gaps) /\ C \cap gaps = gaps
    BY <1>1, <1>5, FS_Subset
  <1>8. Cardinality(C \ gaps) = Cardinality(C) - Cardinality(gaps)
    <2>1. Cardinality(C \ gaps) = Cardinality(C) - Cardinality(C \cap gaps)
      BY <1>1, FS_Difference
    <2>2. QED
      BY <1>7, <2>1
  <1>9. Cardinality(gaps) \in Nat /\ Cardinality(C) \in Nat
    BY <1>1, <1>7, FS_CardinalityType
  <1>10. QED
    BY <1>4, <1>6, <1>8, <1>9 DEF gaps, rows

(***************************************************************************)
(* With one subject per control and all times usable, the latest record of *)
(* a control in the order of the trend is the one the rollup takes.        *)
(***************************************************************************)
LEMMA LatestIsStatus ==
    ASSUME NEW S, IsRecordOf(S), NEW recs \in Seq(S), Comparable(recs),
           NEW ordered, ordered = Chronological(recs),
           NEW c \in Controls(recs), NEW result, LastWord(ordered, Len(recs), c, result)
    PROVE  result = "satisfied" <=> ControlSatisfied(recs, c)
  <1> DEFINE N == Len(recs)
  <1>1. N \in Nat /\ Timed(recs) /\ ToSet(recs) = {recs[i] : i \in 1..N}
    BY Ledgered, InSet
  <1>2. PICK s : SubjectsOf(recs, c) = {s}
    <2>1. Cardinality(SubjectsOf(recs, c)) = 1
      BY DEF Comparable
    <2>2. IsFiniteSet(SubjectsOf(recs, c))
      <3> DEFINE O == Of(recs, c)
                 subject == [i \in O |-> recs[i].subject]
      <3>1. O \subseteq 1..N
        BY DEF Of
      <3>2. IsFiniteSet(1..N)
        <4>1. \A n \in Nat : IsFiniteSet(1..n)
          BY FS_Interval
        <4>2. QED
          BY <1>1, <4>1
      <3>3. IsFiniteSet(O)
        BY <3>1, <3>2, FS_Subset
      <3>4. subject \in Surjection(O, SubjectsOf(recs, c))
        BY <1>1 DEF Surjection, SubjectsOf, Of
      <3> HIDE DEF O, subject
      <3>5. QED
        BY <3>3, <3>4, FS_Surjection
    <2>3. QED
      BY <2>1, <2>2, FS_Singleton
  <1>3. PICK m \in 1..N : /\ ordered[m].control = c /\ ordered[m].result = result
                          /\ \A k \in 1..N : k > m => ordered[k].control # c
    BY DEF LastWord
  <1>4. PICK k \in 1..N : Position(recs, k) = m /\ ordered[m] = recs[k]
    <2>1. /\ PlaceOf(recs, m) \in 1..N /\ Position(recs, PlaceOf(recs, m)) = m
          /\ Chronological(recs)[m] = recs[PlaceOf(recs, m)]
      BY <1>1, <1>3, PlaceIn
    <2>2. QED
      BY <2>1
  <1>5. \A i \in 1..N : recs[i].control = c => recs[i].subject = s
    BY <1>1, <1>2 DEF SubjectsOf
  <1>6. k \in About(recs, c, s)
    BY <1>3, <1>4, <1>5 DEF About, Speaks
  <1>7. ASSUME NEW j \in About(recs, c, s)
        PROVE  recs[j].at < recs[k].at \/ (recs[j].at = recs[k].at /\ j <= k)
    <2>1. j \in 1..N /\ recs[j].control = c
      BY DEF About, Speaks
    <2>2. Position(recs, j) \in 1..N /\ ordered[Position(recs, j)] = recs[j]
      BY <1>1, <2>1, PositionIn
    <2>3. ~(Position(recs, j) > m)
      BY <1>3, <2>1, <2>2
    <2>4. ~Earlier(recs, k, j)
      <3>1. Earlier(recs, k, j) => Position(recs, k) < Position(recs, j)
        BY <1>1, <2>1, PositionRises
      <3>2. QED
        BY <1>4, <2>2, <2>3, <3>1
    <2>5. recs[j].at \in Nat /\ recs[k].at \in Nat /\ j \in Nat /\ k \in Nat
      BY <1>1, <2>1 DEF Timed
    <2>6. QED
      BY <2>4, <2>5 DEF Earlier
  <1>8. Youngest(recs, c, s, k)
    BY <1>7 DEF Youngest
  <1>9. \A i \in About(recs, c, s) : ~UnusableTime(recs[i].at)
    BY DEF Comparable, About, UnusableTime
  <1>10. SubjectStatus(recs, c, s) = recs[k].result
    BY <1>6, <1>8, <1>9, YoungestWins
  <1>11. QED
    BY <1>2, <1>3, <1>4, <1>10 DEF ControlSatisfied

(***************************************************************************)
(* What PageAgrees says of a ledger holds of any list of records.          *)
(***************************************************************************)
PageTells(recs) ==
    LET page == Page(recs)
        top == page.posture
        line == page.trend.polyline
    IN  /\ \A row \in top.controls :
              /\ row.status = "not-satisfied" => row.lapses > 0
              /\ row.lapses = row.records => row.status = "not-satisfied"
        /\ page.trend = NoTrend <=> recs = <<>>
        /\ \A i \in DOMAIN line : line[i].x \in pad..(w - pad) /\ line[i].y \in pad..(h - pad)
        /\ recs # <<>> => page.trend.total = top.total
        /\ recs # <<>> /\ Comparable(recs) =>
              /\ page.trend.satisfied = top.satisfied
              /\ top.gaps = 0 => Last(line).y = pad
              /\ Last(line).y = pad => 2 * (h - 2 * pad) * top.gaps <= top.total

LEMMA PageFacts ==
    ASSUME NEW S, IsRecordOf(S), NEW recs \in Seq(S)
    PROVE  PageTells(recs)
  <1> DEFINE C == Controls(recs)
             N == Len(recs)
             ordered == Chronological(recs)
             top == PostureJSON(recs)
             trend == buildTrend(TrendOf(recs))
  <1>1. PICK x : Drawn(ordered, C, N, x) /\ TrendOf(recs) = x.points
    BY TrendDrawn
  <1>2. /\ top.total = Cardinality(C)
        /\ top.satisfied = Cardinality(C \ NotSatisfied(recs))
        /\ top.gaps \in Nat /\ top.gaps = top.total - top.satisfied
        /\ top.controls = {Row(recs, c) : c \in C}
    <2>1. PICK D, t : D = Controls(recs) /\ t = PostureJSON(recs)
      OBVIOUS
    <2>2. /\ t.total = Cardinality(D)
          /\ t.satisfied = Cardinality(D \ NotSatisfied(recs))
          /\ t.gaps \in Nat /\ t.gaps = t.total - t.satisfied
          /\ t.controls = {Row(recs, c) : c \in D}
      BY <2>1, Headline
    <2>3. QED
      BY <2>1, <2>2
  <1>3. \A row \in top.controls : /\ row.status = "not-satisfied" => row.lapses > 0
                                  /\ row.lapses = row.records => row.status = "not-satisfied"
    BY <1>2, RowFacts
  <1>4. N \in Nat /\ IsFiniteSet(C) /\ Timed(recs) /\ Cardinality(C) \in Nat
    BY Ledgered, FS_CardinalityType DEF Timed
  <1>5. x \in History(C) /\ x.points \in Seq(Point) /\ x.latest \in Latests(C)
    BY <1>1 DEF Drawn, History
  <1>6. DOMAIN x.latest = C
    <2>1. \A c \in C : \E m \in 1..N : ordered[m].control = c
      <3> SUFFICES ASSUME NEW c \in C PROVE \E m \in 1..N : ordered[m].control = c
        OBVIOUS
      <3>1. PICK i \in 1..N : recs[i].control = c
        BY InSet DEF Controls
      <3>2. Position(recs, i) \in 1..N /\ ordered[Position(recs, i)] = recs[i]
        BY <1>4, PositionIn
      <3>3. QED
        BY <3>1, <3>2
    <2>2. DOMAIN x.latest \subseteq C
      BY <1>5 DEF Latests
    <2>3. QED
      BY <1>1, <2>1, <2>2 DEF Drawn
  <1>7. CASE recs = <<>>
    <2>1. N = 0 /\ x.points = <<>>
      BY <1>1, <1>7 DEF Drawn
    <2>2. trend = NoTrend /\ trend.polyline = <<>>
      BY <1>1, <2>1 DEF buildTrend, NoTrend
    <2>3. DOMAIN trend.polyline = {}
      BY <2>2
    <2>4. QED
      BY <1>3, <1>7, <2>2, <2>3 DEF PageTells, Page
  <1>8. CASE recs # <<>>
    <2>1. N > 0
      BY <1>4, <1>8
    <2> DEFINE points == x.points
               last == points[Len(points)]
               line == Polyline(points)
    <2>2. Len(points) > 0 /\ last = PointOf(ordered[N].at, x.latest)
          /\ \A i \in 1..Len(points) : /\ points[i].satisfied <= points[i].total
                                       /\ points[i].total <= Cardinality(C)
      BY <1>1, <2>1 DEF Drawn
    <2>3. last.total = Cardinality(C) /\ last.satisfied = Cardinality(Good(x.latest))
      BY <1>6, <2>2 DEF PointOf
    <2> HIDE DEF last
    <2>4. /\ line # <<>> /\ \A i \in DOMAIN line : InFrame(line[i])
          /\ AtTop(Last(line), last.satisfied, MaxTotal(points))
      BY <1>4, <1>5, <2>2, LineFramed DEF last
    <2>5. trend = [polyline |-> line, satisfied |-> last.satisfied, total |-> last.total]
      BY <1>1, <2>2 DEF buildTrend, Last, last
    <2> HIDE DEF line
    <2>6. trend # NoTrend
      BY <2>4, <2>5 DEF NoTrend
    <2>7. MaxTotal(points) = Cardinality(C)
      <3>1. /\ MaxTotal(points) \in Nat /\ MaxTotal(points) >= 1
            /\ \A i \in 1..Len(points) : points[i].total <= MaxTotal(points)
            /\ MaxTotal(points) = 1 \/ MaxTotal(points) <= Cardinality(C)
        BY <1>4, <1>5, <2>2, MostControls
      <3>2. Cardinality(C) # 0
        <4>1. recs[1].control \in C
          BY <1>4, <2>1, Ledgered
        <4>2. QED
          BY <1>4, <4>1, FS_EmptySet
      <3>3. Cardinality(C) <= MaxTotal(points)
        <4>1. Len(points) \in 1..Len(points)
          BY <1>5, <2>2
        <4>2. QED
          BY <2>3, <3>1, <4>1 DEF last
      <3>4. QED
        BY <1>4, <3>1, <3>2, <3>3
    <2>8. ASSUME Comparable(recs)
          PROVE  /\ last.satisfied = top.satisfied
                 /\ top.gaps = 0 => Last(line).y = pad
                 /\ Last(line).y = pad => 2 * (h - 2 * pad) * top.gaps <= top.total
      <3>1. ASSUME NEW c \in C
            PROVE  x.latest[c] = "satisfied" <=> ControlSatisfied(recs, c)
        <4>1. PICK result : result = x.latest[c]
          OBVIOUS
        <4>2. LastWord(ordered, N, c, result)
          BY <1>1, <1>6, <4>1 DEF Drawn
        <4>3. QED
          BY <2>8, <4>1, <4>2, LatestIsStatus
      <3>2. Good(x.latest) = C \ NotSatisfied(recs)
        BY <1>6, <3>1 DEF Good, NotSatisfied, Controls
      <3>3. last.satisfied = top.satisfied
        BY <1>2, <2>3, <3>2
      <3>4. MaxTotal(points) - last.satisfied = top.gaps /\ MaxTotal(points) = top.total
        BY <1>2, <2>7, <3>3
      <3>5. top.gaps = 0 => last.satisfied = MaxTotal(points)
        <4>1. last.satisfied \in Nat /\ MaxTotal(points) \in Nat
          <5>1. points[Len(points)] \in Point
            BY <1>5, <2>2
          <5>2. QED
            BY <1>4, <2>7, <5>1 DEF Point, last
        <4>2. QED
          BY <3>4, <4>1
      <3>6. QED
        BY <2>4, <3>3, <3>4, <3>5 DEF AtTop
    <2>9. QED
      BY <1>2, <1>3, <1>8, <2>3, <2>4, <2>5, <2>6, <2>8 DEF PageTells, Page, InFrame
  <1>9. QED
    BY <1>7, <1>8

(***************************************************************************)
(* On every ledger a release leaves, for any artifacts, times and faults,  *)
(* the rows of the dashboard's page agree with the lapses behind them, the *)
(* sparkline stays in its frame, and the trend ends with the controls of   *)
(* the headline; where no control has several subjects and no time is      *)
(* missing, also with its satisfied ones.                                  *)
(***************************************************************************)
THEOREM PageHolds == Spec => []PageAgrees
  <1>1. RInv => PageAgrees
    BY PageFacts, EmittedFacts DEF RInv, RTypes, PageAgrees, PageTells
  <1>2. QED
    BY <1>1, RInvHolds, PTL
=============================================================================
