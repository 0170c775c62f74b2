------------------------ MODULE GatewayBudgetProofs ------------------------
(***************************************************************************)
(* How much an agent may run, for any limits, delays, requests and number  *)
(* of restarts.  Every admitted charge is of a window, the windows of one  *)
(* life of the gateway are apart, and one holds no more than the limit; so *)
(* that a stretch of time shorter than a window meets two of them in the   *)
(* first of its lives and one in each of the others.  Every charge is in   *)
(* the tally of its window, once, with all its units of cost.  And what    *)
(* each interaction is promised (Interaction) is kept, since it is charged *)
(* once, on its way to being let through.                                  *)
(***************************************************************************)
EXTENDS GatewayProofs

----------------------------------------------------------------------------
(* Counting                                                                *)

(***************************************************************************)
(* A set that falls into n classes of at most most members has no more     *)
(* than n times as many.                                                   *)
(***************************************************************************)
Below(H, class, n) == {h \in H : class[h] < n}
Class(H, class, n) == {h \in H : class[h] = n}
Within(H, class, most, n) == Cardinality(Below(H, class, n)) <= n * most

LEMMA NextClass ==
    ASSUME NEW H, IsFiniteSet(H), NEW class \in [H -> Nat], NEW most \in Nat, NEW n \in Nat,
           Cardinality(Class(H, class, n)) <= most, Within(H, class, most, n)
    PROVE  Within(H, class, most, n + 1)
  <1> DEFINE A == Below(H, class, n)
             B == Class(H, class, n)
             C == Below(H, class, n + 1)
  <1>1. A \subseteq H /\ B \subseteq H /\ C = A \cup B
    BY DEF Below, Class
  <1>2. IsFiniteSet(A) /\ IsFiniteSet(B) /\ IsFiniteSet(A \cap B)
    BY <1>1, FS_Subset
  <1>3. /\ Cardinality(A) \in Nat /\ Cardinality(B) \in Nat
        /\ Cardinality(A \cap B) \in Nat
    BY <1>2, FS_CardinalityType
  <1>4. Cardinality(C) = Cardinality(A) + Cardinality(B) - Cardinality(A \cap B)
    BY <1>1, <1>2, FS_Union
  <1>5. Cardinality(A) <= n * most /\ Cardinality(B) <= most
    BY DEF Within
  <1>6. (n + 1) * most = n * most + most /\ n * most \in Nat
    BY SMT
  <1> HIDE DEF A, B, C
  <1>7. Cardinality(C) <= (n + 1) * most
    BY <1>3, <1>4, <1>5, <1>6
  <1>8. QED
    BY <1>7 DEF Within, C

LEMMA Classes ==
    ASSUME NEW H, IsFiniteSet(H), NEW class \in [H -> Nat], NEW most \in Nat,
           \A n \in Nat : Cardinality(Class(H, class, n)) <= most
    PROVE  \A n \in Nat : Within(H, class, most, n)
  <1> DEFINE Bad == {n \in Nat : ~Within(H, class, most, n)}
  <1>1. SUFFICES ASSUME Bad # {} PROVE FALSE
    OBVIOUS
  <1>2. Min(Bad) \in Bad /\ \A n \in Bad : Min(Bad) <= n
    <2>1. Bad \subseteq Nat
      OBVIOUS
    <2> HIDE DEF Bad
    <2>2. QED
      BY <1>1, <2>1, LeastIndex
  <1>3. PICK n \in Nat : ~Within(H, class, most, n) /\ \A m \in Bad : n <= m
    BY <1>2
  <1>4. CASE n = 0
    <2>1. Below(H, class, 0) = {}
      BY DEF Below
    <2>2. 0 * most = 0
      OBVIOUS
    <2>3. QED
      BY <1>3, <1>4, <2>1, <2>2, FS_EmptySet DEF Within
  <1>5. CASE n # 0
    <2>1. n - 1 \in Nat /\ ~(n <= n - 1)
      BY <1>5
    <2>2. Within(H, class, most, n - 1)
      BY <1>3, <2>1
    <2>3. Within(H, class, most, (n - 1) + 1)
      BY <2>1, <2>2, NextClass
    <2>4. QED
      BY <1>3, <2>3
  <1>6. QED
    BY <1>4, <1>5

----------------------------------------------------------------------------
(* The invariant                                                           *)

ChargesOf(a) == {h \in charges : Req(h.call).agent = a}
InOne(a, start, life) == {h \in ChargesOf(a) : h.start = start /\ h.life = life}

Apart(a, s, t) == s = t \/ (LimitOf[a].window > 0 /\ s + LimitOf[a].window <= t)

(***************************************************************************)
(* A charge falls in its window, or is late by the delay at most.          *)
(***************************************************************************)
ChargesTyped ==
    /\ IsFiniteSet(charges)
    /\ \A h \in charges :
          /\ h.call \in Calls /\ Req(h.call).agent \in DOMAIN LimitOf
          /\ h.start \in Nat /\ h.at \in Nat /\ h.start <= h.at /\ h.at <= clock
          /\ h.life \in Nat /\ h.life <= restarts

InTime ==
    \A h \in charges :
        LET length == LimitOf[Req(h.call).agent].window
        IN  length > 0 => h.at < h.start + length + Delay

(***************************************************************************)
(* A life begins after the lives before it: no time it has read, and no    *)
(* window it has opened, is older than a charge of theirs.                 *)
(***************************************************************************)
Past(time) == \A h \in charges : h.life < restarts => h.at <= time
Reads ==
    \A c \in Calls : At(c, "charge") =>
        /\ call[c].now <= clock /\ clock <= call[c].now + Delay
        /\ Past(call[c].now)

(***************************************************************************)
(* The current window is the last one of this life, and has counted what   *)
(* was charged in it.                                                      *)
(***************************************************************************)
Counts(a, w) ==
    LimitOf[a].requests > 0 =>
        /\ Cardinality(InOne(a, w.start, restarts)) <= w.requests
        /\ w.requests <= LimitOf[a].requests
LastWindow(a, w) ==
    /\ w.start <= clock /\ Past(w.start)
    /\ \A h \in ChargesOf(a) : h.life = restarts => Apart(a, h.start, w.start)
    /\ Counts(a, w)
Windows ==
    \A a \in DOMAIN LimitOf :
        IF window[a] = NoWindow THEN \A h \in ChargesOf(a) : h.life # restarts
        ELSE LastWindow(a, window[a])

Ordered ==
    \A h, k \in charges :
        /\ h.life < k.life => h.at <= k.start
        /\ Req(h.call).agent = Req(k.call).agent /\ h.life = k.life =>
              LET a == Req(h.call).agent
              IN  Apart(a, h.start, k.start) \/ Apart(a, k.start, h.start)

Limited ==
    \A a \in DOMAIN LimitOf : LimitOf[a].requests > 0 =>
        \A start, life \in Nat :
            Cardinality(InOne(a, start, life)) <= LimitOf[a].requests

BInv ==
    /\ ChargesTyped /\ InTime /\ Reads /\ Windows /\ Ordered /\ Limited

----------------------------------------------------------------------------
(* The invariant is inductive                                              *)

LEMMA InitBInv == Init => BInv
  <1> SUFFICES ASSUME Init PROVE BInv
    OBVIOUS
  <1>1. charges = {} /\ IsFiniteSet(charges)
    BY FS_EmptySet DEF Init
  <1>2. \A a : ChargesOf(a) = {} /\ \A start, life : InOne(a, start, life) = {}
    BY <1>1 DEF ChargesOf, InOne
  <1>3. \A c \in Calls : ~At(c, "charge")
    BY DEF Init, At, Fresh
  <1>4. \A a \in DOMAIN LimitOf : window[a] = NoWindow /\ LimitOf[a].requests \in Nat
    BY GatewayAssumption DEF Init, GatewayAssumption, Limits
  <1>5. ChargesTyped /\ InTime /\ Reads /\ Windows /\ Ordered
    BY <1>1, <1>2, <1>3, <1>4 DEF ChargesTyped, InTime, Reads, Windows, Ordered
  <1>6. Limited
    <2>1. \A a, start, life : Cardinality(InOne(a, start, life)) = 0
      BY <1>2, FS_EmptySet
    <2>2. QED
      BY <1>4, <2>1 DEF Limited
  <1>7. QED
    BY <1>5, <1>6 DEF BInv

(***************************************************************************)
(* A call that was charged keeps its request.                              *)
(***************************************************************************)
LEMMA ChargedStays ==
    ASSUME GInv, ChargesTyped, [Next]_vars, NEW h \in charges
    PROVE  Req(h.call)' = Req(h.call)
  <1>1. GatewayTypeOK /\ h.call \in Calls /\ Charged(h.call)
    BY DEF GInv, ChargesTyped, Charged
  <1>2. CASE UNCHANGED vars \/ Tick
    BY <1>2 DEF vars, Tick, Req
  <1>3. CASE Restart
    BY <1>1, <1>3, CallLost DEF Same, Req
  <1>4. ASSUME NEW c \in Calls, Receive(c) PROVE Req(h.call)' = Req(h.call)
    <2>1. ~At(h.call, "idle")
      BY <1>1 DEF GInv, GateInv
    <2>2. h.call # c
      BY <1>4, <2>1, ReceiveStep
    <2>3. call'[h.call] = call[h.call]
      BY <1>1, <1>4, <2>2, ReceiveStep DEF GatewayTypeOK
    <2>4. QED
      BY <2>3 DEF Req
  <1>5. ASSUME NEW c \in Calls, GoOn(c) PROVE Req(h.call)' = Req(h.call)
    BY <1>1, <1>5, CallGoesOn DEF Same, Req
  <1>6. QED
    BY <1>2, <1>3, <1>4, <1>5 DEF Next, Receive, GoOn

LEMMA SameCharges ==
    ASSUME charges' = charges, \A h \in charges : Req(h.call)' = Req(h.call)
    PROVE  \A a : /\ ChargesOf(a)' = ChargesOf(a)
                  /\ \A start, life : InOne(a, start, life)' = InOne(a, start, life)
  <1>1. ASSUME NEW a PROVE ChargesOf(a)' = ChargesOf(a)
    BY DEF ChargesOf
  <1>2. QED
    BY <1>1 DEF InOne

LEMMA Bounds == {MaxClock, MaxRestarts, MaxFaults} \subseteq Nat /\ Delay \in Nat
  BY GatewayAssumption DEF GatewayAssumption

LEMMA Numbers ==
    ASSUME GatewayTypeOK
    PROVE  clock \in Nat /\ restarts \in Nat /\ call \in [Calls -> Call]
  BY Bounds DEF GatewayTypeOK

LEMMA LaterClock == GatewayTypeOK' => clock' \in Nat
  BY Bounds DEF GatewayTypeOK

(***************************************************************************)
(* A step that charges nothing.                                            *)
(***************************************************************************)
LEMMA ClockKeeps ==
    ASSUME BInv, clock \in Nat, clock' \in Nat, clock <= clock',
           UNCHANGED <<charges, restarts>>, restarts \in Nat,
           \A h \in charges : Req(h.call)' = Req(h.call)
    PROVE  ChargesTyped' /\ InTime' /\ Ordered' /\ Limited'
  <1>1. ChargesTyped'
    <2>1. \A h \in charges : h.at \in Nat /\ h.at <= clock'
      BY DEF BInv, ChargesTyped
    <2>2. QED
      BY <2>1 DEF BInv, ChargesTyped
  <1>2. InTime'
    BY DEF BInv, InTime
  <1>3. Ordered'
    BY DEF BInv, Ordered
  <1>4. Limited'
    <2>1. Limited
      BY DEF BInv
    <2>2. QED
      BY <2>1, SameCharges DEF Limited
  <1>5. QED
    BY <1>1, <1>2, <1>3, <1>4

LEMMA WindowsKept ==
    ASSUME BInv, GatewayTypeOK, clock' \in Nat, clock <= clock',
           UNCHANGED <<window, charges, restarts>>,
           \A h \in charges : Req(h.call)' = Req(h.call)
    PROVE  Windows'
  <1> SUFFICES ASSUME NEW a \in DOMAIN LimitOf, window[a] # NoWindow
               PROVE  LastWindow(a, window[a])'
    <2>1. \A a : ChargesOf(a)' = ChargesOf(a)
      BY SameCharges
    <2>2. QED
      BY <2>1 DEF BInv, Windows
  <1>1. LastWindow(a, window[a])
    BY DEF BInv, Windows
  <1>2. window[a].start <= clock'
    <2>1. window[a].start \in Nat /\ clock \in Nat
      BY Numbers DEF GatewayTypeOK, Window
    <2>2. QED
      BY <1>1, <2>1 DEF LastWindow
  <1>3. Past(window[a].start)'
    BY <1>1 DEF LastWindow, Past
  <1>4. Counts(a, window[a])'
    BY <1>1, SameCharges DEF LastWindow, Counts
  <1>5. QED
    BY <1>1, <1>2, <1>3, <1>4, SameCharges DEF LastWindow

LEMMA NothingCharged ==
    ASSUME GInv, GatewayTypeOK', BInv, [Next]_vars, clock <= clock',
           UNCHANGED <<window, charges, restarts>>, Reads'
    PROVE  BInv'
  <1>1. GatewayTypeOK /\ clock \in Nat /\ clock' \in Nat /\ restarts \in Nat
    BY Numbers, LaterClock DEF GInv
  <1>2. \A h \in charges : Req(h.call)' = Req(h.call)
    BY ChargedStays DEF BInv
  <1>3. QED
    BY <1>1, <1>2, ClockKeeps, WindowsKept DEF BInv

(***************************************************************************)
(* Only reading the clock brings a call to its charge.                     *)
(***************************************************************************)
LEMMA StepKeeps ==
    ASSUME GInv, GatewayTypeOK', BInv, NEW c \in Calls, Receive(c) \/ GoOn(c), ~Charge(c)
    PROVE  BInv'
  <1>0. /\ GatewayTypeOK /\ clock \in Nat /\ Delay \in Nat /\ call \in [Calls -> Call]
        /\ [Next]_vars
    <2>1. [Next]_vars
      BY DEF Next, Receive, GoOn
    <2>2. QED
      BY <2>1, Numbers, Bounds DEF GInv
  <1>1. UNCHANGED <<clock, window, charges, restarts>>
    BY ReceiveStep
    DEF GoOn, ReadClock, Unlimited, InvalidCost, LogInput, Answer, ScreenOutput,
        writeLogLine, rest
  <1>2. \A d \in Calls : d # c => call'[d] = call[d]
    BY <1>0, CallGoesOn, ReceiveStep
  <1>3. At(c, "charge")' => ReadClock(c)
    <2>1. CASE Receive(c)
      <3>1. PICK k : call' = [call EXCEPT ![c] = k] /\ Begun(k)
        BY <2>1, ReceiveStep
      <3>2. k.step # "charge"
        BY <3>1 DEF Begun, BadRequest, Received, Posted, Fresh
      <3>3. QED
        BY <1>0, <3>1, <3>2 DEF At
    <2>2. CASE GoOn(c)
      <3>1. CASE FromLog(c, call'[c])
        BY <3>1 DEF FromLog, At
      <3>2. QED
        BY <1>0, <2>2, <3>1, CallAfter DEF At, ToCharge, ToLog, Answered, Closed
    <2>3. QED
      BY <2>1, <2>2
  <1>4. ASSUME NEW d \in Calls, At(d, "charge")'
        PROVE  /\ call'[d].now <= clock /\ clock <= call'[d].now + Delay
               /\ Past(call'[d].now)
    <2>1. CASE d # c
      BY <1>2, <1>4, <2>1 DEF BInv, Reads, At
    <2>2. CASE d = c
      <3>1. call'[d].now = clock
        <4>1. call' = [call EXCEPT ![c].now = clock, ![c].step = "charge"]
          BY <1>3, <1>4, <2>2 DEF ReadClock
        <4>2. call[c] \in Call
          BY <1>0
        <4>3. [call[c] EXCEPT !.now = clock, !.step = "charge"].now = clock
          BY <4>2 DEF Call
        <4>4. QED
          BY <1>0, <2>2, <4>1, <4>3
      <3>2. Past(clock)
        BY DEF BInv, ChargesTyped, Past
      <3>3. QED
        BY <1>0, <3>1, <3>2
    <2>3. QED
      BY <2>1, <2>2
  <1>5. Reads'
    BY <1>1, <1>4 DEF Reads, Past
  <1>6. QED
    BY <1>0, <1>1, <1>5, NothingCharged

LEMMA TimePasses ==
    ASSUME GInv, GatewayTypeOK', BInv, Tick
    PROVE  BInv'
  <1>1. /\ clock \in Nat /\ Delay \in Nat /\ call \in [Calls -> Call] /\ [Next]_vars
        /\ clock' = clock + 1 /\ UNCHANGED <<call, window, charges, restarts>>
    BY GatewayAssumption DEF GInv, GatewayTypeOK, GatewayAssumption, Next, Tick, rest
  <1>2. ASSUME NEW c \in Calls, At(c, "charge")
        PROVE  /\ call[c].now <= clock + 1 /\ clock + 1 <= call[c].now + Delay
               /\ Past(call[c].now)
    <2>1. call[c].now \in Nat
      BY <1>1 DEF Call
    <2>2. call[c].now <= clock /\ Past(call[c].now) /\ clock < call[c].now + Delay
      BY <1>2 DEF BInv, Reads, Tick
    <2>3. QED
      BY <1>1, <2>1, <2>2
  <1>3. Reads'
    BY <1>1, <1>2 DEF Reads, Past, At
  <1>4. QED
    BY <1>1, <1>3, NothingCharged

(***************************************************************************)
(* A new life has no window yet and has charged nothing.                   *)
(***************************************************************************)
LEMMA NewLife ==
    ASSUME GInv, GatewayTypeOK', BInv, Restart
    PROVE  BInv'
  <1>0. GatewayTypeOK /\ [Next]_vars
    BY DEF GInv, Next
  <1>1. /\ clock \in Nat /\ restarts \in Nat /\ call \in [Calls -> Call]
        /\ restarts' = restarts + 1 /\ UNCHANGED <<clock, charges>>
    <2>1. restarts' = restarts + 1 /\ UNCHANGED <<clock, charges>>
      BY DEF Restart
    <2>2. QED
      BY <1>0, <2>1, GatewayAssumption DEF GatewayTypeOK, GatewayAssumption
  <1>2. \A h \in charges : Req(h.call)' = Req(h.call)
    BY <1>0, ChargedStays DEF BInv
  <1>3. ChargesTyped'
    <2>1. \A h \in charges : h.life \in Nat /\ h.life <= restarts + 1
      BY <1>1 DEF BInv, ChargesTyped
    <2>2. QED
      BY <1>1, <1>2, <2>1 DEF BInv, ChargesTyped
  <1>4. InTime'
    BY <1>1, <1>2 DEF BInv, InTime
  <1>5. Reads'
    <2>1. ASSUME NEW c \in Calls PROVE ~At(c, "charge")'
      <3>1. call[c] \in Call
        BY <1>1
      <3>2. [call[c] EXCEPT !.step = "done", !.reply = "lost"].step = "done"
        BY <3>1 DEF Call
      <3>3. QED
        BY <3>2 DEF Restart, At
    <2>2. QED
      BY <2>1 DEF Reads
  <1>6. Windows'
    <2>1. \A a \in DOMAIN LimitOf : window'[a] = NoWindow
      BY DEF Restart
    <2>2. \A h \in charges : h.life # restarts + 1
      BY <1>1 DEF BInv, ChargesTyped
    <2>3. \A a : \A h \in ChargesOf(a)' : h.life # restarts'
      BY <1>1, <2>2 DEF ChargesOf
    <2>4. QED
      BY <2>1, <2>3 DEF Windows
  <1>7. Ordered'
    BY <1>1, <1>2 DEF BInv, Ordered
  <1>8. Limited'
    BY <1>1, <1>2, SameCharges DEF BInv, Limited
  <1>9. QED
    BY <1>3, <1>4, <1>5, <1>6, <1>7, <1>8 DEF BInv

(***************************************************************************)
(* The window a charge is counted in, opened for it or not, is the last    *)
(* one, and the charge comes in time for it.                               *)
(***************************************************************************)
LEMMA WindowTypes ==
    ASSUME GatewayTypeOK, NEW a \in DOMAIN LimitOf
    PROVE  /\ LimitOf[a].requests \in Nat /\ LimitOf[a].window \in Nat
           /\ window[a] # NoWindow =>
                 window[a] \in Window /\ window[a].start \in Nat /\ window[a].requests \in Nat
  <1>1. LimitOf[a] \in Limits /\ window[a] \in Window \cup {NoWindow}
    BY GatewayAssumption DEF GatewayAssumption, GatewayTypeOK
  <1>2. QED
    BY <1>1 DEF Limits, Window

LEMMA OpenedWindow ==
    ASSUME NEW a \in DOMAIN LimitOf, NEW now \in Nat, LimitOf[a].requests \in Nat,
           now <= clock, Past(now),
           \A h \in ChargesOf(a) : h.life = restarts => Apart(a, h.start, now) /\ h.start # now
    PROVE  LastWindow(a, Opened(now))
  <1>1. Opened(now).start = now /\ Opened(now).requests = 0
    BY DEF Opened
  <1>2. InOne(a, now, restarts) = {}
    BY DEF InOne
  <1>3. Cardinality(InOne(a, now, restarts)) = 0
    BY <1>2, FS_EmptySet
  <1>4. Counts(a, Opened(now))
    BY <1>1, <1>3 DEF Counts
  <1>5. QED
    BY <1>1, <1>4 DEF LastWindow

LEMMA CurrentWindow ==
    ASSUME GInv, BInv, NEW c \in Calls, Charge(c), NEW a, a = Req(c).agent,
           NEW w, w = Current(window[a], LimitOf[a], call[c].now)
    PROVE  /\ a \in DOMAIN LimitOf /\ w \in Window /\ w.start \in Nat /\ w.requests \in Nat
           /\ LastWindow(a, w)
           /\ LimitOf[a].window > 0 => clock < w.start + LimitOf[a].window + Delay
  <1> DEFINE now == call[c].now
             length == LimitOf[a].window
  <1>0. GatewayTypeOK /\ At(c, "charge") /\ a \in DOMAIN LimitOf
    BY DEF GInv, Charge
  <1>1. LimitOf[a].requests \in Nat /\ length \in Nat
    BY <1>0, WindowTypes
  <1>2. now \in Nat /\ clock \in Nat /\ Delay \in Nat
    <2>1. call[c] \in Call /\ clock \in Nat
      BY <1>0, GatewayAssumption DEF GatewayTypeOK, GatewayAssumption
    <2>2. now \in Nat
      BY <2>1 DEF Call
    <2>3. QED
      BY <2>1, <2>2, GatewayAssumption DEF GatewayAssumption
  <1>3. now <= clock /\ clock <= now + Delay /\ Past(now)
    BY <1>0 DEF BInv, Reads
  <1>3a. w \in Window
    BY <1>0, <1>2, ChargeType
  <1>4. CASE window[a] = NoWindow
    <2>1. w = Opened(now)
      BY <1>4 DEF Current
    <2>2. \A h \in ChargesOf(a) : h.life # restarts
      BY <1>0, <1>4 DEF BInv, Windows
    <2>3. LastWindow(a, w)
      BY <1>0, <1>1, <1>2, <1>3, <2>1, <2>2, OpenedWindow
    <2>4. w.start = now /\ w.requests = 0
      BY <2>1 DEF Opened
    <2>5. QED
      BY <1>0, <1>1, <1>2, <1>3, <1>3a, <2>3, <2>4
  <1>5. CASE window[a] # NoWindow
    <2> DEFINE u == window[a]
    <2>1. LastWindow(a, u) /\ u.start \in Nat /\ u.requests \in Nat
      BY <1>0, <1>5, WindowTypes DEF BInv, Windows
    <2>2. CASE Elapsed(u, LimitOf[a], now)
      <3>1. w = Opened(now) /\ length > 0 /\ now - u.start >= length
        BY <1>5, <2>2 DEF Current, Elapsed
      <3>2. ASSUME NEW h \in ChargesOf(a), h.life = restarts
            PROVE  Apart(a, h.start, now) /\ h.start # now
        <4>1. h.start \in Nat /\ Apart(a, h.start, u.start)
          BY <2>1, <3>2 DEF LastWindow, BInv, ChargesTyped, ChargesOf
        <4>2. h.start + length <= now /\ h.start # now
          BY <1>1, <1>2, <2>1, <3>1, <4>1 DEF Apart
        <4>3. QED
          BY <3>1, <4>2 DEF Apart
      <3>3. LastWindow(a, w)
        BY <1>0, <1>1, <1>2, <1>3, <3>1, <3>2, OpenedWindow
      <3>4. w.start = now /\ w.requests = 0
        BY <3>1 DEF Opened
      <3>5. QED
        BY <1>0, <1>1, <1>2, <1>3, <1>3a, <3>3, <3>4
    <2>3. CASE ~Elapsed(u, LimitOf[a], now)
      <3>1. w = u
        BY <1>5, <2>3 DEF Current
      <3>2. length > 0 => now - u.start < length
        BY <1>1, <1>2, <2>1, <2>3 DEF Elapsed
      <3>3. QED
        BY <1>0, <1>1, <1>2, <1>3, <1>3a, <2>1, <3>1, <3>2
    <2>4. QED
      BY <2>2, <2>3
  <1>6. QED
    BY <1>4, <1>5

LEMMA WholeWindow ==
    ASSUME NEW w \in Window
    PROVE  w # NoWindow
  <1>1. "cost" \in DOMAIN w /\ "cost" \notin DOMAIN NoWindow
    BY DEF Window, NoWindow
  <1>2. QED
    BY <1>1

(***************************************************************************)
(* A charge that is refused leaves the window it found, or opened.         *)
(***************************************************************************)
LEMMA OtherWindows ==
    ASSUME BInv, NEW a \in DOMAIN LimitOf, NEW b \in DOMAIN LimitOf, b # a,
           UNCHANGED <<clock, restarts>>, window'[b] = window[b],
           ChargesOf(b)' = ChargesOf(b),
           \A start, life : InOne(b, start, life)' = InOne(b, start, life),
           \A time : Past(time) => Past(time)'
    PROVE  IF window'[b] = NoWindow THEN \A h \in ChargesOf(b)' : h.life # restarts'
           ELSE LastWindow(b, window[b])'
  <1>1. CASE window[b] = NoWindow
    BY <1>1 DEF BInv, Windows
  <1>2. CASE window[b] # NoWindow
    <2>1. LastWindow(b, window[b])
      BY <1>2 DEF BInv, Windows
    <2>2. QED
      BY <1>2, <2>1 DEF LastWindow, Counts
  <1>3. QED
    BY <1>1, <1>2

LEMMA ChargeOutcome ==
    ASSUME NEW c \in Calls, Charge(c), NEW a, a = Req(c).agent, a \in DOMAIN LimitOf,
           NEW w, w = Current(window[a], LimitOf[a], call[c].now),
           window \in [DOMAIN LimitOf -> Window \cup {NoWindow}]
    PROVE  /\ UNCHANGED <<clock, restarts>>
           /\ \A b \in DOMAIN LimitOf : b # a => window'[b] = window[b]
           /\ \/ /\ Fits(w, LimitOf[a], Req(c).cost)
                 /\ window'[a] = Counted(w, Req(c).cost)
                 /\ charges' = charges \cup {[call |-> c, at |-> clock, start |-> w.start,
                                             life |-> restarts]}
              \/ window'[a] = w /\ charges' = charges
  BY DEF Charge, rest

LEMMA RefusedCharge ==
    ASSUME GInv, GatewayTypeOK', BInv, NEW c \in Calls, Charge(c), charges' = charges,
           window'[Req(c).agent] = Current(window[Req(c).agent], LimitOf[Req(c).agent], call[c].now)
    PROVE  Windows'
  <1> DEFINE a == Req(c).agent
             w == Current(window[a], LimitOf[a], call[c].now)
  <1>1. GatewayTypeOK /\ [Next]_vars
    BY DEF GInv, Next
  <1>2. a \in DOMAIN LimitOf /\ LastWindow(a, w) /\ w \in Window
    BY CurrentWindow
  <1>3. /\ UNCHANGED <<clock, restarts>>
        /\ \A b \in DOMAIN LimitOf : b # a => window'[b] = window[b]
    BY <1>1, <1>2, ChargeOutcome DEF GatewayTypeOK
  <1>4. \A h \in charges : Req(h.call)' = Req(h.call)
    BY <1>1, ChargedStays DEF BInv
  <1>5. \A b : /\ ChargesOf(b)' = ChargesOf(b)
               /\ \A start, life : InOne(b, start, life)' = InOne(b, start, life)
    BY <1>4, SameCharges
  <1>6. \A time : Past(time) => Past(time)'
    BY <1>3 DEF Past
  <1>7. w # NoWindow
    BY <1>2, WholeWindow
  <1>8. ASSUME NEW b \in DOMAIN LimitOf
        PROVE  IF window'[b] = NoWindow THEN \A h \in ChargesOf(b)' : h.life # restarts'
               ELSE LastWindow(b, window[b])'
    <2>1. CASE b = a
      <3>1. window'[b] = w
        BY <2>1
      <3> HIDE DEF w
      <3>2. QED
        BY <1>2, <1>3, <1>5, <1>6, <1>7, <2>1, <3>1 DEF LastWindow, Counts
    <2>2. CASE b # a
      BY <1>2, <1>3, <1>5, <1>6, <2>2, OtherWindows
    <2>3. QED
      BY <2>1, <2>2
  <1>9. QED
    BY <1>8 DEF Windows

(***************************************************************************)
(* A charge that is admitted is one more in its window.                    *)
(***************************************************************************)
OneMore(a, h) ==
    /\ charges' = charges \cup {h} /\ Req(h.call)'.agent = a
    /\ \A k \in charges : Req(k.call)' = Req(k.call)

LEMMA MoreCharges ==
    ASSUME NEW a, NEW h, OneMore(a, h)
    PROVE  /\ ChargesOf(a)' = ChargesOf(a) \cup {h}
           /\ \A b : b # a => ChargesOf(b)' = ChargesOf(b)
           /\ InOne(a, h.start, h.life)' = InOne(a, h.start, h.life) \cup {h}
           /\ \A b, start, life : b # a \/ start # h.start \/ life # h.life
                 => InOne(b, start, life)' = InOne(b, start, life)
  <1>1. \A k \in charges' : k \in charges \/ k = h
    BY DEF OneMore
  <1>2. ChargesOf(a)' = ChargesOf(a) \cup {h}
    BY DEF OneMore, ChargesOf
  <1>3. ASSUME NEW b, b # a PROVE ChargesOf(b)' = ChargesOf(b)
    BY <1>3 DEF OneMore, ChargesOf
  <1>4. QED
    BY <1>2, <1>3 DEF InOne

LEMMA AdmittedTypes ==
    ASSUME BInv, GatewayTypeOK, NEW a \in DOMAIN LimitOf, NEW c \in Calls,
           NEW start \in Nat, start <= clock,
           NEW h, h = [call |-> c, at |-> clock, start |-> start, life |-> restarts],
           OneMore(a, h), UNCHANGED <<clock, restarts>>
    PROVE  ChargesTyped'
  <1>1. clock \in Nat /\ restarts \in Nat
    BY GatewayAssumption DEF GatewayTypeOK, GatewayAssumption
  <1>2. IsFiniteSet(charges \cup {h})
    BY FS_AddElement DEF BInv, ChargesTyped
  <1>3. h.call = c /\ h.at = clock /\ h.start = start /\ h.life = restarts
    OBVIOUS
  <1>4. ASSUME NEW k \in charges'
        PROVE  /\ k.call \in Calls /\ Req(k.call)'.agent \in DOMAIN LimitOf
               /\ k.start \in Nat /\ k.at \in Nat /\ k.start <= k.at /\ k.at <= clock
               /\ k.life \in Nat /\ k.life <= restarts
    <2>1. CASE k \in charges
      BY <2>1 DEF BInv, ChargesTyped, OneMore
    <2>2. CASE k = h
      BY <1>1, <1>3, <2>2 DEF OneMore
    <2>3. QED
      BY <2>1, <2>2 DEF OneMore
  <1>5. QED
    BY <1>2, <1>4 DEF ChargesTyped, OneMore

LEMMA AdmittedOrder ==
    ASSUME BInv, GatewayTypeOK, NEW a \in DOMAIN LimitOf, NEW c \in Calls, NEW w, LastWindow(a, w),
           LimitOf[a].window > 0 => clock < w.start + LimitOf[a].window + Delay,
           NEW h, h = [call |-> c, at |-> clock, start |-> w.start, life |-> restarts],
           OneMore(a, h), UNCHANGED <<clock, restarts>>
    PROVE  InTime' /\ Ordered'
  <1>1. h.call = c /\ h.at = clock /\ h.start = w.start /\ h.life = restarts
    OBVIOUS
  <1>2. Req(h.call)'.agent = a /\ charges' = charges \cup {h}
    BY DEF OneMore
  <1>3. \A k \in charges : Req(k.call)' = Req(k.call)
    BY DEF OneMore
  <1>4. restarts \in Nat /\ \A k \in charges : k.life \in Nat /\ k.life <= restarts
    BY GatewayAssumption DEF BInv, ChargesTyped, GatewayTypeOK, GatewayAssumption
  <1>5. InTime'
    <2>1. ASSUME NEW k \in charges'
          PROVE  LET length == LimitOf[Req(k.call)'.agent].window
                 IN  length > 0 => k.at < k.start + length + Delay
      <3>1. CASE k \in charges
        BY <1>3, <3>1 DEF BInv, InTime
      <3>2. CASE k = h
        BY <1>1, <1>2, <3>2
      <3>3. QED
        BY <1>2, <3>1, <3>2
    <2>2. QED
      BY <2>1 DEF InTime
  <1>6. ASSUME NEW k \in charges', NEW l \in charges'
        PROVE  /\ k.life < l.life => k.at <= l.start
               /\ Req(k.call)'.agent = Req(l.call)'.agent /\ k.life = l.life =>
                     LET b == Req(k.call)'.agent
                     IN  Apart(b, k.start, l.start) \/ Apart(b, l.start, k.start)
    <2>1. CASE k \in charges /\ l \in charges
      BY <1>3, <2>1 DEF BInv, Ordered
    <2>2. ASSUME NEW m \in charges, Req(m.call)'.agent = a, m.life = restarts
          PROVE  Apart(a, m.start, h.start)
      <3>1. m \in ChargesOf(a)
        BY <1>3, <2>2 DEF ChargesOf
      <3>2. QED
        BY <1>1, <2>2, <3>1 DEF LastWindow
    <2>3. CASE k = h /\ l = h
      BY <1>1, <1>4, <2>3 DEF Apart
    <2>4. CASE k = h /\ l \in charges
      BY <1>1, <1>2, <1>4, <2>2, <2>4
    <2>5. CASE k \in charges /\ l = h
      <3>1. k.life < restarts => k.at <= w.start
        BY <2>5 DEF LastWindow, Past
      <3>2. QED
        BY <1>1, <1>2, <1>4, <2>2, <2>5, <3>1
    <2>6. QED
      BY <1>2, <2>1, <2>3, <2>4, <2>5
  <1>7. Ordered'
    BY <1>6 DEF Ordered, Apart
  <1>8. QED
    BY <1>5, <1>7

(***************************************************************************)
(* It fits into the window, and the window into the limit.                 *)
(***************************************************************************)
LEMMA CountedOnce ==
    ASSUME BInv, NEW a \in DOMAIN LimitOf, NEW w \in Window, Counts(a, w),
           LimitOf[a].requests \in Nat, NEW cost, Fits(w, LimitOf[a], cost),
           NEW h, h.start = w.start, h.life = restarts, OneMore(a, h), restarts' = restarts
    PROVE  LimitOf[a].requests > 0 =>
              /\ Cardinality(InOne(a, w.start, restarts)') <= w.requests + 1
              /\ w.requests + 1 <= LimitOf[a].requests
  <1> SUFFICES ASSUME LimitOf[a].requests > 0
               PROVE  /\ Cardinality(InOne(a, w.start, restarts)') <= w.requests + 1
                      /\ w.requests + 1 <= LimitOf[a].requests
    OBVIOUS
  <1> DEFINE I == InOne(a, w.start, restarts)
  <1>1. Cardinality(I) <= w.requests /\ w.requests \in Nat
    BY DEF Counts, Window
  <1>2. I' = I \cup {h}
    BY MoreCharges
  <1>3. IsFiniteSet(I)
    <2>1. I \subseteq charges
      BY DEF InOne, ChargesOf
    <2>2. QED
      BY <2>1, FS_Subset DEF BInv, ChargesTyped
  <1>4. Cardinality(I \cup {h}) \in {Cardinality(I), Cardinality(I) + 1}
    BY <1>3, FS_AddElement
  <1>5. Cardinality(I) \in Nat
    BY <1>3, FS_CardinalityType
  <1> HIDE DEF I
  <1>6. Cardinality(I') <= w.requests + 1
    BY <1>1, <1>2, <1>4, <1>5
  <1>7. w.requests + 1 <= LimitOf[a].requests
    BY DEF Fits
  <1>8. QED
    BY <1>6, <1>7 DEF I

LEMMA AdmittedCounts ==
    ASSUME BInv, NEW a \in DOMAIN LimitOf, NEW w \in Window, LastWindow(a, w),
           LimitOf[a].requests \in Nat, NEW cost, Fits(w, LimitOf[a], cost),
           NEW h, h.start = w.start, h.life = restarts, OneMore(a, h),
           window' = [window EXCEPT ![a] = Counted(w, cost)],
           window \in [DOMAIN LimitOf -> Window \cup {NoWindow}],
           restarts \in Nat, UNCHANGED <<clock, restarts>>
    PROVE  Windows' /\ Limited'
  <1> DEFINE v == Counted(w, cost)
  <1>1. v.start = w.start /\ v.requests = w.requests + 1 /\ v # NoWindow
    <2>1. v.start = w.start /\ v.requests = w.requests + 1 /\ "cost" \in DOMAIN v
      BY DEF Counted, Window
    <2>2. "cost" \notin DOMAIN NoWindow
      BY DEF NoWindow
    <2>3. QED
      BY <2>1, <2>2
  <1>2. window'[a] = v /\ \A b \in DOMAIN LimitOf : b # a => window'[b] = window[b]
    OBVIOUS
  <1>3. LimitOf[a].requests > 0 =>
            /\ Cardinality(InOne(a, w.start, restarts)') <= w.requests + 1
            /\ w.requests + 1 <= LimitOf[a].requests
    BY CountedOnce DEF LastWindow
  <1>4. \A time : Past(time) => Past(time)'
    BY DEF Past, OneMore
  <1> HIDE DEF v
  <1>5. ASSUME NEW b \in DOMAIN LimitOf
        PROVE  IF window'[b] = NoWindow THEN \A k \in ChargesOf(b)' : k.life # restarts'
               ELSE LastWindow(b, window[b])'
    <2>1. CASE b = a
      <3>1. Counts(a, v)'
        BY <1>1, <1>3 DEF Counts
      <3>2. \A k \in ChargesOf(a)' : k.life = restarts => Apart(a, k.start, v.start)
        BY <1>1, MoreCharges DEF LastWindow, Apart
      <3>3. Past(v.start)' /\ v.start <= clock
        BY <1>1, <1>4 DEF LastWindow
      <3>4. LastWindow(a, v)'
        BY <3>1, <3>2, <3>3 DEF LastWindow
      <3>5. QED
        BY <1>1, <1>2, <2>1, <3>4 DEF LastWindow, Counts
    <2>2. CASE b # a
      BY <1>2, <1>4, <2>2, MoreCharges, OtherWindows
    <2>3. QED
      BY <2>1, <2>2
  <1>6. Windows'
    BY <1>5 DEF Windows
  <1>7. ASSUME NEW b \in DOMAIN LimitOf, LimitOf[b].requests > 0,
               NEW start \in Nat, NEW life \in Nat
        PROVE  Cardinality(InOne(b, start, life)') <= LimitOf[b].requests
    <2>1. CASE b = a /\ start = w.start /\ life = restarts
      <3>1. IsFiniteSet(InOne(a, w.start, restarts)')
        <4>1. IsFiniteSet(charges \cup {h})
          BY FS_AddElement DEF BInv, ChargesTyped
        <4>2. InOne(a, w.start, restarts)' \subseteq charges \cup {h}
          BY DEF InOne, ChargesOf, OneMore
        <4>3. QED
          BY <4>1, <4>2, FS_Subset
      <3>2. Cardinality(InOne(a, w.start, restarts)') \in Nat
        BY <3>1, FS_CardinalityType
      <3>3. w.requests \in Nat
        BY DEF Window
      <3>4. Cardinality(InOne(a, w.start, restarts)') <= LimitOf[a].requests
        BY <1>3, <1>7, <2>1, <3>2, <3>3
      <3>5. QED
        BY <2>1, <3>4
    <2>2. CASE b # a \/ start # w.start \/ life # restarts
      <3>1. InOne(b, start, life)' = InOne(b, start, life)
        BY <2>2, MoreCharges
      <3>2. QED
        BY <1>7, <3>1 DEF BInv, Limited
    <2>3. QED
      BY <2>1, <2>2
  <1>8. Limited'
    BY <1>7 DEF Limited
  <1>9. QED
    BY <1>6, <1>8

LEMMA Charges ==
    ASSUME GInv, GatewayTypeOK', BInv, NEW c \in Calls, Charge(c)
    PROVE  BInv'
  <1> DEFINE a == Req(c).agent
             w == Current(window[a], LimitOf[a], call[c].now)
             h == [call |-> c, at |-> clock, start |-> w.start, life |-> restarts]
  <1>1. /\ GatewayTypeOK /\ [Next]_vars /\ GoOn(c)
        /\ window \in [DOMAIN LimitOf -> Window \cup {NoWindow}]
    BY DEF GInv, Next, GoOn, GatewayTypeOK
  <1>2. /\ a \in DOMAIN LimitOf /\ w \in Window /\ w.start \in Nat /\ LastWindow(a, w)
        /\ LimitOf[a].window > 0 => clock < w.start + LimitOf[a].window + Delay
    BY CurrentWindow
  <1>3. \A k \in charges : Req(k.call)' = Req(k.call)
    BY <1>1, ChargedStays DEF BInv
  <1>4. UNCHANGED <<clock, restarts>>
    BY DEF Charge, rest
  <1>4a. restarts \in Nat
    BY <1>1, GatewayAssumption DEF GatewayTypeOK, GatewayAssumption
  <1>5. /\ Req(c)' = Req(c) /\ ~At(c, "charge")'
        /\ \A d \in Calls : d # c => call'[d] = call[d]
    <2>1. Same(call'[c], call[c]) /\ \A d \in Calls : d # c => call'[d] = call[d]
      BY <1>1, CallGoesOn
    <2>2. ~At(c, "charge")'
      <3>1. call[c] \in Call /\ call \in [Calls -> Call]
        BY <1>1 DEF GatewayTypeOK
      <3>2. \/ call' = [call EXCEPT ![c].step = "log"]
            \/ call' = [call EXCEPT ![c].verdict = "budget", ![c].step = "log"]
        BY DEF Charge
      <3>3. /\ [call[c] EXCEPT !.step = "log"].step = "log"
            /\ [call[c] EXCEPT !.verdict = "budget", !.step = "log"].step = "log"
        BY <3>1 DEF Call
      <3>4. call'[c].step = "log"
        BY <3>1, <3>2, <3>3
      <3>5. QED
        BY <3>4 DEF At
    <2>3. QED
      BY <2>1, <2>2 DEF Same, Req
  <1>6. ASSUME charges' \in {charges, charges \cup {h}} PROVE Reads'
    <2>1. ASSUME NEW d \in Calls, At(d, "charge")'
          PROVE  /\ call'[d].now <= clock /\ clock <= call'[d].now + Delay
                 /\ Past(call'[d].now)
      BY <1>5, <2>1 DEF BInv, Reads, At
    <2>2. h.life = restarts
      OBVIOUS
    <2>3. \A time : Past(time) => Past(time)'
      BY <1>4, <1>4a, <1>6, <2>2 DEF Past
    <2>4. QED
      BY <1>4, <2>1, <2>3 DEF Reads
  <1>7. CASE window'[a] = w /\ charges' = charges
    <2>1. ChargesTyped' /\ InTime' /\ Ordered' /\ Limited'
      <3>1. clock \in Nat /\ clock' \in Nat /\ clock <= clock' /\ restarts \in Nat
        BY <1>1, <1>4, GatewayAssumption DEF GatewayTypeOK, GatewayAssumption
      <3>2. QED
        BY <1>3, <1>4, <1>7, <3>1, ClockKeeps
    <2>2. Windows'
      BY <1>7, RefusedCharge
    <2>3. QED
      BY <1>6, <1>7, <2>1, <2>2 DEF BInv
  <1>8. CASE /\ Fits(w, LimitOf[a], Req(c).cost)
             /\ window' = [window EXCEPT ![a] = Counted(w, Req(c).cost)]
             /\ charges' = charges \cup {h}
    <2>1. OneMore(a, h)
      BY <1>3, <1>5, <1>8 DEF OneMore
    <2>2. w.start <= clock /\ LimitOf[a].requests \in Nat
      BY <1>1, <1>2, WindowTypes DEF LastWindow
    <2> HIDE DEF w, a
    <2>3. ChargesTyped'
      BY <1>1, <1>2, <1>4, <2>1, <2>2, AdmittedTypes
    <2>4. InTime' /\ Ordered'
      BY <1>1, <1>2, <1>4, <2>1, AdmittedOrder
    <2>5. Windows' /\ Limited'
      BY <1>1, <1>2, <1>4, <1>4a, <1>8, <2>1, <2>2, AdmittedCounts
    <2>6. QED
      BY <1>6, <1>8, <2>3, <2>4, <2>5 DEF BInv
  <1>9. QED
    <2>1. \/ window' = [window EXCEPT ![a] = w] /\ charges' = charges
          \/ /\ Fits(w, LimitOf[a], Req(c).cost)
             /\ window' = [window EXCEPT ![a] = Counted(w, Req(c).cost)]
             /\ charges' = charges \cup {h}
      BY DEF Charge
    <2>2. [window EXCEPT ![a] = w][a] = w
      BY <1>1, <1>2
    <2>3. QED
      BY <1>7, <1>8, <2>1, <2>2

LEMMA BudgetStep ==
    ASSUME GInv, GatewayTypeOK', BInv, [Next]_vars
    PROVE  BInv'
  <1>1. CASE UNCHANGED vars
    <2>1. UNCHANGED <<clock, window, call, charges, restarts>>
      BY <1>1 DEF vars, rest
    <2>2. ChargesTyped' = ChargesTyped /\ InTime' = InTime /\ Ordered' = Ordered
      BY <2>1 DEF ChargesTyped, InTime, Ordered, Req
    <2>3. Reads' = Reads
      BY <2>1 DEF Reads, Past, At
    <2>4. Windows' = Windows /\ Limited' = Limited
      BY <2>1 DEF Windows, LastWindow, Counts, Past, Limited, InOne, ChargesOf, Req
    <2>5. QED
      BY <2>2, <2>3, <2>4 DEF BInv
  <1>2. CASE Tick
    BY <1>2, TimePasses
  <1>3. CASE Restart
    BY <1>3, NewLife
  <1>4. ASSUME NEW c \in Calls, Receive(c) \/ GoOn(c) PROVE BInv'
    BY <1>4, StepKeeps, Charges
  <1>5. QED
    BY <1>1, <1>2, <1>3, <1>4 DEF Next, Receive, GoOn

----------------------------------------------------------------------------
(* The bound                                                               *)

LEMMA OneWindow ==
    ASSUME BInv, GatewayTypeOK, NEW a \in DOMAIN LimitOf, LimitOf[a].requests > 0,
           NEW S, S \subseteq ChargesOf(a),
           \A h, k \in S : h.start = k.start /\ h.life = k.life
    PROVE  Cardinality(S) <= LimitOf[a].requests
  <1>1. LimitOf[a].requests \in Nat
    BY WindowTypes
  <1>2. CASE S = {}
    BY <1>1, <1>2, FS_EmptySet
  <1>3. CASE S # {}
    <2>1. PICK h \in S : TRUE
      BY <1>3
    <2> DEFINE I == InOne(a, h.start, h.life)
    <2>2. h.start \in Nat /\ h.life \in Nat
      BY <2>1 DEF BInv, ChargesTyped, ChargesOf
    <2>3. S \subseteq I /\ I \subseteq charges
      BY <2>1 DEF InOne, ChargesOf
    <2>4. IsFiniteSet(I) /\ IsFiniteSet(S) /\ Cardinality(S) <= Cardinality(I)
      <3>1. IsFiniteSet(I)
        BY <2>3, FS_Subset DEF BInv, ChargesTyped
      <3>2. QED
        BY <2>3, <3>1, FS_Subset
    <2>5. Cardinality(S) \in Nat /\ Cardinality(I) \in Nat
      BY <2>4, FS_CardinalityType
    <2>6. Cardinality(I) <= LimitOf[a].requests
      BY <2>2 DEF BInv, Limited
    <2>7. QED
      BY <1>1, <2>4, <2>5, <2>6
  <1>4. QED
    BY <1>2, <1>3

(***************************************************************************)
(* Without a window a life has one for ever.                               *)
(***************************************************************************)
LEMMA WithoutWindow ==
    ASSUME BInv, GatewayTypeOK, NEW a \in DOMAIN LimitOf, LimitOf[a].requests > 0,
           LimitOf[a].window = 0, NEW H, H \subseteq ChargesOf(a)
    PROVE  Cardinality(H) <= (restarts + 1) * LimitOf[a].requests
  <1> DEFINE class == [h \in H |-> h.life]
             most == LimitOf[a].requests
  <1>1. most \in Nat /\ restarts \in Nat
    BY WindowTypes, GatewayAssumption DEF GatewayTypeOK, GatewayAssumption
  <1>2. H \subseteq charges /\ IsFiniteSet(H)
    BY FS_Subset DEF ChargesOf, BInv, ChargesTyped
  <1>3. \A h \in H : h.life \in Nat /\ h.life < restarts + 1
    BY <1>1, <1>2 DEF BInv, ChargesTyped
  <1>4. class \in [H -> Nat]
    BY <1>3
  <1>5. ASSUME NEW n \in Nat PROVE Cardinality(Class(H, class, n)) <= most
    <2> DEFINE S == Class(H, class, n)
    <2>1. S \subseteq ChargesOf(a) /\ \A h \in S : h \in charges /\ h.life = n
      BY <1>2 DEF Class
    <2>2. ASSUME NEW h \in S, NEW k \in S PROVE h.start = k.start /\ h.life = k.life
      BY <2>1 DEF BInv, Ordered, Apart, ChargesOf
    <2> HIDE DEF S, class, most
    <2>3. Cardinality(S) <= LimitOf[a].requests
      BY <2>1, <2>2, OneWindow
    <2>4. QED
      BY <2>3 DEF S, most
  <1>6. Within(H, class, most, restarts + 1)
    <2> HIDE DEF class, most
    <2>1. QED
      BY <1>1, <1>2, <1>4, <1>5, Classes
  <1>7. Below(H, class, restarts + 1) = H
    BY <1>3 DEF Below
  <1>8. QED
    BY <1>6, <1>7 DEF Within

(***************************************************************************)
(* The first life that charges something in the stretch may do so in two   *)
(* windows, the later lives in one each: class 0 is the earlier of the     *)
(* two, and class l + 1 what else life l charged.                          *)
(***************************************************************************)
LEMMA WithWindow ==
    ASSUME BInv, GatewayTypeOK, NEW a \in DOMAIN LimitOf, LimitOf[a].requests > 0,
           LimitOf[a].window > 0, NEW t \in Nat, NEW H, H \subseteq ChargesOf(a),
           \A h \in H : t <= h.at /\ h.at < t + LimitOf[a].window - Delay
    PROVE  Cardinality(H) <= (restarts + 2) * LimitOf[a].requests
  <1> DEFINE most == LimitOf[a].requests
             length == LimitOf[a].window
             Early(h) == \E k \in H : k.life = h.life /\ h.start < k.start
             class == [h \in H |-> IF Early(h) THEN 0 ELSE h.life + 1]
  <1>1. most \in Nat /\ length \in Nat /\ restarts \in Nat /\ Delay \in Nat
    BY WindowTypes, GatewayAssumption DEF GatewayTypeOK, GatewayAssumption
  <1>2. H \subseteq charges /\ IsFiniteSet(H)
    BY FS_Subset DEF ChargesOf, BInv, ChargesTyped
  <1>3. ASSUME NEW h \in H
        PROVE  /\ h.start \in Nat /\ h.at \in Nat /\ h.life \in Nat /\ h.life <= restarts
               /\ h.start <= h.at /\ h.at < h.start + length + Delay
               /\ t <= h.at /\ h.at < t + length - Delay
    <2>1. h \in charges /\ Req(h.call).agent = a
      BY <1>2 DEF ChargesOf
    <2>2. QED
      BY <2>1 DEF BInv, ChargesTyped, InTime
  <1>4. ASSUME NEW h \in H, NEW k \in H
        PROVE  /\ h.life < k.life => h.at <= k.start
               /\ h.life = k.life =>
                     \/ h.start = k.start \/ h.start + length <= k.start
                     \/ k.start + length <= h.start
    <2>1. h \in charges /\ k \in charges /\ Req(h.call).agent = a /\ Req(k.call).agent = a
      BY <1>2 DEF ChargesOf
    <2>2. QED
      BY <2>1 DEF BInv, Ordered, Apart
  <1> HIDE DEF most, length
  <1>5. ASSUME NEW h \in H, Early(h), NEW k \in H, k.life < h.life PROVE FALSE
    <2>1. PICK l \in H : l.life = h.life /\ h.start < l.start
      BY <1>5
    <2>2. t <= h.start
      BY <1>1, <1>3, <1>4, <1>5
    <2>3. h.start + length <= l.start
      BY <1>1, <1>3, <1>4, <2>1
    <2>4. QED
      BY <1>1, <1>3, <2>2, <2>3
  <1>6. ASSUME NEW h \in H, Early(h), NEW k \in H, Early(k) PROVE h.life = k.life
    <2>1. ~(h.life < k.life) /\ ~(k.life < h.life)
      BY <1>5, <1>6
    <2>2. QED
      BY <1>3, <2>1
  <1>7. ASSUME NEW h \in H, NEW k \in H, Early(k), h.life = k.life, h.start < k.start PROVE FALSE
    <2>1. PICK l \in H : l.life = k.life /\ k.start < l.start
      BY <1>7
    <2>2. h.start + length <= k.start /\ k.start + length <= l.start
      BY <1>1, <1>3, <1>4, <1>7, <2>1
    <2>3. QED
      BY <1>1, <1>3, <2>2
  <1>8. class \in [H -> Nat] /\ \A h \in H : class[h] < restarts + 2
    <2>1. \A h \in H : h.life + 1 \in Nat /\ h.life + 1 < restarts + 2 /\ 0 < restarts + 2
      BY <1>1, <1>3
    <2>2. QED
      BY <2>1
  <1>9. ASSUME NEW n \in Nat PROVE Cardinality(Class(H, class, n)) <= most
    <2> DEFINE S == Class(H, class, n)
    <2>1. \A h \in S : h \in H /\ class[h] = n
      BY DEF Class
    <2>2. ASSUME NEW h \in S, NEW k \in S PROVE h.start = k.start /\ h.life = k.life
      <3>1. h \in H /\ k \in H
        BY <2>1
      <3>2. (Early(h) <=> n = 0) /\ (Early(k) <=> n = 0)
        <4>1. \A l \in H : l.life + 1 # 0
          BY <1>3
        <4>2. QED
          BY <2>1, <3>1, <4>1
      <3>3. CASE n = 0
        <4>1. h.life = k.life
          BY <1>6, <3>1, <3>2, <3>3
        <4>2. ~(h.start < k.start) /\ ~(k.start < h.start)
          BY <1>7, <3>1, <3>2, <3>3, <4>1
        <4>3. QED
          BY <1>3, <3>1, <4>1, <4>2
      <3>4. CASE n # 0
        <4>1. h.life + 1 = n /\ k.life + 1 = n /\ ~Early(h) /\ ~Early(k)
          BY <2>1, <3>1, <3>2, <3>4
        <4>2. h.life = k.life
          BY <1>3, <3>1, <4>1
        <4>3. ~(h.start < k.start) /\ ~(k.start < h.start)
          BY <3>1, <4>1, <4>2
        <4>4. QED
          BY <1>3, <3>1, <4>2, <4>3
      <3>5. QED
        BY <3>3, <3>4
    <2>3. S \subseteq ChargesOf(a)
      BY <2>1
    <2> HIDE DEF S, class
    <2>4. Cardinality(S) <= LimitOf[a].requests
      BY <2>2, <2>3, OneWindow
    <2>5. QED
      BY <2>4 DEF S, most
  <1> HIDE DEF class, Early
  <1>10. Within(H, class, most, restarts + 2)
    <2>1. restarts + 2 \in Nat
      BY <1>1
    <2>2. QED
      BY <1>1, <1>2, <1>8, <1>9, <2>1, Classes
  <1>11. Below(H, class, restarts + 2) = H
    BY <1>8 DEF Below
  <1>12. QED
    BY <1>10, <1>11 DEF Within, most

LEMMA Bounded ==
    ASSUME BInv, GatewayTypeOK
    PROVE  TwiceBudget
  <1> SUFFICES ASSUME NEW a \in DOMAIN LimitOf, LimitOf[a].requests > 0, NEW t \in 0..clock
               PROVE  LET length == IF LimitOf[a].window = 0 THEN clock + 1
                                     ELSE LimitOf[a].window - Delay
                          budgets == restarts + IF LimitOf[a].window = 0 THEN 1 ELSE 2
                      IN  Cardinality({h \in charges : /\ Req(h.call).agent = a
                                                       /\ h.at \in t..(t + length - 1)})
                              <= budgets * LimitOf[a].requests
    BY DEF TwiceBudget
  <1> DEFINE During(length) == {h \in charges : /\ Req(h.call).agent = a
                                                /\ h.at \in t..(t + length - 1)}
  <1>1. LimitOf[a].window \in Nat /\ t \in Nat /\ Delay \in Nat
    BY WindowTypes, GatewayAssumption DEF GatewayTypeOK, GatewayAssumption
  <1>2. \A length : During(length) \subseteq ChargesOf(a)
    BY DEF ChargesOf
  <1>3. CASE LimitOf[a].window = 0
    <2>1. Cardinality(During(clock + 1)) <= (restarts + 1) * LimitOf[a].requests
      <3> HIDE DEF During
      <3>1. QED
        BY <1>2, <1>3, WithoutWindow
    <2>2. QED
      BY <1>3, <2>1
  <1>4. CASE LimitOf[a].window # 0
    <2> DEFINE length == LimitOf[a].window - Delay
    <2>1. \A h \in During(length) : t <= h.at /\ h.at < t + LimitOf[a].window - Delay
      BY <1>1
    <2>2. Cardinality(During(length)) <= (restarts + 2) * LimitOf[a].requests
      <3> HIDE DEF During
      <3>1. LimitOf[a].window > 0
        BY <1>1, <1>4
      <3>2. QED
        BY <1>1, <1>2, <2>1, <3>1, WithWindow
    <2>3. QED
      BY <1>4, <2>2
  <1>5. QED
    BY <1>3, <1>4

----------------------------------------------------------------------------
(* The theorem                                                             *)

(***************************************************************************)
(* An agent never runs more than twice its budget in a stretch of time     *)
(* shorter than its window by the delay, and one budget more for every     *)
(* restart, whatever its requests and their interleavings.                 *)
(***************************************************************************)
THEOREM BudgetHolds == Spec => []TwiceBudget
  <1>1. Init => BInv
    BY InitBInv
  <1>2. GInv /\ GatewayTypeOK' /\ BInv /\ [Next]_vars => BInv'
    BY BudgetStep
  <1>3. BInv /\ GatewayTypeOK => TwiceBudget
    BY Bounded
  <1>4. QED
    BY <1>1, <1>2, <1>3, GatewayInductive, GatewayTypeCorrect, PTL DEF Spec

----------------------------------------------------------------------------
(* What is counted in a window                                             *)

(***************************************************************************)
(* A call is charged once: until it has been, it waits.                    *)
(***************************************************************************)
Waiting(k) == k.step \in {"idle", "time", "charge"}
OnceInv == \A c \in Calls : Waiting(call[c]) => ~Charged(c)

Tally(a, w) ==
    /\ w.requests = Cardinality(InOne(a, w.start, restarts))
    /\ w.cost = Cardinality(Units(InOne(a, w.start, restarts)))
    /\ LimitOf[a].cost > 0 => w.cost <= LimitOf[a].cost
TallyInv == \A a \in DOMAIN LimitOf : window[a] # NoWindow => Tally(a, window[a])

CInv ==
    /\ OnceInv /\ TallyInv
    /\ \A h \in charges : Req(h.call).cost \in Nat
    /\ IsFiniteSet(Units(charges))

LEMMA InitCInv == Init => CInv
  <1> SUFFICES ASSUME Init PROVE CInv
    OBVIOUS
  <1>1. charges = {} /\ \A a \in DOMAIN LimitOf : window[a] = NoWindow
    BY DEF Init
  <1>2. Units(charges) = {} /\ IsFiniteSet(Units(charges))
    <2>1. Units({}) = {}
      BY DEF Units
    <2>2. QED
      BY <1>1, <2>1, FS_EmptySet
  <1>3. QED
    BY <1>1, <1>2 DEF CInv, OnceInv, TallyInv, Charged

(***************************************************************************)
(* Nothing goes back to where it waits.                                    *)
(***************************************************************************)
LEMMA NoReturn ==
    ASSUME GInv, [Next]_vars, NEW c \in Calls, Waiting(call'[c])
    PROVE  Waiting(call[c])
  <1>0. GatewayTypeOK /\ call \in [Calls -> Call]
    BY DEF GInv, GatewayTypeOK
  <1>1. CASE UNCHANGED vars \/ Tick
    BY <1>1 DEF vars, Tick
  <1>2. CASE Restart
    BY <1>0, <1>2, CallLost DEF Waiting
  <1>3. ASSUME NEW d \in Calls, Receive(d) PROVE Waiting(call[c])
    BY <1>0, <1>3, ReceiveStep DEF At, Waiting
  <1>4. ASSUME NEW d \in Calls, GoOn(d) PROVE Waiting(call[c])
    <2>1. CASE c = d
      <3>1. CASE ToCharge(c, call'[c])
        BY <3>1 DEF ToCharge, ReadClock, At, Waiting
      <3>2. CASE FromLog(c, call'[c])
        BY <3>2 DEF FromLog, Waiting
      <3>3. QED
        BY <1>0, <1>4, <2>1, <3>1, <3>2, CallAfter DEF ToLog, Answered, Closed, Waiting
    <2>2. CASE c # d
      BY <1>0, <1>4, <2>2, CallGoesOn
    <2>3. QED
      BY <2>1, <2>2
  <1>5. QED
    BY <1>1, <1>2, <1>3, <1>4 DEF Next, Receive, GoOn

LEMMA SameUnits ==
    ASSUME \A h \in charges : Req(h.call)' = Req(h.call), NEW H, H \subseteq charges
    PROVE  Units(H)' = Units(H)
  BY DEF Units

(***************************************************************************)
(* A step that charges nothing, and keeps the windows or ends their life.  *)
(***************************************************************************)
LEMMA TallyKept ==
    ASSUME GInv, BInv, CInv, [Next]_vars, charges' = charges,
           \/ UNCHANGED <<window, restarts>>
           \/ \A a \in DOMAIN LimitOf : window'[a] = NoWindow
    PROVE  CInv'
  <1>1. \A h \in charges : Req(h.call)' = Req(h.call)
    BY ChargedStays DEF BInv
  <1>2. OnceInv'
    BY NoReturn DEF CInv, OnceInv, Charged
  <1>3. \A h \in charges : Req(h.call)'.cost \in Nat
    BY <1>1 DEF CInv
  <1>4. IsFiniteSet(Units(charges)')
    BY <1>1, SameUnits DEF CInv, Units
  <1>5. TallyInv'
    <2>1. CASE \A a \in DOMAIN LimitOf : window'[a] = NoWindow
      BY <2>1 DEF TallyInv
    <2>2. CASE UNCHANGED <<window, restarts>>
      <3> SUFFICES ASSUME NEW a \in DOMAIN LimitOf, window[a] # NoWindow
                   PROVE  Tally(a, window[a])'
        BY <2>2 DEF TallyInv
      <3> DEFINE I == InOne(a, window[a].start, restarts)
      <3>1. I' = I /\ I \subseteq charges
        BY <1>1, <2>2, SameCharges DEF InOne, ChargesOf
      <3>2. Units(I)' = Units(I)
        BY <1>1, <3>1 DEF Units
      <3>3. Tally(a, window[a])
        BY DEF CInv, TallyInv
      <3>4. QED
        BY <2>2, <3>1, <3>2, <3>3 DEF Tally
    <2>3. QED
      BY <2>1, <2>2
  <1>6. QED
    BY <1>2, <1>3, <1>4, <1>5 DEF CInv

(***************************************************************************)
(* The window a charge finds has counted what was charged in it; one that  *)
(* is opened for it is empty, for no earlier window began at its time.     *)
(***************************************************************************)
LEMMA TallyOpened ==
    ASSUME GatewayTypeOK, NEW a \in DOMAIN LimitOf, NEW now,
           \A h \in ChargesOf(a) : h.life = restarts => h.start # now
    PROVE  Tally(a, Opened(now))
  <1>1. /\ Opened(now).start = now /\ Opened(now).requests = 0 /\ Opened(now).cost = 0
    BY DEF Opened
  <1>2. InOne(a, now, restarts) = {} /\ Units({}) = {}
    BY DEF InOne, Units
  <1>3. LimitOf[a].cost \in Nat
    BY GatewayAssumption DEF GatewayAssumption, Limits
  <1>4. QED
    BY <1>1, <1>2, <1>3, FS_EmptySet DEF Tally

LEMMA TallyFound ==
    ASSUME GInv, BInv, CInv, NEW c \in Calls, Charge(c), NEW a, a = Req(c).agent,
           NEW w, w = Current(window[a], LimitOf[a], call[c].now)
    PROVE  Tally(a, w)
  <1> DEFINE now == call[c].now
             u == window[a]
             length == LimitOf[a].window
  <1>1. GatewayTypeOK /\ a \in DOMAIN LimitOf /\ length \in Nat
    BY WindowTypes DEF GInv, Charge
  <1>2. CASE u = NoWindow
    <2>1. w = Opened(now)
      BY <1>2 DEF Current
    <2>2. \A h \in ChargesOf(a) : h.life # restarts
      BY <1>1, <1>2 DEF BInv, Windows
    <2>3. QED
      BY <1>1, <2>1, <2>2, TallyOpened
  <1>3. CASE u # NoWindow /\ ~Elapsed(u, LimitOf[a], now)
    BY <1>1, <1>3 DEF Current, CInv, TallyInv
  <1>4. CASE u # NoWindow /\ Elapsed(u, LimitOf[a], now)
    <2>1. w = Opened(now) /\ length > 0 /\ now - u.start >= length
      BY <1>4 DEF Current, Elapsed
    <2>2. LastWindow(a, u) /\ u.start \in Nat /\ now \in Nat
      BY <1>1, <1>4, WindowTypes DEF BInv, Windows, GatewayTypeOK, Call
    <2>3. ASSUME NEW h \in ChargesOf(a), h.life = restarts PROVE h.start # now
      <3>1. h.start \in Nat /\ Apart(a, h.start, u.start)
        BY <2>2, <2>3 DEF LastWindow, BInv, ChargesTyped, ChargesOf
      <3>2. QED
        BY <1>1, <2>1, <2>2, <3>1 DEF Apart
    <2>4. QED
      BY <1>1, <2>1, <2>3, TallyOpened
  <1>5. QED
    BY <1>2, <1>3, <1>4

(***************************************************************************)
(* One charge more in a window is one request and its units more.         *)
(***************************************************************************)
LEMMA MoreUnits ==
    ASSUME NEW a, NEW h, OneMore(a, h), NEW H, H \subseteq charges
    PROVE  Units(H \cup {h})' = Units(H) \cup ({h} \X (1..Req(h.call)'.cost))
  <1>1. \A k \in H : Req(k.call)' = Req(k.call)
    BY DEF OneMore
  <1>2. QED
    BY <1>1 DEF Units

LEMMA UnitsOfOne ==
    ASSUME NEW h, NEW n \in Nat
    PROVE  IsFiniteSet({h} \X (1..n)) /\ Cardinality({h} \X (1..n)) = n
  <1>1. IsFiniteSet({h}) /\ Cardinality({h}) = 1
    BY FS_Singleton
  <1>2. IsFiniteSet(1..n) /\ Cardinality(1..n) = n
    BY FS_Interval
  <1> DEFINE A == {h}
             B == 1..n
  <1> HIDE DEF A, B
  <1>3. IsFiniteSet(A \X B) /\ Cardinality(A \X B) = Cardinality(A) * Cardinality(B)
    <2>1. IsFiniteSet(A) /\ IsFiniteSet(B)
      BY <1>1, <1>2 DEF A, B
    <2>2. QED
      BY <2>1, FS_Product
  <1>4. 1 * n = n
    OBVIOUS
  <1>5. QED
    BY <1>1, <1>2, <1>3, <1>4 DEF A, B

LEMMA UnitsAdd ==
    ASSUME NEW H, NEW h, h \notin H, NEW n \in Nat, IsFiniteSet(Units(H))
    PROVE  LET U == Units(H) \cup ({h} \X (1..n))
           IN  IsFiniteSet(U) /\ Cardinality(U) = Cardinality(Units(H)) + n
  <1> DEFINE V == {h} \X (1..n)
  <1>1. IsFiniteSet(V) /\ Cardinality(V) = n
    BY UnitsOfOne
  <1>2. Units(H) \cap V = {}
    BY DEF Units
  <1>3. Cardinality(Units(H)) \in Nat /\ Cardinality(Units(H) \cap V) = 0
    BY <1>2, FS_CardinalityType, FS_EmptySet
  <1> HIDE DEF V
  <1>4. /\ IsFiniteSet(Units(H) \cup V)
        /\ Cardinality(Units(H) \cup V)
              = Cardinality(Units(H)) + Cardinality(V) - Cardinality(Units(H) \cap V)
    BY <1>1, FS_Union
  <1>5. QED
    BY <1>1, <1>3, <1>4 DEF V

LEMMA TallyMore ==
    ASSUME BInv, CInv, restarts' = restarts, NEW a \in DOMAIN LimitOf, NEW w \in Window,
           Tally(a, w), NEW cost \in Nat, Fits(w, LimitOf[a], cost),
           NEW h, h \notin charges, h.start = w.start, h.life = restarts,
           OneMore(a, h), Req(h.call)'.cost = cost
    PROVE  Tally(a, Counted(w, cost))'
  <1> DEFINE I == InOne(a, w.start, restarts)
             v == Counted(w, cost)
  <1>1. v.start = w.start /\ v.requests = w.requests + 1 /\ v.cost = w.cost + cost
    BY DEF Counted, Window
  <1>2. I \subseteq charges /\ h \notin I /\ IsFiniteSet(I)
    <2>1. I \subseteq charges
      BY DEF InOne, ChargesOf
    <2>2. QED
      BY <2>1, FS_Subset DEF BInv, ChargesTyped
  <1>3. InOne(a, v.start, restarts)' = I \cup {h}
    BY <1>1, MoreCharges
  <1>4. Cardinality(I \cup {h}) = Cardinality(I) + 1
    BY <1>2, FS_AddElement
  <1>5. Units(I) \subseteq Units(charges) /\ IsFiniteSet(Units(I))
    <2>1. Units(I) \subseteq Units(charges)
      BY <1>2 DEF Units
    <2>2. QED
      BY <2>1, FS_Subset DEF CInv
  <1>6. Units(InOne(a, v.start, restarts))' = Units(I) \cup ({h} \X (1..cost))
    BY <1>2, <1>3, MoreUnits DEF Units
  <1>7. Cardinality(Units(I) \cup ({h} \X (1..cost))) = Cardinality(Units(I)) + cost
    BY <1>2, <1>5, UnitsAdd
  <1>8. LimitOf[a].cost > 0 => v.cost <= LimitOf[a].cost
    BY <1>1 DEF Fits
  <1> HIDE DEF v
  <1>9. v' = v
    BY DEF v
  <1>10. Tally(a, v)'
    BY <1>1, <1>3, <1>4, <1>6, <1>7, <1>8 DEF Tally
  <1>11. QED
    BY <1>10 DEF v

LEMMA TallyCharged ==
    ASSUME GInv, BInv, CInv, NEW c \in Calls, Charge(c)
    PROVE  CInv'
  <1>0. PICK a, w, cost, h :
           /\ a = Req(c).agent /\ w = Current(window[a], LimitOf[a], call[c].now)
           /\ cost = Req(c).cost
           /\ h = [call |-> c, at |-> clock, start |-> w.start, life |-> restarts]
    OBVIOUS
  <1>1. /\ GatewayTypeOK /\ [Next]_vars /\ GoOn(c)
        /\ window \in [DOMAIN LimitOf -> Window \cup {NoWindow}]
    BY DEF GInv, Next, GoOn, GatewayTypeOK
  <1>2. a \in DOMAIN LimitOf /\ w \in Window /\ Tally(a, w)
    BY <1>0, CurrentWindow, TallyFound
  <1>3. \A k \in charges : Req(k.call)' = Req(k.call)
    BY <1>1, ChargedStays DEF BInv
  <1>4. h \notin charges /\ ~Waiting(call'[c]) /\ Req(c)' = Req(c)
    <2>1. ~Charged(c)
      BY DEF Charge, At, CInv, OnceInv, Waiting
    <2>2. call'[c].step = "log"
      <3>1. call[c] \in Call /\ call \in [Calls -> Call]
        BY <1>1 DEF GatewayTypeOK
      <3>2. \/ call' = [call EXCEPT ![c].step = "log"]
            \/ call' = [call EXCEPT ![c].verdict = "budget", ![c].step = "log"]
        BY DEF Charge
      <3>3. /\ [call[c] EXCEPT !.step = "log"].step = "log"
            /\ [call[c] EXCEPT !.verdict = "budget", !.step = "log"].step = "log"
        BY <3>1 DEF Call
      <3>4. QED
        BY <3>1, <3>2, <3>3
    <2>3. Req(c)' = Req(c)
      BY <1>1, CallGoesOn DEF Same, Req
    <2>4. h \notin charges
      BY <1>0, <2>1 DEF Charged
    <2>5. QED
      BY <2>2, <2>3, <2>4 DEF Waiting
  <1>5. cost \in Nat
    <2>1. Req(c) \in Asked
      BY DEF Charge, At, GInv, RequestInv, Read, UnderWay, Req
    <2>2. QED
      BY <1>0, <2>1, CostType DEF Charge, Invalid
  <1>6. /\ UNCHANGED restarts
        /\ \A b \in DOMAIN LimitOf : b # a => window'[b] = window[b]
        /\ \/ /\ Fits(w, LimitOf[a], cost) /\ window'[a] = Counted(w, cost)
              /\ charges' = charges \cup {h}
           \/ window'[a] = w /\ charges' = charges
    BY <1>0, <1>1, <1>2, ChargeOutcome
  <1>7. h.call = c /\ h.start = w.start /\ h.life = restarts
    BY <1>0
  <1>8. ASSUME NEW b \in DOMAIN LimitOf, window'[b] # NoWindow,
               \A start, life : InOne(b, start, life)' = InOne(b, start, life),
               NEW x, window'[b] = x, Tally(b, x)
        PROVE  Tally(b, window[b])'
    <2> DEFINE I == InOne(b, x.start, restarts)
    <2>1. I \subseteq charges
      BY DEF InOne, ChargesOf
    <2>2. InOne(b, window[b].start, restarts)' = I
      BY <1>6, <1>8
    <2>3. Units(InOne(b, window[b].start, restarts))' = Units(I)
      BY <1>3, <2>1, <2>2 DEF Units
    <2>4. QED
      BY <1>8, <2>2, <2>3 DEF Tally
  <1>9. CASE window'[a] = w /\ charges' = charges
    <2>1. \A b, start, life : InOne(b, start, life)' = InOne(b, start, life)
      BY <1>3, <1>9, SameCharges
    <2>2. ASSUME NEW b \in DOMAIN LimitOf, window'[b] # NoWindow PROVE Tally(b, window[b])'
      <3>1. CASE b = a
        BY <1>2, <1>8, <1>9, <2>1, <2>2, <3>1
      <3>2. CASE b # a
        <4>1. Tally(b, window[b])
          BY <1>6, <2>2, <3>2 DEF CInv, TallyInv
        <4>2. QED
          BY <1>6, <1>8, <2>1, <2>2, <3>2, <4>1
      <3>3. QED
        BY <3>1, <3>2
    <2>3. TallyInv'
      BY <2>2 DEF TallyInv
    <2>4. OnceInv'
      BY <1>1, <1>9, NoReturn DEF CInv, OnceInv, Charged
    <2>5. \A k \in charges : Req(k.call)'.cost \in Nat
      BY <1>3 DEF CInv
    <2>6. IsFiniteSet(Units(charges)')
      BY <1>3, <1>9 DEF CInv, Units
    <2>7. QED
      BY <1>9, <2>3, <2>4, <2>5, <2>6 DEF CInv
  <1>10. CASE /\ Fits(w, LimitOf[a], cost) /\ window'[a] = Counted(w, cost)
              /\ charges' = charges \cup {h}
    <2>1. OneMore(a, h) /\ Req(h.call)'.cost = cost
      BY <1>0, <1>3, <1>4, <1>7, <1>10 DEF OneMore
    <2>2. Tally(a, Counted(w, cost))'
      BY <1>2, <1>4, <1>5, <1>6, <1>7, <1>10, <2>1, TallyMore
    <2>3. ASSUME NEW b \in DOMAIN LimitOf, window'[b] # NoWindow PROVE Tally(b, window[b])'
      <3>1. CASE b = a
        BY <1>10, <2>2, <3>1 DEF Tally
      <3>2. CASE b # a
        <4>1. Tally(b, window[b])
          BY <1>6, <2>3, <3>2 DEF CInv, TallyInv
        <4>2. \A start, life : InOne(b, start, life)' = InOne(b, start, life)
          BY <2>1, <3>2, MoreCharges
        <4>3. QED
          BY <1>6, <1>8, <2>3, <3>2, <4>1, <4>2
      <3>3. QED
        BY <3>1, <3>2
    <2>4. TallyInv'
      BY <2>3 DEF TallyInv
    <2>5. OnceInv'
      <3>1. ASSUME NEW d \in Calls, Waiting(call'[d]) PROVE ~Charged(d)'
        <4>1. d # c /\ ~Charged(d)
          BY <1>1, <1>4, <3>1, NoReturn DEF CInv, OnceInv
        <4>2. QED
          BY <1>7, <1>10, <4>1 DEF Charged
      <3>2. QED
        BY <3>1 DEF OnceInv
    <2>6. \A k \in charges' : Req(k.call)'.cost \in Nat
      BY <1>3, <1>5, <1>10, <2>1 DEF CInv
    <2>7. IsFiniteSet(Units(charges)')
      <3>1. Units(charges)' = Units(charges) \cup ({h} \X (1..cost))
        <4>1. PICK H : H = charges
          OBVIOUS
        <4>2. Units(H \cup {h})' = Units(H) \cup ({h} \X (1..cost))
          BY <2>1, <4>1, MoreUnits
        <4>3. QED
          BY <1>10, <4>1, <4>2 DEF Units
      <3>2. IsFiniteSet(Units(charges) \cup ({h} \X (1..cost)))
        BY <1>4, <1>5, UnitsAdd DEF CInv
      <3>3. QED
        BY <3>1, <3>2
    <2>8. QED
      BY <2>4, <2>5, <2>6, <2>7 DEF CInv
  <1>11. QED
    BY <1>6, <1>9, <1>10

LEMMA TallyStep ==
    ASSUME GInv, BInv, CInv, [Next]_vars
    PROVE  CInv'
  <1>1. CASE UNCHANGED vars \/ Tick
    <2>1. UNCHANGED <<charges, window, restarts>>
      BY <1>1 DEF vars, Tick, rest
    <2>2. QED
      BY <2>1, TallyKept
  <1>2. CASE Restart
    <2>1. charges' = charges /\ \A a \in DOMAIN LimitOf : window'[a] = NoWindow
      BY <1>2 DEF Restart
    <2>2. QED
      BY <2>1, TallyKept
  <1>3. ASSUME NEW c \in Calls, Receive(c) \/ GoOn(c), ~Charge(c) PROVE CInv'
    <2>1. UNCHANGED <<window, charges, restarts>>
      BY <1>3, ReceiveStep
      DEF GoOn, ReadClock, Unlimited, InvalidCost, LogInput, Answer, ScreenOutput,
          writeLogLine, rest
    <2>2. QED
      BY <2>1, TallyKept
  <1>4. ASSUME NEW c \in Calls, Charge(c) PROVE CInv'
    BY <1>4, TallyCharged
  <1>5. QED
    BY <1>1, <1>2, <1>3, <1>4 DEF Next, Receive, GoOn

(***************************************************************************)
(* The tally of a window is what was admitted in it, request by request    *)
(* and unit by unit of cost, and its cost stays within the agent's limit,  *)
(* for any limits, delays, requests, restarts and interleavings.           *)
(***************************************************************************)
THEOREM TallyHolds == Spec => []TallyExact
  <1>1. Init => BInv /\ CInv
    BY InitBInv, InitCInv
  <1>2. GInv /\ GatewayTypeOK' /\ BInv /\ CInv /\ [Next]_vars => BInv' /\ CInv'
    BY BudgetStep, TallyStep
  <1>3. CInv => TallyExact
    <2> SUFFICES ASSUME CInv, NEW a \in DOMAIN LimitOf, window[a] # NoWindow
                 PROVE  Tally(a, window[a]) /\ InWindow(a) = InOne(a, window[a].start, restarts)
      BY DEF Tally, TallyExact
    <2>1. Tally(a, window[a])
      BY DEF CInv, TallyInv
    <2>2. QED
      BY <2>1 DEF InWindow, InOne, ChargesOf
  <1>4. QED
    BY <1>1, <1>2, <1>3, GatewayInductive, GatewayTypeCorrect, PTL DEF Spec

----------------------------------------------------------------------------
(* The promise of an interaction                                           *)

(***************************************************************************)
(* How far a call has come shows in what it holds: nothing before it is    *)
(* read, no answer before it is let through, and at the screen an answer   *)
(* that is whole, or the output that was presented.                        *)
(***************************************************************************)
Answers == Responses \cup {Generated(o) : o \in Outputs}
Early(k) == k.step \in {"idle", "time", "charge", "log"}
Ended(k) == k.reply \in {"response", "blocked", "cut", "broken", "lost"}
Along(k) ==
    /\ k.step = "idle" => k = Fresh
    /\ Early(k) /\ k.step # "idle" => Taken(k.sent, k.req)
    /\ Early(k) \/ k.step = "upstream" => k.reply = "none" /\ k.response = NoResponse
    /\ k.step = "screen" =>
          /\ k.reply = "none"
          /\ k.response \in Answers /\ k.response.content # "broken"
          /\ ~Guarded => MayPass(k.response)
    /\ k.step = "done" => k.reply # "none" /\ (Ended(k) \/ k.response = NoResponse)

(***************************************************************************)
(* A call about to be logged has been charged exactly if it is to be let   *)
(* through and its agent has a budget; one that is not to be let through   *)
(* is to blame.                                                            *)
(***************************************************************************)
Paid(k, drawn) ==
    /\ Waiting(k) => ~drawn /\ k.verdict = "allowed"
    /\ k.step = "log" /\ k.verdict = "allowed" => (drawn <=> Metered(k))
    /\ k.step = "log" /\ k.verdict # "allowed" => ~drawn /\ ~Blameless(k)

PInv == \A c \in Calls : Along(call[c]) /\ Paid(call[c], Charged(c))

LEMMA InitPInv == Init => PInv
  <1> SUFFICES ASSUME Init, NEW c \in Calls PROVE Along(call[c]) /\ Paid(call[c], Charged(c))
    BY DEF PInv
  <1>1. call[c] = Fresh /\ ~Charged(c)
    BY DEF Init, Charged
  <1>2. Along(Fresh)
    BY DEF Along, Fresh, Early
  <1>3. QED
    BY <1>1, <1>2 DEF Paid, Fresh

(***************************************************************************)
(* What is blameless passes the gates: the first entry with the agent's id *)
(* is the one that decides.                                                *)
(***************************************************************************)
LEMMA BlamelessPasses ==
    ASSUME NEW sent, NEW r, Taken(sent, r), registry \in Registries,
           NEW k, k.sent = sent, k.reg = registry, Blameless(k)
    PROVE  Gates(r) = "allowed"
  <1> DEFINE agents == registry.agents
  <1>1. /\ sent.via = "proxy" => sent.authentic
        /\ Guarded => Harmless(sent)
    BY DEF Blameless, Admissible
  <1>2. PICK i \in 1..Len(agents) :
           /\ FirstOf(agents, i, sent.agent) /\ sent.prompt \in agents[i].prompts
           /\ Covered(sent, agents[i].tools) /\ Pins(agents[i], sent)
    BY DEF Blameless, Admissible, Declares, FirstOf
  <1>3. agents \in Seq(ToSet(agents)) /\ agents[i] \in ToSet(agents)
    <2>1. agents \in Seq(ToSet(agents))
      BY RegistriesListed
    <2>2. i \in DOMAIN agents
      BY <2>1
    <2>3. QED
      BY <2>1, <2>2 DEF ToSet
  <1>4. r.agent = sent.agent /\ r.prompt = sent.prompt
    BY DEF Taken, RequestFromHTTP
  <1>5. Registered(registry, r.agent)
    BY <1>2, <1>3, <1>4 DEF Registered, Ids, IdsOf, FirstOf
  <1>6. EntryOf(registry, r.agent) = agents[i]
    <2>1. PICK j : FirstOf(agents, j, r.agent) /\ EntryOf(registry, r.agent) = agents[j]
      BY <1>3, <1>5, EntryIsFirst
    <2>2. j \in 1..Len(agents) /\ Len(agents) \in Nat
      BY <1>3, <2>1 DEF FirstOf
    <2>3. ~(i < j) /\ ~(j < i)
      BY <1>2, <1>4, <2>1, <2>2 DEF FirstOf
    <2>4. QED
      BY <2>1, <2>2, <2>3
  <1> DEFINE entry == agents[i]
  <1> HIDE DEF agents, entry
  <1>7. CASE sent \in Wires /\ Acceptable(sent) /\ r = RequestFromHTTP(sent)
    <2>1. /\ sent.via = "proxy" /\ r.via = "proxy" /\ r.authentic = sent.authentic
          /\ r.model = sent.body.model /\ r.tools = ToolNames(sent.body)
          /\ r.input = screenable(sent.body)
      BY <1>7, GatewayAssumption DEF GatewayAssumption, RequestFromHTTP
    <2>2. ~BadToken(r) /\ Screen(r.input) = "allowed"
      BY <1>1, <2>1 DEF BadToken, Screen, screenable, Harmless
    <2>3. r.tools \subseteq entry.tools
      <3>1. \A e \in sent.body.tools : {e.function, e.name} \ {Unnamed} \subseteq entry.tools
        BY <1>2, <1>3, <2>1 DEF Blameless, FirstOf, entry, agents
      <3>2. \A e \in sent.body.tools : ToolName(e) # Unnamed => ToolName(e) \in entry.tools
        BY <3>1 DEF ToolName
      <3>3. \A name \in sent.body.functions : name # Unnamed => name \in entry.tools
        BY <1>2, <2>1 DEF Covered, entry
      <3>4. QED
        BY <2>1, <3>2, <3>3 DEF ToolNames
    <2>4. ModelVerdict(entry, r.model, TRUE) = "allowed"
      BY <1>2, <2>1 DEF Pins, ModelVerdict, entry
    <2>5. Decide(registry, r, TRUE) = "allowed"
      BY <1>2, <1>4, <1>5, <1>6, <2>3, <2>4 DEF Decide, entry
    <2>6. QED
      BY <2>1, <2>2, <2>5 DEF Gates
  <1>8. CASE sent \in Submissions /\ r = sent
    <2>1. r.via = "server"
      BY <1>8, GatewayAssumption DEF GatewayAssumption
    <2>2. ~BadToken(r) /\ Screen(r.input) = "allowed"
      BY <1>1, <1>8, <2>1 DEF BadToken, Screen, Harmless
    <2>3. r.tools \subseteq entry.tools /\ ModelVerdict(entry, r.model, FALSE) = "allowed"
      BY <1>2, <1>8, <2>1 DEF Covered, Pins, ModelVerdict, entry
    <2>4. Decide(registry, r, FALSE) = "allowed"
      BY <1>2, <1>4, <1>5, <1>6, <2>3 DEF Decide, entry
    <2>5. QED
      BY <2>1, <2>2, <2>4 DEF Gates
  <1>9. QED
    BY <1>7, <1>8 DEF Taken

LEMMA PaidReceived ==
    ASSUME GatewayTypeOK, NEW k, Begun(k)
    PROVE  Along(k) /\ Paid(k, FALSE)
  <1>0. registry \in Registries
    BY DEF GatewayTypeOK
  <1>1. CASE k = BadRequest
    BY <1>1 DEF BadRequest, Fresh, Along, Paid, Waiting, Early
  <1>2. ASSUME NEW sent, NEW r, Taken(sent, r), k = Received(sent, r)
        PROVE  Along(k) /\ Paid(k, FALSE)
    <2>1. /\ k.sent = sent /\ k.req = r /\ k.reg = registry /\ k.verdict = Gates(r)
          /\ k.reply = "none" /\ k.response = NoResponse
          /\ k.step = IF Gates(r) = "allowed" THEN "time" ELSE "log"
      BY <1>2 DEF Received, Fresh
    <2>2. Blameless(k) => Gates(r) = "allowed"
      BY <1>0, <1>2, <2>1, BlamelessPasses
    <2>3. QED
      BY <1>2, <2>1, <2>2 DEF Along, Paid, Early, Waiting
  <1>3. ASSUME NEW o \in Outputs, k = Posted(o) PROVE Along(k) /\ Paid(k, FALSE)
    <2>1. /\ k.step = "screen" /\ k.reply = "none" /\ k.response = Generated(o)
      BY <1>3, PostedType
    <2>2. Generated(o).content \in {"clean", "dirty"} /\ Generated(o) \in Answers
      BY GatewayAssumption DEF GatewayAssumption, Generated, Answers
    <2>3. ~Guarded => MayPass(Generated(o))
      BY <2>2 DEF MayPass, Screen
    <2>4. QED
      BY <2>1, <2>2, <2>3 DEF Along, Paid, Early, Waiting
  <1>4. QED
    BY <1>1, <1>2, <1>3 DEF Begun

(***************************************************************************)
(* A charge that is refused is of an agent with a limit, or has no cost    *)
(* that could be charged.                                                  *)
(***************************************************************************)
LEMMA TakenSame ==
    ASSUME NEW sent, NEW r, Taken(sent, r)
    PROVE  r.agent = sent.agent /\ r.cost = sent.cost
  BY DEF Taken, RequestFromHTTP

LEMMA RefusedBlame ==
    ASSUME NEW k, Taken(k.sent, k.req), NEW a, a = k.req.agent, a \in DOMAIN LimitOf, NEW w,
           Invalid(k.req.cost) \/ ~Fits(w, LimitOf[a], k.req.cost)
    PROVE  ~Blameless(k)
  <1> SUFFICES ASSUME Blameless(k) PROVE FALSE
    OBVIOUS
  <1>1. k.sent.agent = a /\ k.sent.cost = k.req.cost
    BY TakenSame
  <1>2. k.sent.cost >= 0 /\ LimitOf[a].requests = 0 /\ LimitOf[a].cost = 0
    BY <1>1 DEF Blameless, Uncapped, Metered
  <1>3. k.req.cost \in Int
    BY CostType DEF Taken, Asked
  <1>4. QED
    BY <1>1, <1>2, <1>3 DEF Invalid, Fits

LEMMA SameBlame ==
    ASSUME NEW k, NEW l, k.sent = l.sent, k.reg = l.reg
    PROVE  Blameless(k) = Blameless(l) /\ Metered(k) = Metered(l) /\ Admissible(k) = Admissible(l)
  BY DEF Blameless, Uncapped, Metered, Admissible

LEMMA AlongAfter ==
    ASSUME GatewayTypeOK, NEW c \in Calls, GoOn(c), Along(call[c])
    PROVE  Along(call'[c])
  <1> DEFINE o == call[c]
  <1>0. PICK k : k = call'[c]
    OBVIOUS
  <1>1. Same(k, o)
    BY <1>0, CallGoesOn
  <1>2. k.sent = o.sent /\ k.req = o.req
    BY <1>1 DEF Same
  <1>3. CASE ToCharge(c, k) \/ ToLog(c, k)
    <2>1. o.step \in {"time", "charge"} /\ k.step \in {"charge", "log"}
      BY <1>3 DEF ToCharge, ToLog, ReadClock, Unlimited, InvalidCost, Charge, At
    <2>2. k.response = o.response /\ k.reply = o.reply
      BY <1>3 DEF ToCharge, ToLog, Kept
    <2>3. QED
      BY <1>0, <1>2, <2>1, <2>2 DEF Along, Early
  <1>4. CASE FromLog(c, k)
    <2>1. Reply(c) \in {"unauthorized", "admitted", "denied"}
      BY DEF Reply
    <2>2. o.step = "log" /\ k.response = o.response
      BY <1>4 DEF FromLog, LogInput, At
    <2>3. \/ k.step = "upstream" /\ k.reply = o.reply
          \/ k.step = "done" /\ k.reply \in {"unauthorized", "admitted", "denied"}
      BY <1>4, <2>1 DEF FromLog
    <2>4. QED
      BY <1>0, <2>2, <2>3 DEF Along, Early
  <1>5. CASE Answered(c, k)
    <2>1. o.step = "upstream"
      BY <1>5 DEF Answered, Answer, At
    <2>2. QED
      BY <1>0, <1>5, <2>1 DEF Answered, Answers, Along, Early, Ended
  <1>6. CASE Closed(c, k)
    <2>1. k.step = "done" /\ k.reply \in {"response", "blocked", "cut"}
      BY <1>6 DEF Closed, Withheld
    <2>2. QED
      BY <1>0, <2>1 DEF Along, Early, Ended
  <1>7. QED
    BY <1>0, <1>3, <1>4, <1>5, <1>6, CallAfter

(***************************************************************************)
(* The charge of a call is the one step that draws, and draws exactly if   *)
(* the call may go on.                                                     *)
(***************************************************************************)
LEMMA ChargeDraws ==
    ASSUME GatewayTypeOK, NEW c \in Calls, Charge(c), Along(call[c])
    PROVE  /\ call[c].step = "charge" /\ call'[c].step = "log" /\ Metered(call[c])
           /\ \A d \in Calls : d # c => (Charged(d)' <=> Charged(d))
           /\ \/ Charged(c)' /\ call'[c].verdict = call[c].verdict
              \/ charges' = charges /\ call'[c].verdict = "budget" /\ ~Blameless(call[c])
  <1> DEFINE o == call[c]
             a == Req(c).agent
             w == Current(window[a], LimitOf[a], o.now)
  <1>1. o.step = "charge" /\ a \in DOMAIN LimitOf /\ call \in [Calls -> Call] /\ o \in Call
    BY DEF Charge, At, GatewayTypeOK
  <1>2. Taken(o.sent, o.req) /\ a = o.req.agent
    BY <1>1 DEF Along, Early, Req
  <1>3. Metered(o)
    BY <1>1, <1>2, TakenSame DEF Metered
  <1>4. CASE Fits(w, LimitOf[a], Req(c).cost)
    <2>1. PICK h : h = [call |-> c, at |-> clock, start |-> w.start, life |-> restarts]
      OBVIOUS
    <2>2. charges' = charges \cup {h} /\ call' = [call EXCEPT ![c].step = "log"]
      BY <1>4, <2>1 DEF Charge
    <2>3. h.call = c
      BY <2>1
    <2>4. Charged(c)' /\ \A d \in Calls : d # c => (Charged(d)' <=> Charged(d))
      BY <2>2, <2>3 DEF Charged
    <2>5. call'[c].verdict = o.verdict /\ call'[c].step = "log"
      BY <1>1, <2>2 DEF Call
    <2>6. QED
      BY <1>1, <1>3, <2>4, <2>5
  <1>5. CASE ~Fits(w, LimitOf[a], Req(c).cost)
    <2>1. /\ charges' = charges
          /\ call' = [call EXCEPT ![c].verdict = "budget", ![c].step = "log"]
      BY <1>5 DEF Charge
    <2>2. call'[c].verdict = "budget" /\ call'[c].step = "log"
      BY <1>1, <2>1 DEF Call
    <2>3. ~Blameless(o)
      BY <1>1, <1>2, <1>5, RefusedBlame DEF Req
    <2>4. QED
      BY <1>1, <1>3, <2>1, <2>2, <2>3 DEF Charged
  <1>6. QED
    BY <1>4, <1>5

LEMMA PaidAfter ==
    ASSUME GatewayTypeOK, NEW c \in Calls, GoOn(c), Along(call[c]), Paid(call[c], Charged(c))
    PROVE  Paid(call'[c], Charged(c)') /\ \A d \in Calls : d # c => (Charged(d)' <=> Charged(d))
  <1> DEFINE o == call[c]
  <1>0. PICK k : k = call'[c]
    OBVIOUS
  <1>1. /\ Same(k, o) /\ Blameless(k) = Blameless(o) /\ Metered(k) = Metered(o)
        /\ call \in [Calls -> Call] /\ o \in Call
    BY <1>0, CallGoesOn, SameBlame DEF GatewayTypeOK, Same
  <1>2. CASE Charge(c)
    <2>1. o.verdict = "allowed" /\ ~Charged(c)
      BY <1>2, ChargeDraws DEF Paid, Waiting
    <2>2. QED
      BY <1>0, <1>1, <1>2, <2>1, ChargeDraws DEF Paid, Waiting, Charged
  <1>3. CASE ~Charge(c)
    <2>1. charges' = charges
      BY <1>3 DEF GoOn, ReadClock, Unlimited, InvalidCost, LogInput, Answer, ScreenOutput
    <2>2. \A d \in Calls : Charged(d)' <=> Charged(d)
      BY <2>1 DEF Charged
    <2>3. CASE ReadClock(c)
      <3>1. o.step = "time" /\ k = [o EXCEPT !.now = clock, !.step = "charge"]
        BY <1>0, <1>1, <2>3 DEF ReadClock, At
      <3>2. k.step = "charge" /\ k.verdict = o.verdict
        BY <1>1, <3>1 DEF Call
      <3>3. QED
        BY <1>0, <2>2, <3>1, <3>2 DEF Paid, Waiting
    <2>4. CASE Unlimited(c) \/ InvalidCost(c)
      <3>1. o.step = "charge"
        BY <2>4 DEF Unlimited, InvalidCost, At
      <3>2. Taken(o.sent, o.req) /\ o.verdict = "allowed" /\ ~Charged(c)
        BY <3>1 DEF Along, Early, Paid, Waiting
      <3>3. CASE Unlimited(c)
        <4>1. k = [o EXCEPT !.step = "log"] /\ o.req.agent \notin DOMAIN LimitOf
          BY <1>0, <1>1, <3>3 DEF Unlimited, Req
        <4>2. k.step = "log" /\ k.verdict = o.verdict
          BY <1>1, <4>1 DEF Call
        <4>3. ~Metered(k)
          BY <1>1, <3>2, <4>1, TakenSame DEF Metered
        <4>4. QED
          BY <1>0, <2>2, <3>2, <4>2, <4>3 DEF Paid, Waiting
      <3>4. CASE InvalidCost(c)
        <4>1. /\ k = [o EXCEPT !.verdict = "invalid cost", !.step = "log"]
              /\ o.req.agent \in DOMAIN LimitOf /\ Invalid(o.req.cost)
          BY <1>0, <1>1, <3>4 DEF InvalidCost, Req
        <4>2. k.step = "log" /\ k.verdict = "invalid cost"
          BY <1>1, <4>1 DEF Call
        <4>3. ~Blameless(k)
          BY <1>1, <3>2, <4>1, RefusedBlame
        <4>4. QED
          BY <1>0, <2>2, <3>2, <4>2, <4>3 DEF Paid, Waiting
      <3>5. QED
        BY <2>4, <3>3, <3>4
    <2>5. CASE LogInput(c) \/ Answer(c) \/ ScreenOutput(c)
      <3>1. k.step \in {"upstream", "screen", "done"}
        <4>1. o.step \in {"log", "upstream", "screen"}
          BY <2>5 DEF LogInput, Answer, ScreenOutput, At
        <4>2. QED
          BY <1>0, <4>1, CallAfter
          DEF ToCharge, ToLog, FromLog, Answered, Closed, ReadClock, Unlimited,
              InvalidCost, Charge, At
      <3>2. QED
        BY <1>0, <2>2, <3>1 DEF Paid, Waiting
    <2>6. QED
      BY <1>3, <2>3, <2>4, <2>5 DEF GoOn
  <1>4. QED
    BY <1>2, <1>3

LEMMA PStep ==
    ASSUME GInv, PInv, [Next]_vars
    PROVE  PInv'
  <1>0. GatewayTypeOK /\ registry \in Registries /\ call \in [Calls -> Call]
    BY DEF GInv, GatewayTypeOK
  <1> SUFFICES ASSUME NEW c \in Calls
               PROVE  Along(call'[c]) /\ Paid(call'[c], Charged(c)')
    BY DEF PInv
  <1>1. Along(call[c]) /\ Paid(call[c], Charged(c))
    BY DEF PInv
  <1>2. CASE call'[c] = call[c] /\ (Charged(c)' <=> Charged(c))
    BY <1>1, <1>2 DEF Paid
  <1>3. CASE Restart
    <2>1. Charged(c)' <=> Charged(c)
      BY <1>3 DEF Restart, Charged
    <2>2. CASE call'[c] # call[c]
      <3>1. call'[c].step = "done" /\ call'[c].reply = "lost"
        BY <1>0, <1>3, <2>2, CallLost
      <3>2. QED
        BY <3>1 DEF Along, Paid, Early, Ended, Waiting
    <2>3. QED
      BY <1>2, <2>1, <2>2
  <1>4. ASSUME NEW d \in Calls, Receive(d)
        PROVE  Along(call'[c]) /\ Paid(call'[c], Charged(c)')
    <2>1. PICK k : call' = [call EXCEPT ![d] = k] /\ Begun(k)
      BY <1>4, ReceiveStep
    <2>2. Along(k) /\ Paid(k, FALSE)
      BY <1>0, <2>1, PaidReceived
    <2>3. Charged(c)' <=> Charged(c)
      BY <1>4, ReceiveStep DEF Charged
    <2>4. CASE c = d
      <3>1. call'[c] = k /\ ~Charged(c)
        BY <1>0, <1>1, <1>4, <2>1, <2>4, ReceiveStep DEF At, Paid, Waiting
      <3>2. QED
        BY <2>2, <2>3, <3>1 DEF Paid
    <2>5. CASE c # d
      BY <1>0, <1>2, <2>1, <2>3, <2>5
    <2>6. QED
      BY <2>4, <2>5
  <1>5. ASSUME NEW d \in Calls, GoOn(d)
        PROVE  Along(call'[c]) /\ Paid(call'[c], Charged(c)')
    <2>1. CASE c = d
      BY <1>0, <1>1, <1>5, <2>1, AlongAfter, PaidAfter
    <2>2. CASE c # d
      <3>1. Along(call[d]) /\ Paid(call[d], Charged(d))
        BY DEF PInv
      <3>2. QED
        BY <1>0, <1>2, <1>5, <2>2, <3>1, CallGoesOn, PaidAfter
    <2>3. QED
      BY <2>1, <2>2
  <1>6. CASE UNCHANGED vars \/ Tick
    BY <1>2, <1>6 DEF vars, Tick, Charged
  <1>7. QED
    BY <1>3, <1>4, <1>5, <1>6 DEF Next, Receive, GoOn

(***************************************************************************)
(* The stage of a call, by its step and its reply.                         *)
(***************************************************************************)
LEMMA StageOf ==
    ASSUME NEW k, Along(k)
    PROVE  /\ Early(k) => Stage(k) = "open"
           /\ k.step \in {"upstream", "screen"} \/ k.reply = "admitted" => Stage(k) = "running"
           /\ k.reply \in {"bad request", "unauthorized", "denied"} => Stage(k) = "refused"
           /\ k.reply = "response" => Stage(k) = "delivered"
           /\ k.reply \in {"blocked", "cut"} => Stage(k) = "withheld"
           /\ k.reply \in {"broken", "lost"} => Stage(k) = "lost"
  BY DEF Stage, Along, Early

(***************************************************************************)
(* The facts about a case are those of its call, and a call that was read  *)
(* has one.                                                                *)
(***************************************************************************)
LEMMA CaseOf ==
    ASSUME NEW k
    PROVE  /\ Blameless(Case(k)) = Blameless(k) /\ Metered(Case(k)) = Metered(k)
           /\ Admissible(Case(k)) = Admissible(k)
           /\ \A r : Taken(k.sent, r) => Case(k) # Case(Fresh)
  <1>1. Case(k).sent = k.sent /\ Case(k).reg = k.reg
    BY DEF Case
  <1>2. ASSUME NEW r, Taken(k.sent, r) PROVE Case(k) # Case(Fresh)
    <2>1. k.sent.via \in {"proxy", "server"}
      BY <1>2, GatewayAssumption DEF Taken, GatewayAssumption
    <2>2. Case(Fresh).sent.via = "none"
      BY DEF Case, Fresh, NoRequest
    <2>3. QED
      BY <1>1, <2>1, <2>2
  <1>3. QED
    BY <1>1, <1>2, SameBlame

(***************************************************************************)
(* What an interaction shows, as a record whose fields can be read and     *)
(* set, and the moves that are promised for such records.                  *)
(***************************************************************************)
Row(s, c, d, a) == [stage |-> s, case |-> c, drawn |-> d, answer |-> a]
Rows(S, C, D, A) == [stage : S, case : C, drawn : D, answer : A]

LEMMA RowRead ==
    ASSUME NEW s, NEW c, NEW d, NEW a, NEW row, row = Row(s, c, d, a)
    PROVE  row.stage = s /\ row.case = c /\ row.drawn = d /\ row.answer = a
  BY DEF Row

EndsAs(old, new, t, b) == new = [old EXCEPT !.stage = t, !.answer = b]

LEMMA RowEnd ==
    ASSUME NEW s, NEW c, NEW d, NEW a, NEW old, old = Row(s, c, d, a), NEW t, NEW b
    PROVE  EndsAs(old, Row(t, c, d, b), t, b)
  <1>1. old \in Rows({s, t}, {c}, {d}, {a, b})
    BY DEF Row, Rows
  <1>2. PICK new : new = [old EXCEPT !.stage = t, !.answer = b]
    OBVIOUS
  <1>3. new \in Rows({s, t}, {c}, {d}, {a, b})
    BY <1>1, <1>2 DEF Rows
  <1>4. new.stage = t /\ new.answer = b /\ new.case = c /\ new.drawn = d
    BY <1>1, <1>2 DEF Rows, Row
  <1>5. new = [stage |-> new.stage, case |-> new.case, drawn |-> new.drawn, answer |-> new.answer]
    BY <1>3 DEF Rows
  <1>6. new = Row(t, c, d, b)
    BY <1>4, <1>5 DEF Row
  <1>7. QED
    BY <1>2, <1>6 DEF EndsAs

Moves(old, new) == new = old \/ Promise!Step(old, new)
Unread == Case(Fresh)

LEMMA OpenMoves ==
    ASSUME NEW c, NEW a, NEW d \in BOOLEAN, ~d, NEW old, old = Row("open", c, d, a)
    PROVE  /\ c = Unread /\ a = NoResponse =>
                 \A e : ~IsOutput(e) => Moves(old, Row("open", e, d, a))
           /\ c = Unread \/ ~Blameless(c) => Moves(old, Row("refused", c, d, a))
           /\ c # Unread /\ Admissible(c) /\ Metered(c)
                 => \A f \in BOOLEAN : f => Moves(old, Row("open", c, f, a))
  <1>1. old.stage = "open" /\ old.case = c /\ old.drawn = d
    BY RowRead
  <1>2. ASSUME c = Unread, a = NoResponse, NEW e, ~IsOutput(e)
        PROVE  Moves(old, Row("open", e, d, a))
    <2>1. PICK new : new = Row("open", e, d, a)
      OBVIOUS
    <2>2. new.case = e /\ old = Promise!New
      BY <1>2, <2>1, RowRead DEF Row, Promise!New, Unread
    <2>3. new = [old EXCEPT !.case = new.case]
      BY <2>1, <2>2 DEF Row
    <2>4. QED
      BY <1>2, <2>1, <2>2, <2>3 DEF Moves, Promise!Step, Promise!Read, IsOutput
  <1>3. ASSUME c = Unread \/ ~Blameless(c) PROVE Moves(old, Row("refused", c, d, a))
    <2>1. PICK new : new = Row("refused", c, d, a)
      OBVIOUS
    <2>2. new = [old EXCEPT !.stage = "refused"]
      BY <2>1 DEF Row
    <2>3. Promise!Refuse(old, new)
      BY <1>1, <1>3, <2>2 DEF Promise!Refuse, Unread
    <2>4. QED
      BY <2>1, <2>3 DEF Moves, Promise!Step
  <1>4. ASSUME c # Unread, Admissible(c), Metered(c), NEW f \in BOOLEAN, f
        PROVE  Moves(old, Row("open", c, f, a))
    <2>1. PICK new : new = Row("open", c, f, a)
      OBVIOUS
    <2>2. new.drawn = f /\ new = [old EXCEPT !.drawn = f]
      BY <2>1, RowRead DEF Row
    <2>3. Promise!Draw(old, new)
      BY <1>1, <1>4, <2>2 DEF Promise!Draw, Promise!Open, Unread
    <2>4. QED
      BY <2>1, <2>3 DEF Moves, Promise!Step
  <1>5. QED
    BY <1>2, <1>3, <1>4

(***************************************************************************)
(* An output is presented with its answer.                                 *)
(***************************************************************************)
PresentedAs(old, new, t, e, b) == new = [old EXCEPT !.stage = t, !.case = e, !.answer = b]

LEMMA RowPresented ==
    ASSUME NEW s, NEW c, NEW d, NEW a, NEW old, old = Row(s, c, d, a), NEW t, NEW e, NEW b
    PROVE  PresentedAs(old, Row(t, e, d, b), t, e, b)
  <1>1. old \in Rows({s, t}, {c, e}, {d}, {a, b})
    BY DEF Row, Rows
  <1>2. PICK new : new = [old EXCEPT !.stage = t, !.case = e, !.answer = b]
    OBVIOUS
  <1>3. new \in Rows({s, t}, {c, e}, {d}, {a, b})
    BY <1>1, <1>2 DEF Rows
  <1>4. new.stage = t /\ new.answer = b /\ new.case = e /\ new.drawn = d
    BY <1>1, <1>2 DEF Rows, Row
  <1>5. new = [stage |-> new.stage, case |-> new.case, drawn |-> new.drawn, answer |-> new.answer]
    BY <1>3 DEF Rows
  <1>6. new = Row(t, e, d, b)
    BY <1>4, <1>5 DEF Row
  <1>7. QED
    BY <1>2, <1>6 DEF PresentedAs

LEMMA PresentMoves ==
    ASSUME NEW d \in BOOLEAN, ~d, NEW old, old = Row("open", Unread, d, NoResponse),
           NEW e, IsOutput(e), NEW b, b # NoResponse
    PROVE  Moves(old, Row("running", e, d, b))
  <1>1. PICK t, o, u, a : t = "running" /\ o = "open" /\ u = Unread /\ a = NoResponse
    OBVIOUS
  <1>2. PICK new : new = Row(t, e, d, b)
    OBVIOUS
  <1>3. new.case = e /\ new.answer = b
    BY <1>2, RowRead
  <1>4. old = Row(o, u, d, a)
    BY <1>1
  <1>5. PresentedAs(old, new, t, e, b)
    BY <1>2, <1>4, RowPresented
  <1>6. old = Promise!New
    BY DEF Row, Promise!New, Unread
  <1>7. Promise!Present(old, new)
    BY <1>1, <1>3, <1>5, <1>6 DEF PresentedAs, Promise!Present
  <1>8. QED
    BY <1>1, <1>2, <1>7 DEF Moves, Promise!Step

LEMMA PassMoves ==
    ASSUME NEW c, NEW d \in BOOLEAN, NEW a, c # Unread, Admissible(c), d <=> Metered(c)
    PROVE  Moves(Row("open", c, d, a), Row("running", c, d, a))
  <1>1. PICK old, new : old = Row("open", c, d, a) /\ new = Row("running", c, d, a)
    OBVIOUS
  <1>2. old.stage = "open" /\ old.case = c /\ old.drawn = d
    BY <1>1, RowRead
  <1>3. new = [old EXCEPT !.stage = "running"]
    BY <1>1 DEF Row
  <1>4. Promise!LetThrough(old, new)
    BY <1>2, <1>3 DEF Promise!LetThrough, Promise!Open, Unread
  <1>5. QED
    BY <1>1, <1>4 DEF Moves, Promise!Step

LEMMA AnswerMoves ==
    ASSUME NEW c, NEW d, NEW a, NEW b, a # NoResponse => b = a,
           NEW old, old = Row("running", c, d, a)
    PROVE  /\ Moves(old, Row("running", c, d, b))
           /\ b # NoResponse /\ Deliverable(b) => Moves(old, Row("delivered", c, d, b))
           /\ b = a /\ a # NoResponse /\ ~Deliverable(a) => Moves(old, Row("withheld", c, d, b))
  <1>1. old.stage = "running" /\ old.answer = a
    BY RowRead
  <1>2. Moves(old, Row("running", c, d, b))
    <2>1. PICK new : new = Row("running", c, d, b)
      OBVIOUS
    <2>2. new.answer = b /\ new = [old EXCEPT !.answer = b]
      BY <2>1, RowRead DEF Row
    <2>3. Promise!Answer(old, new)
      BY <1>1, <2>2 DEF Promise!Answer, Promise!Answered
    <2>4. QED
      BY <2>1, <2>3 DEF Moves, Promise!Step
  <1>3. ASSUME b # NoResponse, Deliverable(b) PROVE Moves(old, Row("delivered", c, d, b))
    <2>1. PICK new : new = Row("delivered", c, d, b)
      OBVIOUS
    <2>2. PICK t : t = "delivered"
      OBVIOUS
    <2>3. new = Row(t, c, d, b)
      BY <2>1, <2>2
    <2>4. EndsAs(old, new, t, b)
      BY <2>3, RowEnd
    <2>5. new.answer = b
      BY <2>1, RowRead
    <2>6. Promise!Deliver(old, new)
      BY <1>1, <1>3, <2>2, <2>4, <2>5 DEF EndsAs, Promise!Deliver, Promise!Answered
    <2>7. QED
      BY <2>1, <2>6 DEF Moves, Promise!Step
  <1>4. ASSUME b = a, a # NoResponse, ~Deliverable(a) PROVE Moves(old, Row("withheld", c, d, b))
    <2>1. PICK new : new = Row("withheld", c, d, b)
      OBVIOUS
    <2>2. new = [old EXCEPT !.stage = "withheld"]
      BY <1>4, <2>1 DEF Row
    <2>3. Promise!Withhold(old, new)
      BY <1>1, <1>4, <2>2 DEF Promise!Withhold
    <2>4. QED
      BY <2>1, <2>3 DEF Moves, Promise!Step
  <1>5. QED
    BY <1>2, <1>3, <1>4

LEMMA LossMoves ==
    ASSUME NEW s, NEW c, NEW d, NEW a, NEW b, a # NoResponse => b = a,
           (s = "open" /\ c # Unread) \/ s = "running"
    PROVE  Moves(Row(s, c, d, a), Row("lost", c, d, b))
  <1>1. PICK old, new : old = Row(s, c, d, a) /\ new = Row("lost", c, d, b)
    OBVIOUS
  <1>2. old.stage = s /\ old.case = c /\ old.answer = a /\ new.answer = b
    BY <1>1, RowRead
  <1>3. PICK t : t = "lost"
    OBVIOUS
  <1>4. old = Row(s, c, d, a) /\ new = Row(t, c, d, b)
    BY <1>1, <1>3
  <1>5. EndsAs(old, new, t, b)
    BY <1>4, RowEnd
  <1>6. Promise!Lose(old, new)
    BY <1>2, <1>3, <1>5 DEF EndsAs, Promise!Lose, Promise!Open, Promise!Answered, Unread
  <1>7. QED
    BY <1>1, <1>6 DEF Moves, Promise!Step

(***************************************************************************)
(* Every step of a call is such a move.                                    *)
(***************************************************************************)
Shown(k, drawn) == Row(Stage(k), Case(k), drawn, k.response)

LEMMA ReceiveMoves ==
    ASSUME GatewayTypeOK, NEW o, o = Fresh, NEW k, Begun(k), NEW d \in BOOLEAN, ~d
    PROVE  Moves(Shown(o, d), Shown(k, d))
  <1>1. Along(k)
    BY PaidReceived
  <1>2. Stage(o) = "open" /\ Case(o) = Unread /\ o.response = NoResponse
    BY DEF Fresh, Stage, Unread
  <1>3. PICK old : old = Shown(o, d) /\ old = Row("open", Unread, d, NoResponse)
    BY <1>2 DEF Shown
  <1>4. CASE k = BadRequest
    <2>1. k.reply = "bad request" /\ Case(k) = Unread /\ k.response = NoResponse
      BY <1>4 DEF BadRequest, Fresh, Case, Unread
    <2>2. Shown(k, d) = Row("refused", Unread, d, NoResponse)
      BY <1>1, <2>1, StageOf DEF Shown
    <2>3. QED
      BY <1>3, <2>2, OpenMoves
  <1>5. ASSUME NEW sent, NEW r, Taken(sent, r), k = Received(sent, r)
        PROVE  Moves(Shown(o, d), Shown(k, d))
    <2>1. Early(k) /\ k.response = NoResponse /\ k.sent = sent
      BY <1>5 DEF Received, Fresh, Early
    <2>2. PICK e : e = Case(k)
      OBVIOUS
    <2>3. Shown(k, d) = Row("open", e, d, NoResponse)
      BY <1>1, <2>1, <2>2, StageOf DEF Shown
    <2>4. ~IsOutput(e)
      BY <1>5, <2>1, <2>2, GatewayAssumption DEF IsOutput, Case, Taken, GatewayAssumption
    <2>5. QED
      BY <1>3, <2>3, <2>4, OpenMoves
  <1>6. ASSUME NEW output \in Outputs, k = Posted(output) PROVE Moves(Shown(o, d), Shown(k, d))
    <2>1. /\ k.step = "screen" /\ k.response = Generated(output) /\ k.sent = output
          /\ output.via = "output"
      BY <1>6, PostedType DEF Posted, Fresh
    <2>2. PICK e, b : e = Case(k) /\ b = k.response
      OBVIOUS
    <2>3. Shown(k, d) = Row("running", e, d, b)
      BY <1>1, <2>1, <2>2, StageOf DEF Shown
    <2>4. IsOutput(e) /\ b # NoResponse
      BY <2>1, <2>2, NoRequestSent DEF IsOutput, Case
    <2>5. QED
      BY <1>3, <2>3, <2>4, PresentMoves
  <1>7. QED
    BY <1>4, <1>5, <1>6 DEF Begun

LEMMA RestartMoves ==
    ASSUME NEW o, NEW k, o.step \in Steps, Along(o), Along(k), UnderWay(o), Same(k, o),
           k.response = o.response, k.reply = "lost", NEW d \in BOOLEAN
    PROVE  Moves(Shown(o, d), Shown(k, d))
  <1>1. Case(k) = Case(o) /\ Stage(k) = "lost"
    BY StageOf DEF Same, Case
  <1>2. \/ Stage(o) = "open" /\ Case(o) # Unread
        \/ Stage(o) = "running"
    <2>1. CASE Early(o)
      <3>1. Taken(o.sent, o.req)
        BY <2>1 DEF Along, UnderWay
      <3>2. QED
        BY <2>1, <3>1, CaseOf, StageOf DEF Unread
    <2>2. CASE ~Early(o)
      <3>1. o.step \in {"upstream", "screen"}
        BY <2>2 DEF Steps, Early, UnderWay
      <3>2. QED
        BY <3>1, StageOf
    <2>3. QED
      BY <2>1, <2>2
  <1>3. PICK s, c, a : s = Stage(o) /\ c = Case(o) /\ a = o.response
    OBVIOUS
  <1>4. Shown(o, d) = Row(s, c, d, a) /\ Shown(k, d) = Row("lost", c, d, a)
    BY <1>1, <1>3 DEF Shown
  <1>5. QED
    BY <1>2, <1>3, <1>4, LossMoves

(***************************************************************************)
(* Up to the log a call is open, and only its charge shows.                *)
(***************************************************************************)
LEMMA EarlyMoves ==
    ASSUME NEW o, NEW k, Along(o), Along(k), Same(k, o), k.response = o.response,
           o.step \in {"time", "charge"}, k.step \in {"charge", "log"},
           Admissible(o), NEW d \in BOOLEAN, NEW e \in BOOLEAN,
           e = d \/ (~d /\ e /\ Metered(o))
    PROVE  Moves(Shown(o, d), Shown(k, e))
  <1>1. Early(o) /\ Early(k) /\ Case(k) = Case(o)
    BY DEF Early, Same, Case
  <1>2. PICK c, a : c = Case(o) /\ a = o.response
    OBVIOUS
  <1>3. PICK old : old = Shown(o, d) /\ old = Row("open", c, d, a)
    BY <1>1, <1>2, StageOf DEF Shown
  <1>4. Shown(k, e) = Row("open", c, e, a)
    BY <1>1, <1>2, StageOf DEF Shown
  <1>5. CASE e = d
    BY <1>3, <1>4, <1>5 DEF Moves
  <1>6. CASE ~d /\ e /\ Metered(o)
    <2>1. Taken(o.sent, o.req)
      BY <1>1 DEF Along
    <2>2. c # Unread /\ Admissible(c) /\ Metered(c)
      BY <1>2, <1>6, <2>1, CaseOf DEF Unread
    <2>3. QED
      BY <1>3, <1>4, <1>6, <2>2, OpenMoves
  <1>7. QED
    BY <1>5, <1>6

(***************************************************************************)
(* The line is written and the call goes on, or is told.                   *)
(***************************************************************************)
LEMMA LogMoves ==
    ASSUME NEW c \in Calls, NEW k, NEW o, o = call[c], Along(o), Along(k), Same(k, o),
           FromLog(c, k), NEW d \in BOOLEAN, Paid(o, d), o.verdict = "allowed" => Admissible(o)
    PROVE  Moves(Shown(o, d), Shown(k, d))
  <1>1. o.step = "log" /\ k.response = o.response /\ Case(k) = Case(o)
    BY DEF FromLog, LogInput, At, Same, Case
  <1>2. Early(o) /\ Taken(o.sent, o.req)
    BY <1>1 DEF Early, Along
  <1>3. PICK case, a : case = Case(o) /\ a = o.response
    OBVIOUS
  <1>4. PICK old : old = Shown(o, d) /\ old = Row("open", case, d, a)
    BY <1>2, <1>3, StageOf DEF Shown
  <1>5. case # Unread
    BY <1>2, <1>3, CaseOf DEF Unread
  <1>6. CASE o.verdict = "allowed"
    <2>1. k.step = "upstream" \/ k.reply = "admitted"
      BY <1>6 DEF FromLog, Forwarded, Reply
    <2>2. Shown(k, d) = Row("running", case, d, a)
      BY <1>1, <1>3, <2>1, StageOf DEF Shown
    <2>3. Admissible(case) /\ (d <=> Metered(case))
      BY <1>1, <1>3, <1>6, CaseOf DEF Paid
    <2>4. QED
      BY <1>4, <1>5, <2>2, <2>3, PassMoves
  <1>7. CASE o.verdict # "allowed"
    <2>1. k.reply \in {"unauthorized", "denied"}
      BY <1>7 DEF FromLog, Forwarded, Reply
    <2>2. Shown(k, d) = Row("refused", case, d, a)
      BY <1>1, <1>3, <2>1, StageOf DEF Shown
    <2>3. ~d /\ ~Blameless(case)
      BY <1>1, <1>3, <1>7, CaseOf DEF Paid
    <2>4. QED
      BY <1>4, <2>2, <2>3, OpenMoves
  <1>8. QED
    BY <1>6, <1>7

(***************************************************************************)
(* What comes back is screened, and given to the agent or withheld.        *)
(***************************************************************************)
LEMMA ResponseMoves ==
    ASSUME NEW c \in Calls, NEW k, NEW o, o = call[c], Along(o), Along(k), Same(k, o),
           Answered(c, k) \/ Closed(c, k), NEW d
    PROVE  Moves(Shown(o, d), Shown(k, d))
  <1>1. Case(k) = Case(o)
    BY DEF Same, Case
  <1>2. Stage(o) = "running"
    <2>1. o.step \in {"upstream", "screen"}
      BY DEF Answered, Closed, Answer, ScreenOutput, At
    <2>2. QED
      BY <2>1, StageOf
  <1>3. PICK case, a, b : case = Case(o) /\ a = o.response /\ b = k.response
    OBVIOUS
  <1>4. PICK old : old = Shown(o, d) /\ old = Row("running", case, d, a)
    BY <1>2, <1>3 DEF Shown
  <1>5. Shown(k, d) = Row(Stage(k), case, d, b)
    BY <1>1, <1>3 DEF Shown
  <1>6. CASE Answered(c, k)
    <2>1. a = NoResponse /\ b # NoResponse
      BY <1>3, <1>6, NoRequestSent DEF Answered, Answer, At, Along
    <2>2. CASE k.reply = "broken"
      <3>1. Stage(k) = "lost"
        BY <2>2, StageOf
      <3>2. QED
        BY <1>4, <1>5, <2>1, <3>1, LossMoves
    <2>3. CASE k.step = "screen"
      <3>1. Stage(k) = "running"
        BY <2>3, StageOf
      <3>2. QED
        BY <1>4, <1>5, <2>1, <3>1, AnswerMoves
    <2>4. CASE ~Guarded /\ k.reply = "response" /\ k.response.content # "broken"
      <3>1. Stage(k) = "delivered"
        BY <2>4, StageOf
      <3>2. Deliverable(b)
        BY <1>3, <2>4 DEF Deliverable
      <3>3. QED
        BY <1>4, <1>5, <2>1, <3>1, <3>2, AnswerMoves
    <2>5. QED
      BY <1>6, <2>2, <2>3, <2>4 DEF Answered
  <1>7. CASE Closed(c, k)
    <2>1. /\ o.step = "screen" /\ a = b /\ b \in Answers /\ b.content # "broken"
          /\ ~Guarded => MayPass(b)
      BY <1>3, <1>7 DEF Closed, ScreenOutput, At, Along
    <2>2. b # NoResponse /\ b.content \in {"clean", "dirty", "oversize", "broken"}
      BY <2>1, NoRequestSent, GatewayAssumption DEF GatewayAssumption, Answers, Generated
    <2>3. MayPass(b) <=> Deliverable(b)
      BY <2>1, <2>2 DEF MayPass, Deliverable, Screen
    <2>4. CASE MayPass(b)
      <3>1. Stage(k) = "delivered"
        BY <1>3, <1>7, <2>4, StageOf DEF Closed
      <3>2. QED
        BY <1>4, <1>5, <2>1, <2>2, <2>3, <2>4, <3>1, AnswerMoves
    <2>5. CASE ~MayPass(b)
      <3>1. Stage(k) = "withheld"
        BY <1>3, <1>7, <2>5, StageOf DEF Closed, Withheld
      <3>2. QED
        BY <1>4, <1>5, <2>1, <2>2, <2>3, <2>5, <3>1, AnswerMoves
    <2>6. QED
      BY <2>4, <2>5
  <1>8. QED
    BY <1>6, <1>7

LEMMA GoOnMoves ==
    ASSUME GInv, PInv, PInv', NEW c \in Calls, GoOn(c)
    PROVE  Moves(Shown(call[c], Charged(c)), Shown(call'[c], Charged(c)'))
  <1> DEFINE o == call[c]
             k == call'[c]
  <1>1. GatewayTypeOK /\ Along(o) /\ Along(k) /\ Paid(o, Charged(c)) /\ Same(k, o)
    BY CallGoesOn DEF GInv, PInv
  <1>2. PICK d \in BOOLEAN : d <=> Charged(c)
    OBVIOUS
  <1>3. PICK e \in BOOLEAN : e <=> Charged(c)'
    OBVIOUS
  <1>4. Charged(c) = d /\ Charged(c)' = e
    BY <1>2, <1>3 DEF Charged
  <1>5. /\ Beyond(o) => Admissible(o)
        /\ o.step \in {"time", "charge", "log"} => o.req.via # "output"
    BY <1>1, NoRequestSent DEF GInv, GateInv, Passed, Along, Early
  <1>6. Paid(o, d)
    BY <1>1, <1>2 DEF Paid
  <1>7. ~Charge(c) => e = d
    <2>1. ~Charge(c) => charges' = charges
      BY DEF GoOn, ReadClock, Unlimited, InvalidCost, LogInput, Answer, ScreenOutput
    <2>2. QED
      BY <1>2, <1>3, <2>1 DEF Charged
  <1>8. Moves(Shown(o, d), Shown(k, e))
    <2>1. CASE ToCharge(c, k) \/ ToLog(c, k)
      <3>1. o.step \in {"time", "charge"} /\ k.step \in {"charge", "log"}
        BY <2>1 DEF ToCharge, ToLog, ReadClock, Unlimited, InvalidCost, Charge, At
      <3>2. k.response = o.response
        BY <2>1 DEF ToCharge, ToLog, Kept
      <3>3. Admissible(o)
        BY <1>5, <3>1 DEF Beyond
      <3>4. e = d \/ (~d /\ e /\ Metered(o))
        <4>1. CASE Charge(c)
          <5>1. ~d /\ Metered(o)
            BY <1>1, <1>6, <4>1, ChargeDraws DEF Paid, Waiting
          <5>2. QED
            BY <5>1
        <4>2. QED
          BY <1>7, <4>1
      <3>5. QED
        BY <1>1, <3>1, <3>2, <3>3, <3>4, EarlyMoves
    <2>2. CASE FromLog(c, k)
      <3>1. o.step = "log" /\ ~Charge(c)
        BY <2>2 DEF FromLog, LogInput, Charge, At
      <3>2. o.verdict = "allowed" => Admissible(o)
        BY <1>5, <3>1 DEF Beyond
      <3>3. e = d
        BY <1>7, <3>1
      <3>4. Moves(Shown(o, d), Shown(k, d))
        BY <1>1, <1>6, <2>2, <3>2, LogMoves
      <3>5. QED
        BY <3>3, <3>4
    <2>3. CASE Answered(c, k) \/ Closed(c, k)
      <3>1. ~Charge(c)
        BY <2>3 DEF Answered, Closed, Answer, ScreenOutput, Charge, At
      <3>2. e = d
        BY <1>7, <3>1
      <3>3. Moves(Shown(o, d), Shown(k, d))
        BY <1>1, <2>3, ResponseMoves
      <3>4. QED
        BY <3>2, <3>3
    <2>4. QED
      BY <1>1, <2>1, <2>2, <2>3, CallAfter
  <1>9. QED
    BY <1>4, <1>8

LEMMA PromiseStep ==
    ASSUME GInv, PInv, PInv', [Next]_vars, NEW c \in Calls
    PROVE  Moves(Progress(c), Progress(c)')
  <1>0. GatewayTypeOK /\ registry \in Registries /\ call \in [Calls -> Call]
    BY DEF GInv, GatewayTypeOK
  <1>1. Progress(c) = Shown(call[c], Charged(c)) /\ Progress(c)' = Shown(call'[c], Charged(c)')
    BY DEF Progress, Shown, Row, Drawn, Charged
  <1> SUFFICES Moves(Shown(call[c], Charged(c)), Shown(call'[c], Charged(c)'))
    BY <1>1
  <1>2. Along(call[c]) /\ Along(call'[c]) /\ Paid(call[c], Charged(c))
    BY DEF PInv
  <1>3. charges' = charges => Charged(c)' = Charged(c)
    BY DEF Charged
  <1>4. CASE call'[c] = call[c] /\ Charged(c)' = Charged(c)
    BY <1>4 DEF Moves
  <1>5. PICK d \in BOOLEAN : d = Charged(c)
    BY DEF Charged
  <1>6. CASE UNCHANGED vars \/ Tick
    BY <1>3, <1>4, <1>6 DEF vars, Tick
  <1>7. CASE Restart
    <2>1. Charged(c)' = Charged(c)
      BY <1>3, <1>7 DEF Restart
    <2>2. CASE call'[c] # call[c]
      <3>1. /\ Same(call'[c], call[c]) /\ call'[c].response = call[c].response
            /\ call'[c].reply = "lost" /\ UnderWay(call[c])
        BY <1>0, <1>7, <2>2, CallLost
      <3>2. call[c].step \in Steps
        BY <1>0, CallForm
      <3>3. Moves(Shown(call[c], d), Shown(call'[c], d))
        BY <1>2, <3>1, <3>2, RestartMoves
      <3>4. QED
        BY <1>5, <2>1, <3>3
    <2>3. QED
      BY <1>4, <2>1, <2>2
  <1>8. ASSUME NEW b \in Calls, Receive(b)
        PROVE  Moves(Shown(call[c], Charged(c)), Shown(call'[c], Charged(c)'))
    <2>1. PICK k : call' = [call EXCEPT ![b] = k] /\ Begun(k)
      BY <1>8, ReceiveStep
    <2>2. Charged(c)' = Charged(c) /\ At(b, "idle")
      BY <1>3, <1>8, ReceiveStep
    <2>3. CASE c = b
      <3>1. call[c] = Fresh /\ call'[c] = k /\ ~d
        BY <1>0, <1>2, <1>5, <2>1, <2>2, <2>3 DEF Along, Paid, Waiting, At
      <3>2. Moves(Shown(call[c], d), Shown(k, d))
        BY <1>0, <2>1, <3>1, ReceiveMoves
      <3>3. QED
        BY <1>5, <2>2, <3>1, <3>2
    <2>4. CASE c # b
      BY <1>0, <1>4, <2>1, <2>2, <2>4
    <2>5. QED
      BY <2>3, <2>4
  <1>9. ASSUME NEW b \in Calls, GoOn(b)
        PROVE  Moves(Shown(call[c], Charged(c)), Shown(call'[c], Charged(c)'))
    <2>1. CASE c = b
      BY <1>9, <2>1, GoOnMoves
    <2>2. CASE c # b
      <3>1. Along(call[b]) /\ Paid(call[b], Charged(b))
        BY DEF PInv
      <3>2. call'[c] = call[c] /\ (Charged(c)' <=> Charged(c))
        BY <1>0, <1>9, <2>2, <3>1, CallGoesOn, PaidAfter
      <3>3. QED
        BY <1>4, <3>2 DEF Charged
    <2>3. QED
      BY <2>1, <2>2
  <1>10. QED
    BY <1>6, <1>7, <1>8, <1>9 DEF Next, Receive, GoOn

Board == [c \in Calls |-> Progress(c)]

(***************************************************************************)
(* Whatever else is under way, and whatever the registries, limits,        *)
(* requests, answers, kills and faults, each interaction is drawn for once *)
(* and only to be let through, refused or withheld for a reason only, and  *)
(* has one end.                                                            *)
(***************************************************************************)
THEOREM PromiseKept == Spec => ImplementsInteraction
  <1>1. Init => PInv
    BY InitPInv
  <1>2. GInv /\ PInv /\ [Next]_vars => PInv'
    BY PStep
  <1>3. Init => Promise!Init
    <2> SUFFICES ASSUME Init, NEW c \in Calls PROVE Progress(c) = Promise!New
      BY DEF Promise!Init
    <2>1. call[c] = Fresh /\ Drawn(c) = FALSE
      BY DEF Init, Drawn
    <2>2. Stage(Fresh) = "open" /\ Fresh.response = NoResponse
      BY DEF Stage, Fresh
    <2>3. QED
      BY <2>1, <2>2 DEF Progress, Promise!New
  <1>4. GInv /\ PInv /\ PInv' /\ [Next]_vars => [Promise!Next]_Board
    <2> SUFFICES ASSUME GInv, PInv, PInv', [Next]_vars PROVE Promise!Next
      OBVIOUS
    <2>1. \A c \in Calls : Moves(Progress(c), Progress(c)')
      BY PromiseStep
    <2>2. QED
      BY <2>1 DEF Promise!Next, Moves
  <1>5. QED
    BY <1>1, <1>2, <1>3, <1>4, GatewayInductive, PTL
    DEF Spec, ImplementsInteraction, Promise!Spec, Board
=============================================================================
