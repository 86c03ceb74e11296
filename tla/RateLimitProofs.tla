--------------------------- MODULE RateLimitProofs ---------------------------
(***************************************************************************)
(* Any number of workers and addresses, any limit and any period.  The     *)
(* request that opened the running window is the last of its requests in   *)
(* the log and as old as the window; everything let through before it is   *)
(* of one earlier window, at most Limit requests, of which the one that    *)
(* opened it is a period old by now.  So 2 * Limit requests in a row span  *)
(* a period at least.                                                      *)
(***************************************************************************)
EXTENDS RateLimit, TLAPS

\* The requests of the running window that were let through.
Through(c) == IF hits[c] > Limit THEN Limit ELSE hits[c]

Ordered(c) == \A m, n \in Recent : m <= n => served[c][m] <= served[c][n]

WindowOK(c) ==
    /\ hits[c] = 0 <=> expires[c] = 0
    /\ expires[c] = 0 => served[c][Limit] = Period
    /\ expires[c] # 0 => /\ served[c][Through(c)] = Period - expires[c]
                         /\ served[c][Through(c) + Limit] = Period

IInv == TypeOK /\ \A c \in Counters : Ordered(c) /\ WindowOK(c)

----------------------------------------------------------------------------

\* What is read of the state of one counter.
LEMMA CounterType ==
    ASSUME TypeOK, NEW c \in Counters
    PROVE  /\ hits[c] \in 0 .. Limit + 1
           /\ expires[c] \in 0 .. Period
           /\ served[c] \in [Recent -> 0 .. Period]
BY DEF TypeOK

LEMMA Positions ==
    /\ Limit \in Nat \ {0} /\ Period \in Nat \ {0}
    /\ Limit \in Recent /\ 2 * Limit \in Recent /\ 1 \in Recent
    /\ \A n \in Recent : n \in Nat /\ n >= 1 /\ n <= 2 * Limit
    /\ \A n \in Recent : n # 1 => n - 1 \in Recent
    /\ \A n \in 1 .. Limit : n \in Recent /\ n + Limit \in Recent
BY RateLimitAssumption DEF Recent

\* The log after a request is let through, and after a tick.
LEMMA LatestLog ==
    ASSUME NEW ages \in [Recent -> 0 .. Period],
           \A m, n \in Recent : m <= n => ages[m] <= ages[n]
    PROVE  /\ Latest(ages) \in [Recent -> 0 .. Period]
           /\ Latest(ages)[1] = 0
           /\ \A n \in Recent : n # 1 => Latest(ages)[n] = ages[n - 1]
           /\ \A m, n \in Recent : m <= n => Latest(ages)[m] <= Latest(ages)[n]
<1>1. \A n \in Recent : n # 1 => n - 1 \in Recent
  BY Positions
<1>2. \A n \in Recent : Latest(ages)[n] = IF n = 1 THEN 0 ELSE ages[n - 1]
  BY DEF Latest
<1>3. \A n \in Recent : n # 1 => Latest(ages)[n] = ages[n - 1] /\ ages[n - 1] \in 0 .. Period
  BY <1>1, <1>2
<1>4. Latest(ages) \in [Recent -> 0 .. Period]
  BY <1>1, Positions DEF Latest
<1>5. ASSUME NEW m \in Recent, NEW n \in Recent, m <= n
      PROVE  Latest(ages)[m] <= Latest(ages)[n]
  <2>1. CASE m = 1
    BY <1>2, <1>4, <2>1, Positions
  <2>2. CASE m # 1
    <3>1. n # 1 /\ m - 1 \in Recent /\ n - 1 \in Recent /\ m - 1 <= n - 1
      BY <1>1, <1>5, <2>2, Positions
    <3> QED  BY <1>3, <2>2, <3>1
  <2> QED  BY <2>1, <2>2
<1> QED  BY <1>2, <1>3, <1>4, <1>5, Positions

LEMMA OlderAges ==
    /\ \A a \in 0 .. Period : Older(a) \in 0 .. Period
    /\ \A a, b \in 0 .. Period : a <= b => Older(a) <= Older(b)
    /\ \A a \in 0 .. Period : a # Period => Older(a) = a + 1
    /\ Older(Period) = Period
BY RateLimitAssumption DEF Older

----------------------------------------------------------------------------

LEMMA InitInvariant == Init => IInv
<1>1. SUFFICES ASSUME Init PROVE IInv
  OBVIOUS
<1>2. \A c \in Counters : hits[c] = 0 /\ expires[c] = 0 /\ \A n \in Recent : served[c][n] = Period
  BY <1>1 DEF Init
<1>3. TypeOK
  BY <1>1, Positions DEF Init, TypeOK
<1>4. ASSUME NEW c \in Counters
      PROVE  Ordered(c) /\ WindowOK(c)
  BY <1>2, Positions DEF Ordered, WindowOK
<1> QED  BY <1>3, <1>4 DEF IInv

\* A step leaves the other counters alone, or acts on each of them alike; what it
\* does to one of them keeps that one in order.
LEMMA HitStep ==
    ASSUME IInv, NEW c \in Counters, Hit(c)
    PROVE  IInv'
<1> DEFINE ticks == IF expires[c] = 0 THEN Period ELSE expires[c]
<1>1. /\ TypeOK /\ Ordered(c) /\ WindowOK(c)
      /\ hits[c] \in 0 .. Limit + 1 /\ expires[c] \in 0 .. Period
      /\ served[c] \in [Recent -> 0 .. Period]
  BY CounterType DEF IInv
<1>2. /\ hits' = [hits EXCEPT ![c] = Capped(hits[c] + 1)]
      /\ expires' = [expires EXCEPT ![c] = ticks]
      /\ served' = [served EXCEPT ![c] = IF hits[c] < Limit THEN Latest(served[c]) ELSE served[c]]
  BY DEF Hit, Admit
<1>3. /\ hits'[c] = Capped(hits[c] + 1) /\ expires'[c] = ticks
      /\ served'[c] = IF hits[c] < Limit THEN Latest(served[c]) ELSE served[c]
  BY <1>1, <1>2 DEF TypeOK
<1>4. Capped(hits[c] + 1) \in 0 .. Limit + 1 /\ Capped(hits[c] + 1) # 0
  BY <1>1, Positions DEF Capped
<1>5. ticks \in 0 .. Period /\ ticks # 0
  BY <1>1, Positions
<1> HIDE DEF ticks
<1>6. /\ Latest(served[c]) \in [Recent -> 0 .. Period]
      /\ Latest(served[c])[1] = 0
      /\ \A n \in Recent : n # 1 => Latest(served[c])[n] = served[c][n - 1]
      /\ \A m, n \in Recent : m <= n => Latest(served[c])[m] <= Latest(served[c])[n]
  BY <1>1, LatestLog DEF Ordered
<1>7. TypeOK'
  BY <1>1, <1>2, <1>4, <1>5, <1>6 DEF TypeOK
<1>8. Ordered(c)'
  BY <1>1, <1>3, <1>6 DEF Ordered
<1>9. WindowOK(c)'
  <2>1. CASE expires[c] = 0
    <3>1. hits[c] = 0 /\ served[c][Limit] = Period /\ ticks = Period
      BY <1>1, <2>1 DEF WindowOK, ticks
    <3>2. hits'[c] = 1 /\ Through(c)' = 1 /\ served'[c] = Latest(served[c])
      BY <1>3, <3>1, Positions DEF Capped, Through
    <3>3. Limit + 1 \in Recent /\ Limit + 1 # 1 /\ (Limit + 1) - 1 = Limit
      BY Positions
    <3>4. served'[c][1] = 0 /\ served'[c][Limit + 1] = Period
      BY <1>6, <3>1, <3>2, <3>3
    <3> QED  BY <1>3, <1>5, <3>1, <3>2, <3>4, Positions DEF WindowOK
  <2>2. CASE expires[c] # 0 /\ hits[c] < Limit
    <3>1. /\ hits[c] # 0 /\ Through(c) = hits[c] /\ ticks = expires[c]
          /\ served[c][hits[c]] = Period - expires[c] /\ served[c][hits[c] + Limit] = Period
      BY <1>1, <2>2, Positions DEF WindowOK, ticks, Through
    <3>2. hits'[c] = hits[c] + 1 /\ Through(c)' = hits[c] + 1 /\ served'[c] = Latest(served[c])
      BY <1>1, <1>3, <2>2, Positions DEF Capped, Through
    <3>3. /\ hits[c] + 1 \in Recent /\ hits[c] + 1 # 1 /\ (hits[c] + 1) - 1 = hits[c]
          /\ hits[c] + 1 + Limit \in Recent /\ hits[c] + 1 + Limit # 1
          /\ (hits[c] + 1 + Limit) - 1 = hits[c] + Limit
      <4>1. hits[c] \in Nat /\ hits[c] >= 1 /\ hits[c] < Limit /\ Limit \in Nat
        BY <1>1, <2>2, <3>1, Positions
      <4> QED  BY <4>1 DEF Recent
    <3>4. /\ served'[c][hits[c] + 1] = Period - expires[c]
          /\ served'[c][hits[c] + 1 + Limit] = Period
      BY <1>6, <3>1, <3>2, <3>3
    <3> QED  BY <1>3, <1>4, <1>5, <3>1, <3>2, <3>4 DEF WindowOK
  <2>3. CASE expires[c] # 0 /\ ~(hits[c] < Limit)
    <3>1. Through(c) = Limit /\ Through(c)' = Limit /\ ticks = expires[c]
      BY <1>1, <1>3, <2>3, Positions DEF Capped, Through, ticks
    <3> QED  BY <1>1, <1>3, <1>4, <1>5, <2>3, <3>1 DEF WindowOK
  <2> QED  BY <2>1, <2>2, <2>3
<1>10. ASSUME NEW d \in Counters, d # c
       PROVE  Ordered(d)' /\ WindowOK(d)'
  <2>1. hits'[d] = hits[d] /\ expires'[d] = expires[d] /\ served'[d] = served[d]
    BY <1>1, <1>2, <1>10 DEF TypeOK
  <2>2. Ordered(d) /\ WindowOK(d)
    BY DEF IInv
  <2> QED  BY <2>1, <2>2 DEF Ordered, WindowOK, Through
<1> QED  BY <1>7, <1>8, <1>9, <1>10 DEF IInv

LEMMA TickStep ==
    ASSUME IInv, Tick
    PROVE  IInv'
<1>1. TypeOK'
  BY CounterType, OlderAges, Positions DEF IInv, Tick, TypeOK
<1>2. ASSUME NEW c \in Counters
      PROVE  Ordered(c)' /\ WindowOK(c)'
  <2>1. /\ Ordered(c) /\ WindowOK(c)
        /\ hits[c] \in 0 .. Limit + 1 /\ expires[c] \in 0 .. Period
        /\ served[c] \in [Recent -> 0 .. Period]
    BY CounterType DEF IInv
  <2>2. /\ expires'[c] = IF expires[c] = 0 THEN 0 ELSE expires[c] - 1
        /\ hits'[c] = IF expires[c] <= 1 THEN 0 ELSE hits[c]
        /\ \A n \in Recent : served'[c][n] = Older(served[c][n]) /\ served[c][n] \in 0 .. Period
    BY <2>1 DEF Tick
  <2>3. Ordered(c)'
    BY <2>1, <2>2, OlderAges DEF Ordered
  <2>4. WindowOK(c)'
    <3>1. CASE expires[c] = 0
      BY <2>1, <2>2, <3>1, OlderAges, Positions DEF WindowOK
    <3>2. CASE expires[c] # 0
      <4>1. /\ hits[c] # 0 /\ Through(c) \in 1 .. Limit
            /\ served[c][Through(c)] = Period - expires[c]
            /\ served[c][Through(c) + Limit] = Period
        BY <2>1, <3>2, Positions DEF WindowOK, Through
      <4>2. Through(c) \in Recent /\ Through(c) + Limit \in Recent /\ Through(c) <= Limit
        BY <4>1, Positions
      <4>3. /\ served'[c][Through(c)] = (Period - expires[c]) + 1
            /\ served'[c][Through(c) + Limit] = Period
        BY <2>1, <2>2, <3>2, <4>1, <4>2, OlderAges, Positions
      <4>4. CASE expires[c] = 1
        <5>1. expires'[c] = 0 /\ hits'[c] = 0 /\ served'[c][Through(c)] = Period
          BY <2>2, <4>3, <4>4, Positions
        <5>2. served'[c][Through(c)] <= served'[c][Limit]
          BY <2>3, <4>2, Positions DEF Ordered
        <5>3. served'[c][Limit] \in 0 .. Period
          BY <2>2, OlderAges, Positions
        <5> QED  BY <5>1, <5>2, <5>3, Positions DEF WindowOK
      <4>5. CASE expires[c] # 1
        <5>1. /\ expires'[c] = expires[c] - 1 /\ expires'[c] # 0 /\ hits'[c] = hits[c]
              /\ Through(c)' = Through(c)
          BY <2>1, <2>2, <3>2, <4>5 DEF Through
        <5> QED  BY <2>1, <4>1, <4>3, <5>1, Positions DEF WindowOK
      <4> QED  BY <4>4, <4>5
    <3> QED  BY <3>1, <3>2
  <2> QED  BY <2>3, <2>4
<1> QED  BY <1>1, <1>2 DEF IInv

LEMMA RestartStep ==
    ASSUME IInv, NEW w \in Workers, Restart(w)
    PROVE  IInv'
<1>1. TypeOK'
  BY CounterType, Positions DEF IInv, Restart, TypeOK
<1>2. ASSUME NEW c \in Counters
      PROVE  Ordered(c)' /\ WindowOK(c)'
  <2>1. CASE c[1] = w
    <3>1. hits'[c] = 0 /\ expires'[c] = 0 /\ \A n \in Recent : served'[c][n] = Period
      BY <2>1 DEF Restart
    <3> QED  BY <3>1, Positions DEF Ordered, WindowOK
  <2>2. CASE c[1] # w
    <3>1. hits'[c] = hits[c] /\ expires'[c] = expires[c] /\ served'[c] = served[c]
      BY <2>2 DEF Restart
    <3> QED  BY <3>1 DEF IInv, Ordered, WindowOK, Through
  <2> QED  BY <2>1, <2>2
<1> QED  BY <1>1, <1>2 DEF IInv

\* The windows of all workers and the log of what was let through agree,
\* whatever addresses send and whenever workers restart.
THEOREM WindowsInvariant == Spec => []IInv
<1>1. IInv /\ UNCHANGED vars => IInv'
  BY DEF vars, IInv, TypeOK, Ordered, WindowOK, Through
<1>2. IInv /\ [Next]_vars => IInv'
  BY <1>1, HitStep, TickStep, RestartStep DEF Next
<1> QED  BY InitInvariant, <1>2, PTL DEF Spec

\* Counts and windows stay within their limits (slowapi's counters).
THEOREM RateLimitTypeCorrect == Spec => []TypeOK
<1>1. IInv => TypeOK
  BY DEF IInv
<1> QED  BY WindowsInvariant, <1>1, PTL

\* For every limit, period and number of workers: no address gets 2 * Limit
\* requests through one worker within a period (@limiter.limit on the sign-in
\* and refresh endpoints).
THEOREM BurstsAreBounded == Spec => []BurstBounded
<1>1. ASSUME IInv, NEW c \in Counters
      PROVE  served[c][2 * Limit] = Period
  <2>1. /\ Ordered(c) /\ WindowOK(c) /\ hits[c] \in 0 .. Limit + 1
        /\ served[c] \in [Recent -> 0 .. Period]
    BY <1>1, CounterType DEF IInv
  <2>2. \E n \in Recent : n <= 2 * Limit /\ served[c][n] = Period
    <3>1. CASE expires[c] = 0
      BY <2>1, <3>1, Positions DEF WindowOK
    <3>2. CASE expires[c] # 0
      <4>1. Through(c) + Limit \in Recent /\ served[c][Through(c) + Limit] = Period
        BY <2>1, <3>2, Positions DEF WindowOK, Through
      <4> QED  BY <4>1, Positions
    <3> QED  BY <3>1, <3>2
  <2>3. 2 * Limit \in Recent /\ served[c][2 * Limit] \in 0 .. Period
    BY <2>1, Positions
  <2>4. Period <= served[c][2 * Limit]
    BY <2>1, <2>2, <2>3 DEF Ordered
  <2> QED  BY <2>3, <2>4, Positions
<1>2. IInv => BurstBounded
  BY <1>1 DEF BurstBounded
<1> QED  BY WindowsInvariant, <1>2, PTL

=============================================================================
