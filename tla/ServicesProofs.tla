---------------------------- MODULE ServicesProofs ----------------------------
(***************************************************************************)
(* Theorems about four instances of Services that count or settle          *)
(* something: the rate limiter and the MFA lockout (how many pass in a     *)
(* stretch of time), the mailer (how many mails an event brings) and the   *)
(* Stripe webhook (what rows and entitlement end at).                      *)
(*                                                                         *)
(* LimiterInv and LockoutInv say that recorded times a number of places    *)
(* apart are more than a window apart; FewInAStretch turns that into a     *)
(* bound. MailerInv counts mails against takings of a job. BillingInv      *)
(* says, of each event begun, how much of what it says is already there.   *)
(***************************************************************************)
EXTENDS Services, Integers, FiniteSetTheorems, WellFoundedInduction, TLAPS

-----------------------------------------------------------------------------
(* Series of times: what both count.                                        *)

\* n times in order, none after t.
Series(times, n, t) ==
    /\ n \in Nat /\ times \in [1..n -> Nat]
    /\ \A i \in 1..n : times[i] <= t /\ \A j \in i..n : times[i] <= times[j]

\* One more, at t.
Longer(times, n, t) == [i \in 1..n + 1 |-> IF i \in 1..n THEN times[i] ELSE t]

\* Times w places from each other are more than span apart ...
Apart(times, n, w, span) == \A i \in 1..n : i + w \in 1..n => times[i] + span < times[i + w]

\* ... and those k places from the end, or more, are that far behind t.
Past(times, n, k, span, t) == \A i \in 1..n : i + k <= n + 1 => times[i] + span < t

LEMMA SeriesGrows ==
    ASSUME NEW t \in Nat, NEW times, NEW n, Series(times, n, t)
    PROVE  /\ Series(Longer(times, n, t), n + 1, t) /\ Longer(times, n, t)[n + 1] = t
           /\ \A i \in 1..n : Longer(times, n, t)[i] = times[i]
<1>1. n \in Nat /\ times \in [1..n -> Nat]
  BY DEF Series
<1>2. PICK longer \in [1..n + 1 -> Nat] :
        /\ longer = Longer(times, n, t) /\ longer[n + 1] = t
        /\ \A i \in 1..n : longer[i] = times[i]
  <2>1. n + 1 \in 1..n + 1 /\ n + 1 \notin 1..n /\ \A i \in 1..n : i \in 1..n + 1
    BY <1>1
  <2>2. Longer(times, n, t) \in [1..n + 1 -> Nat]
    BY <1>1 DEF Longer
  <2> QED BY <2>1, <2>2 DEF Longer
<1>3. ASSUME NEW i \in 1..n + 1, NEW j \in i..n + 1
      PROVE  longer[i] <= t /\ longer[i] <= longer[j]
  <2>1. CASE i = n + 1
    BY <1>1, <1>2, <2>1
  <2>2. CASE i # n + 1 /\ j = n + 1
    <3>1. i \in 1..n
      BY <1>1, <2>2
    <3> QED BY <1>2, <2>2, <3>1 DEF Series
  <2>3. CASE i # n + 1 /\ j # n + 1
    <3>1. i \in 1..n /\ j \in i..n /\ j \in 1..n
      BY <1>1, <2>3
    <3> QED BY <1>2, <3>1 DEF Series
  <2> QED BY <2>1, <2>2, <2>3
<1> QED BY <1>1, <1>2, <1>3 DEF Series

\* The next time keeps its distance from the one w places before it.
LEMMA ApartGrows ==
    ASSUME NEW t \in Nat, NEW times, NEW n, Series(times, n, t), NEW span \in Nat,
           NEW w \in Nat \ {0}, NEW k \in Int, k <= w,
           Apart(times, n, w, span), Past(times, n, k, span, t)
    PROVE  Apart(Longer(times, n, t), n + 1, w, span)
<1> DEFINE longer == Longer(times, n, t)
<1>1. longer[n + 1] = t /\ \A i \in 1..n : longer[i] = times[i]
  BY SeriesGrows
<1> HIDE DEF longer
<1>2. n \in Nat
  BY DEF Series
<1>3. ASSUME NEW i \in 1..n + 1, i + w \in 1..n + 1
      PROVE  longer[i] + span < longer[i + w]
  <2>1. i \in 1..n
    BY <1>2, <1>3
  <2>2. CASE i + w = n + 1
    <3>1. i + k <= n + 1
      BY <1>2, <2>2
    <3> QED BY <1>1, <2>1, <2>2, <3>1 DEF Past
  <2>3. CASE i + w # n + 1
    <3>1. i + w \in 1..n
      BY <1>2, <1>3, <2>3
    <3> QED BY <1>1, <2>1, <3>1 DEF Apart
  <2> QED BY <2>2, <2>3
<1> QED BY <1>3 DEF Apart, longer

LEMMA PastGrows ==
    ASSUME NEW t \in Nat, NEW times, NEW n, Series(times, n, t), NEW span \in Nat,
           NEW k \in Int, 1 <= k, Past(times, n, k, span, t)
    PROVE  Past(Longer(times, n, t), n + 1, k + 1, span, t)
<1> DEFINE longer == Longer(times, n, t)
<1>1. \A i \in 1..n : longer[i] = times[i]
  BY SeriesGrows
<1> HIDE DEF longer
<1>2. n \in Nat
  BY DEF Series
<1>3. ASSUME NEW i \in 1..n + 1, i + (k + 1) <= (n + 1) + 1
      PROVE  longer[i] + span < t
  <2>1. i \in 1..n /\ i + k <= n + 1
    BY <1>2, <1>3
  <2> QED BY <1>1, <2>1 DEF Past
<1> QED BY <1>3 DEF Past, longer

\* The least-number principle, for a set.
NatLess == {p \in Nat \X Nat : p[1] < p[2]}

LEMMA LeastNumber ==
    ASSUME NEW T \in SUBSET Nat, T # {}
    PROVE  \E n \in T : \A m \in T : n <= m
<1>1. NatLess = OpToRel(<, Nat)
  BY DEF NatLess, OpToRel
<1>2. IsWellFoundedOn(NatLess, Nat)
  BY ONLY <1>1, NatLessThanWellFounded, Zenon
<1>3. PICK n \in T : \A m \in T : ~(<<m, n>> \in NatLess)
  BY <1>2, WFMin
<1>4. \A m \in T : ~ (m < n)
  BY <1>3 DEF NatLess
<1> QED BY <1>4

\* If times w places from each other are more than span apart, no stretch of that
\* length has more than w of them.
LEMMA FewInAStretch ==
    ASSUME NEW t \in Nat, NEW times, NEW n, Series(times, n, t), NEW span \in Nat,
           NEW w \in Nat, Apart(times, n, w, span), NEW start \in Nat
    PROVE  Cardinality({i \in 1..n : start <= times[i] /\ times[i] <= start + span}) <= w
<1> DEFINE S == {i \in 1..n : start <= times[i] /\ times[i] <= start + span}
<1>1. CASE S = {}
  BY <1>1, FS_EmptySet
<1>2. CASE S # {}
  <2>1. PICK least \in S : \A m \in S : least <= m
    <3>1. S \in SUBSET Nat
      BY DEF Series
    <3> HIDE DEF S
    <3> QED BY <1>2, <3>1, LeastNumber
  <2>2. least \in 1..n /\ n \in Nat /\ times[least] \in Nat /\ start <= times[least]
    BY DEF Series
  <2>3. ASSUME NEW m \in S
        PROVE  m \in least..(least + w - 1)
    <3>1. m \in 1..n /\ least <= m /\ times[m] \in Nat /\ times[m] <= start + span
      BY <2>1 DEF Series
    <3>2. CASE least + w <= m
      <4>1. least + w \in 1..n /\ m \in (least + w)..n
        BY <2>2, <3>1, <3>2
      <4>2. times[least] + span < times[least + w] /\ times[least + w] <= times[m]
        BY <2>2, <4>1 DEF Apart, Series
      <4>3. times[least + w] \in Nat
        BY <4>1 DEF Series
      <4> QED BY <2>2, <3>1, <4>2, <4>3
    <3> QED BY <2>2, <3>1, <3>2
  <2> HIDE DEF S
  <2>4. S \in SUBSET (least..(least + w - 1))
    BY <2>3
  <2>5. /\ IsFiniteSet(least..(least + w - 1))
        /\ Cardinality(least..(least + w - 1)) = w
    <3>1. least \in Int /\ least + w - 1 \in Int /\ (least + w - 1) - least + 1 = w
      BY <2>2
    <3>2. w # 0
      BY <2>2, <2>3
    <3>3. ~ (least > least + w - 1)
      BY <2>2, <3>2
    <3> QED BY <3>1, <3>3, FS_Interval
  <2>6. IsFiniteSet(S) /\ Cardinality(S) <= w
    BY <2>4, <2>5, FS_Subset
  <2> QED BY <2>6 DEF S
<1> QED BY <1>1, <1>2

-----------------------------------------------------------------------------
(* The rate limiter.                                                        *)

Passed == Cardinality(DOMAIN allowed)

\* The instances have their own copies of what they extend.
LEMMA SameCardinality ==
    ASSUME NEW S
    PROVE  /\ Limiter!Cardinality(S) = Cardinality(S) /\ Lockout!Cardinality(S) = Cardinality(S)
           /\ Lockout!IsFiniteSet(S) = IsFiniteSet(S)
<1>1. Limiter!Cardinality(S) = Cardinality(S)
  BY DEF Limiter!Cardinality, Cardinality
<1>2. Lockout!Cardinality(S) = Cardinality(S)
  BY DEF Lockout!Cardinality, Cardinality
<1>3. Lockout!IsFiniteSet(S) = IsFiniteSet(S)
  BY DEF Lockout!IsFiniteSet, IsFiniteSet
<1> QED BY <1>1, <1>2, <1>3

\* How many of the passed calls the counter is about: the last ones.
Counted(count) == IF count <= Limit THEN count ELSE Limit

LimiterShape ==
    /\ time \in Nat /\ counter \in [count : Nat, expiry : Nat]
    /\ caller \in [Slots -> {"idle", "expire"}]
    /\ Series(allowed, Passed, time) /\ Counted(counter.count) <= Passed

\* One caller at most is to set the expiry, of a key that has none; set, it is a
\* window or more after the first call that was counted.
Expires ==
    /\ \A r \in Slots : caller[r] = "expire" =>
         /\ counter.count # 0 /\ counter.expiry = 0
         /\ \A q \in Slots : caller[q] = "expire" => q = r
    /\ counter.expiry # 0 =>
         /\ counter.count # 0 /\ time < counter.expiry
         /\ allowed[Passed - Counted(counter.count) + 1] + WindowMs <= counter.expiry

\* The calls before the last window's worth of those that came before the counter
\* are more than a window ago; so is any call twice the limit less one back from
\* another.
Spread ==
    /\ Past(allowed, Passed, Counted(counter.count) + Limit, WindowMs - 1, time)
    /\ Apart(allowed, Passed, 2 * Limit - 1, WindowMs - 1)

LimiterInv == LimiterShape /\ Expires /\ Spread

LEMMA CountedIsSmall ==
    ASSUME Limiter!LimitBounds, NEW count \in Nat
    PROVE  /\ Counted(count) \in Nat /\ Counted(count) <= Limit
           /\ (count # 0 => 1 <= Counted(count)) /\ Counted(0) = 0
           /\ (count + 1 <= Limit => Counted(count) = count /\ Counted(count + 1) = count + 1)
           /\ (~ (count + 1 <= Limit) => Counted(count) = Limit /\ Counted(count + 1) = Limit)
BY DEF Limiter!LimitBounds, Counted

LEMMA PassedIsNat == LimiterInv => Passed \in Nat /\ DOMAIN allowed = 1..Passed
BY DEF LimiterInv, LimiterShape, Series

\* A call that passes.
LEMMA CallPasses ==
    ASSUME Limiter!LimitBounds, LimiterInv, NEW count \in Nat, count = counter.count,
           count + 1 <= Limit, allowed' = Limiter!Record, time' = time, counter'.count = count + 1,
           counter'.expiry = counter.expiry
    PROVE  /\ Series(allowed, Passed, time)' /\ Counted(counter.count)' <= Passed' /\ Spread'
           /\ counter.expiry # 0 =>
                allowed'[Passed' - Counted(counter.count)' + 1]
                  = allowed[Passed - Counted(counter.count) + 1]
<1> DEFINE longer == Longer(allowed, Passed, time)
<1>1. PICK n \in Nat, t \in Nat : n = Passed /\ t = time
  BY PassedIsNat DEF LimiterInv, LimiterShape
<1>2. /\ Series(allowed, n, t) /\ Counted(count) = count /\ Counted(count + 1) = count + 1
      /\ DOMAIN allowed = 1..n
  BY <1>1, PassedIsNat, CountedIsSmall DEF LimiterInv, LimiterShape
<1>3. allowed' = longer
  BY <1>1, <1>2, SameCardinality DEF Limiter!Record, Longer, Passed
<1>4. Passed' = n + 1
  <2>1. DOMAIN longer = 1..n + 1
    BY <1>1 DEF Longer
  <2>2. Cardinality(1..n + 1) = n + 1
    BY FS_Interval
  <2> QED BY <1>3, <2>1, <2>2 DEF Passed
<1>5. /\ Series(longer, n + 1, t) /\ \A i \in 1..n : longer[i] = allowed[i]
  BY <1>1, <1>2, SeriesGrows
<1>6. PICK span \in Nat : span = WindowMs - 1
  BY DEF Limiter!LimitBounds
<1>7. /\ Past(allowed, n, count + Limit, span, t) /\ Apart(allowed, n, 2 * Limit - 1, span)
  BY <1>1, <1>2, <1>6 DEF LimiterInv, Spread
<1>8. Apart(longer, n + 1, 2 * Limit - 1, span)
  <2>1. 2 * Limit - 1 \in Nat \ {0} /\ count + Limit \in Int /\ count + Limit <= 2 * Limit - 1
    BY DEF Limiter!LimitBounds
  <2> QED BY <1>1, <1>2, <1>7, <2>1, ApartGrows
<1>9. Past(longer, n + 1, (count + 1) + Limit, span, t)
  <2>1. /\ count + Limit \in Int /\ 1 <= count + Limit
        /\ (count + Limit) + 1 = (count + 1) + Limit
    BY DEF Limiter!LimitBounds
  <2>2. Past(longer, n + 1, (count + Limit) + 1, span, t)
    BY <1>1, <1>2, <1>7, <2>1, PastGrows
  <2> QED BY <2>1, <2>2
<1>10. counter.expiry # 0 => longer[n + 1 - (count + 1) + 1] = allowed[n - count + 1]
  <2>1. counter.expiry # 0 => count # 0 /\ count <= n
    BY <1>1, <1>2 DEF LimiterInv, LimiterShape, Expires
  <2>2. counter.expiry # 0 =>
          n - count + 1 \in 1..n /\ n + 1 - (count + 1) + 1 = n - count + 1
    BY <2>1
  <2> QED BY <1>5, <2>2
<1>11. count + 1 <= n + 1
  BY <1>1, <1>2 DEF LimiterInv, LimiterShape
<1> HIDE DEF longer
<1>12. Series(allowed, Passed, time)'
  BY <1>1, <1>3, <1>4, <1>5
<1>13. Counted(counter.count)' = count + 1 /\ Counted(counter.count)' <= Passed'
  BY <1>1, <1>2, <1>4, <1>11
<1>14. Spread'
  <2>1. Past(longer, n + 1, (count + 1) + Limit, WindowMs - 1, time)
    BY <1>1, <1>6, <1>9
  <2>2. Apart(longer, n + 1, 2 * Limit - 1, WindowMs - 1)
    BY <1>6, <1>8
  <2> QED BY <1>3, <1>4, <1>13, <2>1, <2>2 DEF Spread
<1>15. counter.expiry # 0 =>
         allowed'[Passed' - Counted(counter.count)' + 1]
           = allowed[Passed - Counted(counter.count) + 1]
  <2>1. Passed' - Counted(counter.count)' + 1 = n + 1 - (count + 1) + 1
    BY <1>4, <1>13
  <2>2. Passed - Counted(counter.count) + 1 = n - count + 1
    BY <1>1, <1>2
  <2> QED BY <1>3, <1>10, <2>1, <2>2
<1> QED BY <1>12, <1>13, <1>14, <1>15

LEMMA Consumes ==
    ASSUME Limiter!LimitBounds, LimiterInv, NEW r \in Slots, Limiter!consume(r)
    PROVE  LimiterInv'
<1>1. PICK count \in Nat, expiry \in Nat :
        /\ count = counter.count /\ expiry = counter.expiry
        /\ counter' = [count |-> count + 1, expiry |-> expiry]
        /\ caller[r] = "idle" /\ time' = time
        /\ caller' = [caller EXCEPT ![r] = IF count + 1 = 1 THEN "expire" ELSE "idle"]
        /\ allowed' = IF count + 1 <= Limit THEN Limiter!Record ELSE allowed
  BY DEF Limiter!consume, LimiterInv, LimiterShape
<1>2. /\ counter'.count = count + 1 /\ counter'.expiry = expiry
      /\ counter' \in [count : Nat, expiry : Nat]
      /\ caller' \in [Slots -> {"idle", "expire"}] /\ time' \in Nat
  BY <1>1 DEF LimiterInv, LimiterShape
<1>3. /\ Series(allowed, Passed, time)' /\ Counted(counter.count)' <= Passed' /\ Spread'
      /\ expiry # 0 =>
           allowed'[Passed' - Counted(counter.count)' + 1] = allowed[Passed - Counted(counter.count) + 1]
  <2>1. CASE count + 1 <= Limit
    BY <1>1, <1>2, <2>1, CallPasses
  <2>2. CASE ~ (count + 1 <= Limit)
    <3>1. allowed' = allowed /\ Counted(count + 1) = Counted(count)
      BY <1>1, <2>2, CountedIsSmall
    <3> QED BY <1>1, <1>2, <3>1 DEF LimiterInv, LimiterShape, Spread, Passed
  <2> QED BY <2>1, <2>2
<1>4. \A q \in Slots : caller'[q] = "expire" =>
        /\ counter'.count # 0 /\ counter'.expiry = 0
        /\ \A p \in Slots : caller'[p] = "expire" => p = q
  <2>1. count + 1 # 0 /\ (count + 1 = 1 <=> count = 0)
    BY <1>1
  <2>2. CASE count = 0
    <3>1. expiry = 0 /\ \A q \in Slots : caller[q] # "expire"
      BY <1>1, <2>2 DEF LimiterInv, Expires
    <3>2. \A q \in Slots : caller'[q] = "expire" => q = r
      BY <1>1, <3>1 DEF LimiterInv, LimiterShape
    <3> QED BY <1>2, <2>1, <3>1, <3>2
  <2>3. CASE count # 0
    <3>1. \A q \in Slots : caller'[q] = caller[q]
      BY <1>1, <2>1, <2>3 DEF LimiterInv, LimiterShape
    <3> QED BY <1>1, <1>2, <2>1, <3>1 DEF LimiterInv, Expires
  <2> QED BY <2>2, <2>3
<1>5. expiry # 0 => /\ count + 1 # 0 /\ time < expiry
                    /\ allowed[Passed - Counted(counter.count) + 1] + WindowMs <= expiry
  BY <1>1 DEF LimiterInv, Expires
<1>6. Expires'
  BY <1>1, <1>2, <1>3, <1>4, <1>5 DEF Expires
<1> QED BY <1>2, <1>3, <1>6 DEF LimiterInv, LimiterShape

LEMMA ExpirySet ==
    ASSUME Limiter!LimitBounds, LimiterInv, NEW r \in Slots, Limiter!SetExpiry(r)
    PROVE  LimiterInv'
<1>1. PICK count \in Nat :
        /\ count = counter.count /\ caller[r] = "expire"
        /\ counter' = [count |-> count, expiry |-> time + WindowMs]
        /\ caller' = [caller EXCEPT ![r] = "idle"] /\ UNCHANGED <<time, allowed>>
  BY DEF Limiter!SetExpiry, LimiterInv, LimiterShape
<1>2. /\ count # 0 /\ time \in Nat /\ WindowMs \in Nat \ {0} /\ time + WindowMs \in Nat
      /\ time < time + WindowMs
  BY <1>1 DEF LimiterInv, LimiterShape, Expires, Limiter!LimitBounds
<1>3. /\ counter'.count = count /\ counter'.expiry = time + WindowMs
      /\ counter' \in [count : Nat, expiry : Nat]
      /\ caller' \in [Slots -> {"idle", "expire"}]
      /\ \A q \in Slots : caller'[q] # "expire"
  BY <1>1, <1>2 DEF LimiterInv, LimiterShape, Expires
<1>4. allowed[Passed - Counted(count) + 1] + WindowMs <= time + WindowMs
  <2>1. PICK n \in Nat, c \in Nat : n = Passed /\ c = Counted(count) /\ 1 <= c /\ c <= n
    BY <1>1, <1>2, PassedIsNat, CountedIsSmall DEF LimiterInv, LimiterShape
  <2>2. n - c + 1 \in 1..n
    BY <2>1
  <2>3. allowed[n - c + 1] \in Nat /\ allowed[n - c + 1] <= time
    BY <2>1, <2>2 DEF LimiterInv, LimiterShape, Series
  <2> QED BY <1>2, <2>1, <2>3
<1>5. Passed' = Passed /\ time' = time /\ allowed' = allowed
  BY <1>1 DEF Passed
<1>6. Expires'
  BY <1>2, <1>3, <1>4, <1>5 DEF Expires
<1>7. LimiterShape' /\ Spread'
  BY <1>1, <1>2, <1>3, <1>5 DEF LimiterInv, LimiterShape, Spread
<1> QED BY <1>6, <1>7 DEF LimiterInv

LEMMA CallerStops ==
    ASSUME LimiterInv, NEW r \in Slots, Limiter!Stops(r)
    PROVE  LimiterInv'
<1>1. /\ caller' = [caller EXCEPT ![r] = "idle"] /\ UNCHANGED <<time, counter, allowed>>
      /\ Passed' = Passed
  BY DEF Limiter!Stops, Passed
<1>2. /\ caller' \in [Slots -> {"idle", "expire"}]
      /\ \A q \in Slots : caller'[q] = "expire" => caller[q] = "expire"
  BY <1>1 DEF LimiterInv, LimiterShape
<1> QED BY <1>1, <1>2 DEF LimiterInv, LimiterShape, Expires, Spread

\* When the key goes, the calls it was about become those before the window.
LEMMA WindowTicks ==
    ASSUME Limiter!LimitBounds, LimiterInv, Limiter!Tick
    PROVE  LimiterInv'
<1>1. PICK n \in Nat, t \in Nat, span \in Nat, count \in Nat, expiry \in Nat :
        /\ n = Passed /\ t = time /\ span = WindowMs - 1
        /\ count = counter.count /\ expiry = counter.expiry
  <2>1. /\ Passed \in Nat /\ time \in Nat /\ WindowMs - 1 \in Nat
        /\ counter.count \in Nat /\ counter.expiry \in Nat
    BY PassedIsNat DEF LimiterInv, LimiterShape, Limiter!LimitBounds
  <2> QED BY <2>1
<1>2. /\ time' = t + 1 /\ UNCHANGED <<caller, allowed>> /\ Passed' = n
      /\ counter' = IF expiry = t + 1 THEN [count |-> 0, expiry |-> 0] ELSE counter
  BY <1>1 DEF Limiter!Tick, Passed
<1>3. Series(allowed, n, t + 1) /\ \A i \in 1..n : allowed[i] \in Nat
  BY <1>1 DEF LimiterInv, LimiterShape, Series
<1>4. CASE expiry = t + 1
  <2>1. /\ counter' = [count |-> 0, expiry |-> 0] /\ Counted(0) = 0
        /\ counter'.count = 0 /\ counter'.expiry = 0
    BY <1>2, <1>4, CountedIsSmall
  <2>2. \A r \in Slots : caller[r] # "expire"
    BY <1>1, <1>4 DEF LimiterInv, Expires
  <2>3. PICK c \in Nat : c = Counted(count) /\ 1 <= c /\ c <= Limit /\ c <= n
    BY <1>1, <1>4, CountedIsSmall DEF LimiterInv, LimiterShape, Expires
  <2>4. n - c + 1 \in 1..n /\ allowed[n - c + 1] + WindowMs <= t + 1
    BY <1>1, <1>4, <2>3 DEF LimiterInv, Expires
  <2>5. ASSUME NEW i \in 1..n, i + Limit <= n + 1
        PROVE  allowed[i] + span < t + 1
    <3>1. n - c + 1 \in i..n
      BY <2>3, <2>4, <2>5 DEF Limiter!LimitBounds
    <3>2. allowed[i] <= allowed[n - c + 1]
      BY <1>3, <3>1 DEF Series
    <3> QED BY <1>1, <1>3, <2>4, <3>2 DEF Limiter!LimitBounds
  <2>6. Past(allowed, n, 0 + Limit, span, t + 1)
    BY <2>5 DEF Past, Limiter!LimitBounds
  <2>7. LimiterShape' /\ Expires'
    BY <1>1, <1>2, <1>3, <2>1, <2>2 DEF LimiterInv, LimiterShape, Expires
  <2>8. Spread'
    BY <1>1, <1>2, <2>1, <2>6 DEF LimiterInv, Spread
  <2> QED BY <2>7, <2>8 DEF LimiterInv
<1>5. CASE expiry # t + 1
  <2>1. counter' = counter /\ (expiry # 0 => t + 1 < expiry)
    BY <1>1, <1>2, <1>5 DEF LimiterInv, Expires
  <2>2. PICK c \in Nat : c = Counted(count)
    BY <1>1, CountedIsSmall
  <2>3. Past(allowed, n, c + Limit, span, t + 1)
    <3>1. Past(allowed, n, c + Limit, span, t)
      BY <1>1, <2>2 DEF LimiterInv, Spread
    <3> QED BY <1>1, <1>3, <3>1 DEF Past
  <2>4. LimiterShape' /\ Expires'
    BY <1>1, <1>2, <1>3, <2>1 DEF LimiterInv, LimiterShape, Expires
  <2>5. Spread'
    BY <1>1, <1>2, <2>1, <2>2, <2>3 DEF LimiterInv, Spread
  <2> QED BY <2>4, <2>5 DEF LimiterInv
<1> QED BY <1>4, <1>5

LEMMA LimiterStarts ==
    ASSUME Limiter!LimitBounds, Limiter!Init
    PROVE  LimiterInv
<1>1. DOMAIN allowed = 1..0 /\ 1..0 = {} /\ Passed = 0
  BY FS_EmptySet DEF Limiter!Init, Passed
<1>2. Series(allowed, 0, time)
  BY <1>1 DEF Series, Limiter!Init
<1>3. counter.count = 0 /\ counter.expiry = 0 /\ Counted(0) = 0
  BY CountedIsSmall DEF Limiter!Init
<1>4. LimiterShape /\ Expires
  BY <1>1, <1>2, <1>3 DEF LimiterShape, Expires, Limiter!Init
<1>5. Spread
  BY <1>1 DEF Spread, Past, Apart
<1> QED BY <1>4, <1>5 DEF LimiterInv

LEMMA LimiterKept ==
    ASSUME Limiter!LimitBounds, LimiterInv, [Limiter!Next]_(Limiter!vars)
    PROVE  LimiterInv'
<1>1. CASE UNCHANGED Limiter!vars
  BY <1>1 DEF Limiter!vars, LimiterInv, LimiterShape, Expires, Spread, Passed
<1> QED BY <1>1, Consumes, ExpirySet, CallerStops, WindowTicks DEF Limiter!Next

\* Fewer than twice the limit pass in any stretch as long as the window: what the
\* fixed window promises, however late the expiry is set and whoever stops before.
THEOREM PassesAreBounded == Limiter!Spec => []FewerThanTwice
<1>0. Limiter!LimitBounds
  BY ServicesBounds
<1> USE <1>0
<1>1. Limiter!Init => LimiterInv
  BY LimiterStarts
<1>2. LimiterInv /\ [Limiter!Next]_(Limiter!vars) => LimiterInv'
  BY LimiterKept
<1>3. LimiterInv => FewerThanTwice
  <2> SUFFICES ASSUME LimiterInv, NEW start \in 1..time
               PROVE  Cardinality({i \in DOMAIN allowed :
                          start <= allowed[i] /\ allowed[i] < start + WindowMs}) < 2 * Limit
    BY SameCardinality DEF FewerThanTwice, Limiter!FewerThanTwice
  <2>1. PICK n \in Nat, t \in Nat, span \in Nat :
          n = Passed /\ t = time /\ span = WindowMs - 1 /\ start \in Nat
    BY PassedIsNat DEF LimiterInv, LimiterShape, Limiter!LimitBounds
  <2>2. 2 * Limit - 1 \in Nat /\ Series(allowed, n, t) /\ Apart(allowed, n, 2 * Limit - 1, span)
    BY <2>1 DEF LimiterInv, LimiterShape, Spread, Limiter!LimitBounds
  <2>3. Cardinality({i \in 1..n : start <= allowed[i] /\ allowed[i] <= start + span})
          <= 2 * Limit - 1
    BY <2>1, <2>2, FewInAStretch
  <2>4. {i \in DOMAIN allowed : start <= allowed[i] /\ allowed[i] < start + WindowMs}
          = {i \in 1..n : start <= allowed[i] /\ allowed[i] <= start + span}
    <3>1. DOMAIN allowed = 1..n /\ \A i \in 1..n : allowed[i] \in Nat
      BY <2>1, <2>2, PassedIsNat DEF Series
    <3>2. \A x \in Nat : x < start + WindowMs <=> x <= start + span
      BY <2>1 DEF Limiter!LimitBounds
    <3> QED BY <3>1, <3>2
  <2>5. Cardinality({i \in 1..n : start <= allowed[i] /\ allowed[i] <= start + span}) \in Nat
    <3>1. IsFiniteSet(1..n)
      BY FS_Interval
    <3> QED BY <3>1, FS_Subset, FS_CardinalityType
  <2> QED BY <2>2, <2>3, <2>4, <2>5 DEF Limiter!LimitBounds
<1> QED BY <1>1, <1>2, <1>3, PTL DEF Limiter!Spec

-----------------------------------------------------------------------------
(* The lockout.                                                             *)

Failed == Cardinality(DOMAIN occurredAt)

InFlight == {r \in Slots : verifying[r] # "idle"}

LockoutShape ==
    /\ now \in Nat /\ verifying \in [Slots -> {"idle", "enroll", "challenge"}]
    /\ Series(occurredAt, Failed, now)

\* What the next failures, of those in flight, are counted with: whatever would be
\* one too many is out of the window already.
Spaced ==
    /\ Past(occurredAt, Failed, LockoutFailures + Cardinality(Slots) - Cardinality(InFlight),
            Window, now)
    /\ Apart(occurredAt, Failed, LockoutFailures + Cardinality(Slots) - 1, Window)

LockoutInv == LockoutShape /\ Spaced

LEMMA FlightIsBounded ==
    ASSUME Lockout!LockoutBounds
    PROVE  /\ Cardinality(Slots) \in Nat /\ Cardinality(InFlight) \in Nat
           /\ Cardinality(InFlight) <= Cardinality(Slots) /\ IsFiniteSet(InFlight)
<1>1. IsFiniteSet(Slots) /\ InFlight \in SUBSET Slots
  BY SameCardinality DEF Lockout!LockoutBounds, InFlight
<1> QED BY <1>1, FS_Subset, FS_CardinalityType

\* A request past the check, and one that ends.
LEMMA OneMoreInFlight ==
    ASSUME Lockout!LockoutBounds, NEW r \in Slots, NEW kind \in {"enroll", "challenge"},
           LockoutShape, verifying[r] = "idle", verifying' = [verifying EXCEPT ![r] = kind]
    PROVE  /\ Cardinality(InFlight') = Cardinality(InFlight) + 1
           /\ Cardinality(InFlight') \in Nat /\ Cardinality(InFlight') <= Cardinality(Slots)
<1>1. InFlight' = InFlight \cup {r} /\ r \notin InFlight
  BY DEF InFlight, LockoutShape
<1>2. IsFiniteSet(Slots) /\ InFlight' \in SUBSET Slots
  BY <1>1, SameCardinality DEF Lockout!LockoutBounds, InFlight
<1>3. Cardinality(InFlight \cup {r}) = Cardinality(InFlight) + 1
  BY <1>1, FlightIsBounded, FS_AddElement
<1>4. /\ Cardinality(InFlight') \in Nat
      /\ Cardinality(InFlight') <= Cardinality(Slots)
  BY <1>2, FS_Subset, FS_CardinalityType
<1> QED BY <1>1, <1>3, <1>4

LEMMA OneLessInFlight ==
    ASSUME Lockout!LockoutBounds, NEW r \in Slots,
           LockoutShape, verifying[r] # "idle", verifying' = [verifying EXCEPT ![r] = "idle"]
    PROVE  /\ Cardinality(InFlight') = Cardinality(InFlight) - 1
           /\ 1 <= Cardinality(InFlight)
           /\ verifying' \in [Slots -> {"idle", "enroll", "challenge"}]
<1>1. /\ InFlight' = InFlight \ {r} /\ r \in InFlight
      /\ verifying' \in [Slots -> {"idle", "enroll", "challenge"}]
  BY DEF InFlight, LockoutShape
<1>2. /\ Cardinality(InFlight \ {r}) = Cardinality(InFlight) - 1
      /\ Cardinality(InFlight \ {r}) \in Nat
  BY <1>1, FlightIsBounded, FS_RemoveElement, FS_CardinalityType
<1> QED BY <1>1, <1>2, FlightIsBounded

\* The check: nobody passes while the failures it reads are close to each other and
\* the newest is young.
LEMMA CheckPasses ==
    ASSUME Lockout!LockoutBounds, LockoutInv, NEW r \in Slots,
           NEW kind \in {"enroll", "challenge"}, Lockout!enforceLockout(r, kind)
    PROVE  LockoutInv'
<1>1. /\ verifying[r] = "idle" /\ verifying' = [verifying EXCEPT ![r] = kind]
      /\ UNCHANGED <<now, occurredAt>> /\ Failed' = Failed /\ ~ Lockout!Locked
  BY DEF Lockout!enforceLockout, Failed
<1>2. PICK n \in Nat, t \in Nat, most \in Nat, p \in Nat :
        /\ n = Failed /\ t = now /\ most = Cardinality(Slots)
        /\ p = Cardinality(InFlight') /\ p <= most
  <2>1. /\ Cardinality(InFlight') \in Nat /\ Cardinality(InFlight') <= Cardinality(Slots)
    BY <1>1, OneMoreInFlight, FlightIsBounded DEF LockoutInv
  <2> QED BY <2>1, FlightIsBounded DEF LockoutInv, LockoutShape, Series
<1>3. /\ LockoutFailures \in Nat \ {0} /\ Window \in Nat /\ Duration \in Nat /\ Window < Duration
  BY DEF Lockout!LockoutBounds
<1>4. Series(occurredAt, n, t)
  BY <1>2 DEF LockoutInv, LockoutShape
<1>5. ASSUME NEW i \in 1..n, i + (LockoutFailures + most - p) <= n + 1
      PROVE  occurredAt[i] + Window < t
  <2>1. /\ LockoutFailures <= n /\ n - LockoutFailures + 1 \in i..n /\ n - LockoutFailures + 1 \in 1..n
        /\ n \in 1..n /\ n \in (n - LockoutFailures + 1)..n
    BY <1>2, <1>3, <1>5
  <2>2. PICK own \in Nat, oldest \in Nat, newest \in Nat :
          /\ own = occurredAt[i] /\ oldest = occurredAt[n - LockoutFailures + 1]
          /\ newest = occurredAt[n]
          /\ own <= oldest /\ oldest <= newest /\ newest <= t
    BY <1>4, <2>1 DEF Series
  <2>3. ~ (newest - oldest <= Window /\ t < newest + Duration)
    BY <1>1, <1>2, <2>1, <2>2, SameCardinality DEF Lockout!Locked, Lockout!Failures, Failed
  <2> QED BY <1>3, <2>2, <2>3
<1>6. Past(occurredAt, n, LockoutFailures + most - p, Window, t)
  BY <1>5 DEF Past
<1>7. verifying' \in [Slots -> {"idle", "enroll", "challenge"}]
  BY <1>1 DEF LockoutInv, LockoutShape
<1> QED BY <1>1, <1>2, <1>4, <1>6, <1>7 DEF LockoutInv, LockoutShape, Spaced

LEMMA FailureIsRecorded ==
    ASSUME Lockout!LockoutBounds, LockoutInv, NEW r \in Slots, Lockout!recordFailure(r)
    PROVE  LockoutInv'
<1> DEFINE longer == Longer(occurredAt, Failed, now)
<1>1. PICK n \in Nat, t \in Nat, most \in Nat, p \in Nat :
        /\ n = Failed /\ t = now /\ most = Cardinality(Slots) /\ p = Cardinality(InFlight)
        /\ p <= most
  BY FlightIsBounded DEF LockoutInv, LockoutShape, Series
<1>2. /\ verifying[r] # "idle" /\ verifying' = [verifying EXCEPT ![r] = "idle"] /\ now' = t
      /\ occurredAt' = longer
  BY <1>1, SameCardinality
     DEF Lockout!recordFailure, Lockout!Failures, LockoutInv, LockoutShape, Series, Longer, Failed
<1>3. /\ Cardinality(InFlight') = p - 1 /\ 1 <= p
      /\ verifying' \in [Slots -> {"idle", "enroll", "challenge"}]
  BY <1>1, <1>2, OneLessInFlight DEF LockoutInv
<1>4. Series(occurredAt, n, t) /\ Series(longer, n + 1, t)
  BY <1>1, SeriesGrows DEF LockoutInv, LockoutShape
<1>5. Failed' = n + 1
  <2>1. DOMAIN longer = 1..n + 1
    BY <1>1 DEF Longer
  <2>2. Cardinality(1..n + 1) = n + 1
    BY FS_Interval
  <2> QED BY <1>2, <2>1, <2>2 DEF Failed
<1>6. /\ Past(occurredAt, n, LockoutFailures + most - p, Window, t)
      /\ Apart(occurredAt, n, LockoutFailures + most - 1, Window)
  BY <1>1 DEF LockoutInv, Spaced
<1>7. /\ LockoutFailures + most - 1 \in Nat \ {0} /\ LockoutFailures + most - p \in Int
      /\ LockoutFailures + most - p <= LockoutFailures + most - 1 /\ 1 <= LockoutFailures + most - p
      /\ (LockoutFailures + most - p) + 1 = LockoutFailures + most - (p - 1) /\ Window \in Nat
  BY <1>1, <1>3 DEF Lockout!LockoutBounds
<1>8. Apart(longer, n + 1, LockoutFailures + most - 1, Window)
  BY <1>1, <1>4, <1>6, <1>7, ApartGrows
<1>9. Past(longer, n + 1, LockoutFailures + most - (p - 1), Window, t)
  <2>1. Past(longer, n + 1, (LockoutFailures + most - p) + 1, Window, t)
    BY <1>1, <1>4, <1>6, <1>7, PastGrows
  <2> QED BY <1>7, <2>1
<1> HIDE DEF longer
<1> QED BY <1>1, <1>2, <1>3, <1>4, <1>5, <1>8, <1>9 DEF LockoutInv, LockoutShape, Spaced

LEMMA SuccessIsRecorded ==
    ASSUME Lockout!LockoutBounds, LockoutInv, NEW r \in Slots, Lockout!recordSuccess(r)
    PROVE  LockoutInv'
<1>1. PICK n \in Nat, t \in Nat, most \in Nat, p \in Nat :
        n = Failed /\ t = now /\ most = Cardinality(Slots) /\ p = Cardinality(InFlight)
  BY FlightIsBounded DEF LockoutInv, LockoutShape, Series
<1>2. /\ verifying[r] # "idle" /\ verifying' = [verifying EXCEPT ![r] = "idle"] /\ now' = t
      /\ occurredAt' = occurredAt /\ Failed' = n
  BY <1>1 DEF Lockout!recordSuccess, Failed
<1>3. /\ Cardinality(InFlight') = p - 1
      /\ verifying' \in [Slots -> {"idle", "enroll", "challenge"}]
  BY <1>1, <1>2, OneLessInFlight DEF LockoutInv
<1>4. Past(occurredAt, n, LockoutFailures + most - (p - 1), Window, t)
  <2>1. Past(occurredAt, n, LockoutFailures + most - p, Window, t)
    BY <1>1 DEF LockoutInv, Spaced
  <2> QED BY <2>1 DEF Past, Lockout!LockoutBounds
<1> QED BY <1>1, <1>2, <1>3, <1>4 DEF LockoutInv, LockoutShape, Spaced

LEMMA LockoutTicks ==
    ASSUME Lockout!LockoutBounds, LockoutInv, Lockout!Tick
    PROVE  LockoutInv'
<1>1. PICK n \in Nat, t \in Nat, k \in Int :
        /\ n = Failed /\ t = now
        /\ k = LockoutFailures + Cardinality(Slots) - Cardinality(InFlight)
  <2>1. Failed \in Nat /\ now \in Nat
    BY DEF LockoutInv, LockoutShape, Series
  <2>2. LockoutFailures + Cardinality(Slots) - Cardinality(InFlight) \in Int
    BY FlightIsBounded DEF Lockout!LockoutBounds
  <2> QED BY <2>1, <2>2
<1>2. /\ now' = t + 1 /\ UNCHANGED <<occurredAt, verifying>>
      /\ Failed' = n /\ InFlight' = InFlight
  BY <1>1 DEF Lockout!Tick, Failed, InFlight
<1>3. Series(occurredAt, n, t + 1) /\ \A i \in 1..n : occurredAt[i] \in Nat
  BY <1>1 DEF LockoutInv, LockoutShape, Series
<1>4. Past(occurredAt, n, k, Window, t + 1)
  <2>1. Past(occurredAt, n, k, Window, t)
    BY <1>1 DEF LockoutInv, Spaced
  <2> QED BY <1>3, <2>1 DEF Past, Lockout!LockoutBounds
<1> QED BY <1>1, <1>2, <1>3, <1>4 DEF LockoutInv, LockoutShape, Spaced

LEMMA LockoutStarts ==
    ASSUME Lockout!Init
    PROVE  LockoutInv
<1>1. DOMAIN occurredAt = 1..0 /\ 1..0 = {} /\ Failed = 0
  BY FS_EmptySet DEF Lockout!Init, Failed
<1>2. Series(occurredAt, 0, now)
  BY <1>1 DEF Series, Lockout!Init
<1>3. Spaced
  BY <1>1 DEF Spaced, Past, Apart
<1> QED BY <1>1, <1>2, <1>3 DEF LockoutInv, LockoutShape, Lockout!Init

LEMMA LockoutKept ==
    ASSUME Lockout!LockoutBounds, LockoutInv, [Lockout!Next]_(Lockout!vars)
    PROVE  LockoutInv'
<1>1. CASE UNCHANGED Lockout!vars
  BY <1>1 DEF Lockout!vars, LockoutInv, LockoutShape, Spaced, Failed, InFlight
<1> QED BY <1>1, CheckPasses, FailureIsRecorded, SuccessIsRecorded, LockoutTicks
    DEF Lockout!Next

\* Failed codes in any stretch as long as the window exceed the limit by fewer than
\* the requests there can be: what counting before recording costs.
THEOREM GuessesAreBounded == Lockout!Spec => []GuessesBounded
<1>0. Lockout!LockoutBounds
  BY ServicesBounds
<1> USE <1>0
<1>1. Lockout!Init => LockoutInv
  BY LockoutStarts
<1>2. LockoutInv /\ [Lockout!Next]_(Lockout!vars) => LockoutInv'
  BY LockoutKept
<1>3. LockoutInv => GuessesBounded
  <2> SUFFICES ASSUME LockoutInv, NEW start \in 0..now
               PROVE  Cardinality({i \in DOMAIN occurredAt :
                          start <= occurredAt[i] /\ occurredAt[i] <= start + Window})
                        < LockoutFailures + Cardinality(Slots)
    BY SameCardinality DEF GuessesBounded, Lockout!GuessesBounded, Lockout!Failures
  <2>1. PICK n \in Nat, t \in Nat, most \in Nat :
          n = Failed /\ t = now /\ most = Cardinality(Slots) /\ start \in Nat
    <3>1. now \in Nat /\ Failed \in Nat /\ start \in Nat
      BY DEF LockoutInv, LockoutShape, Series
    <3> QED BY <3>1, FlightIsBounded
  <2>2. /\ LockoutFailures + most - 1 \in Nat /\ Window \in Nat
        /\ Series(occurredAt, n, t) /\ Apart(occurredAt, n, LockoutFailures + most - 1, Window)
    BY <2>1 DEF LockoutInv, LockoutShape, Spaced, Lockout!LockoutBounds
  <2>3. Cardinality({i \in 1..n : start <= occurredAt[i] /\ occurredAt[i] <= start + Window})
          <= LockoutFailures + most - 1
    BY <2>1, <2>2, FewInAStretch
  <2>4. Cardinality({i \in 1..n : start <= occurredAt[i] /\ occurredAt[i] <= start + Window})
          \in Nat
    <3>1. IsFiniteSet(1..n)
      BY FS_Interval
    <3> QED BY <3>1, FS_Subset, FS_CardinalityType
  <2>5. DOMAIN occurredAt = 1..n
    BY <2>2 DEF Series
  <2>6. PICK c \in Nat :
          c = Cardinality({i \in 1..n :
                start <= occurredAt[i] /\ occurredAt[i] <= start + Window})
    BY <2>4
  <2>7. c < LockoutFailures + most
    BY <2>3, <2>6 DEF Lockout!LockoutBounds
  <2> QED BY <2>1, <2>5, <2>6, <2>7
<1> QED BY <1>1, <1>2, <1>3, PTL DEF Lockout!Spec

-----------------------------------------------------------------------------
(* The mails.                                                               *)

JobStates == {"unsent", "waiting", "active", "delayed", "done", "failed"}

Owners == Workers \cup {CHOOSE w \in Workers : TRUE}

JobRow == [st : JobStates, tries : Nat, stalls : Nat, owner : Owners]

Steps == {"idle", "begin", "preference", "send", "log", "catch", "ack"}

Hand == [event : Events \cup {NoEvent}, pc : Steps, held : {NoEvent}]

MailerShape ==
    /\ queue \in Seq(Events) /\ job \in [Events -> JobRow] /\ run \in [Workers -> Hand]
    /\ \A w \in Workers : run[w].event = NoEvent <=> run[w].pc = "idle"
    /\ mails \in [Events -> Nat] /\ log \in [Events -> [SENT : Nat, FAILED : Nat]]

\* What is queued waits, and is queued once.
Queued ==
    \A i \in 1..Len(queue) :
        /\ job[queue[i]].st = "waiting"
        /\ \A j \in 1..Len(queue) : queue[i] = queue[j] => i = j

Settled(e) == Kind[e] # "other" /\ e \notin suppressed => log[e].SENT > 0

\* What is done, or about to be, was mailed or held back.
Settles ==
    /\ \A e \in Events : /\ job[e].st = "done" => Settled(e)
                         /\ e \in suppressed => Kind[e] = "welcome"
    /\ \A w \in Workers : /\ run[w].pc = "ack" => Settled(run[w].event)
                          /\ run[w].pc = "preference" => Kind[run[w].event] = "welcome"

\* Workers with the event in hand, at one of these steps.
Holding(steps, e) == {w \in Workers : run[w].event = e /\ run[w].pc \in steps}

\* Steps with the mail yet to send.
Ahead == {"begin", "preference", "send"}

\* How often a job was taken at most: what gave it back, and the time now.
Takings(e) ==
    job[e].tries + job[e].stalls + IF job[e].st \in {"unsent", "waiting", "delayed"} THEN 0 ELSE 1

\* Every taking sends once at most, and every mail is logged once at most.
Counts ==
    \A e \in Events : /\ log[e].SENT + Cardinality(Holding({"log"}, e)) <= mails[e]
                      /\ mails[e] + Cardinality(Holding(Ahead, e)) <= Takings(e)

MailerInv == MailerShape /\ Queued /\ Settles /\ Counts

LEMMA WorkersAreFinite == IsFiniteSet(Workers) /\ NoEvent \notin Events
BY ServicesBounds

\* One worker's step.
LEMMA HandCounts ==
    ASSUME NEW e, NEW steps, NEW w \in Workers, \A v \in Workers : v # w => run'[v] = run[v]
    PROVE  /\ Cardinality(Holding(steps, e)) \in Nat /\ Cardinality(Holding(steps, e)') \in Nat
           /\ w \notin Holding(steps, e) /\ w \in Holding(steps, e)'
                => Cardinality(Holding(steps, e)') = Cardinality(Holding(steps, e)) + 1
           /\ w \in Holding(steps, e) /\ w \notin Holding(steps, e)'
                => Cardinality(Holding(steps, e)) = Cardinality(Holding(steps, e)') + 1
           /\ (w \in Holding(steps, e) <=> w \in Holding(steps, e)')
                => Cardinality(Holding(steps, e)') = Cardinality(Holding(steps, e))
<1> DEFINE before == Holding(steps, e)
           after == Holding(steps, e)'
<1>1. /\ IsFiniteSet(before) /\ IsFiniteSet(after)
      /\ Cardinality(before) \in Nat /\ Cardinality(after) \in Nat
  <2>1. before \in SUBSET Workers /\ after \in SUBSET Workers
    BY DEF Holding
  <2> HIDE DEF before, after
  <2> QED BY <2>1, WorkersAreFinite, FS_Subset, FS_CardinalityType
<1>2. \A v \in Workers : v # w => (v \in before <=> v \in after)
  BY DEF Holding
<1>3. before \subseteq Workers /\ after \subseteq Workers
  BY DEF Holding
<1> HIDE DEF before, after
<1>4. CASE w \notin before /\ w \in after
  <2>1. after = before \cup {w}
    BY <1>2, <1>3, <1>4
  <2> QED BY <1>1, <1>4, <2>1, FS_AddElement DEF before, after
<1>5. CASE w \in before /\ w \notin after
  <2>1. before = after \cup {w}
    BY <1>2, <1>3, <1>5
  <2> QED BY <1>1, <1>5, <2>1, FS_AddElement DEF before, after
<1>6. CASE w \in before <=> w \in after
  <2>1. before = after
    BY <1>2, <1>3, <1>6
  <2> QED BY <1>1, <1>6, <2>1 DEF before, after
<1> QED BY <1>4, <1>5, <1>6 DEF before, after

LEMMA TakingsAreNat == ASSUME MailerShape, NEW e \in Events PROVE Takings(e) \in Nat
<1>1. job[e] \in JobRow
  BY DEF MailerShape
<1> QED BY <1>1 DEF Takings, JobRow

\* A step that takes nothing and sends nothing.
LEMMA CountsKept ==
    ASSUME MailerShape, MailerShape', Counts, NEW w \in Workers, UNCHANGED mails,
           \A v \in Workers : v # w => run'[v] = run[v],
           run'[w].pc \in Ahead => run[w].pc \in Ahead /\ run'[w].event = run[w].event,
           run'[w].pc = "log" => run'[w] = run[w],
           \A e \in Events : /\ Takings(e) <= Takings(e)'
                             /\ \/ log'[e].SENT = log[e].SENT
                                \/ /\ log'[e].SENT = log[e].SENT + 1
                                   /\ w \in Holding({"log"}, e) /\ w \notin Holding({"log"}, e)'
    PROVE  Counts'
<1> SUFFICES ASSUME NEW e \in Events
             PROVE  /\ log'[e].SENT + Cardinality(Holding({"log"}, e)') <= mails[e]
                    /\ mails[e] + Cardinality(Holding(Ahead, e)') <= Takings(e)'
  BY DEF Counts
<1>1. PICK m \in Nat, s \in Nat, s2 \in Nat, t \in Nat, t2 \in Nat :
        /\ m = mails[e] /\ s = log[e].SENT /\ s2 = log'[e].SENT /\ t = Takings(e)
        /\ t2 = Takings(e)'
  <2>1. mails[e] \in Nat /\ log[e].SENT \in Nat /\ log'[e].SENT \in Nat
    BY DEF MailerShape
  <2>2. Takings(e) \in Nat /\ Takings(e)' \in Nat
    <3>1. job[e] \in JobRow /\ job'[e] \in JobRow
      BY DEF MailerShape
    <3> QED BY <3>1 DEF Takings, JobRow
  <2> QED BY <2>1, <2>2
<1>2. /\ Cardinality(Holding({"log"}, e)) \in Nat /\ Cardinality(Holding({"log"}, e)') \in Nat
      /\ Cardinality(Holding(Ahead, e)) \in Nat /\ Cardinality(Holding(Ahead, e)') \in Nat
  BY HandCounts
<1>3. s + Cardinality(Holding({"log"}, e)) <= m /\ m + Cardinality(Holding(Ahead, e)) <= t /\ t <= t2
  BY <1>1 DEF Counts
<1>4. Cardinality(Holding(Ahead, e)') <= Cardinality(Holding(Ahead, e))
  <2>1. w \in Holding(Ahead, e)' => w \in Holding(Ahead, e)
    BY DEF Holding
  <2> QED BY <1>2, <2>1, HandCounts
<1>5. s2 + Cardinality(Holding({"log"}, e)') <= s + Cardinality(Holding({"log"}, e))
  <2>1. w \in Holding({"log"}, e)' => w \in Holding({"log"}, e)
    BY DEF Holding
  <2>2. Cardinality(Holding({"log"}, e)') <= Cardinality(Holding({"log"}, e))
    BY <1>2, <2>1, HandCounts
  <2>3. CASE s2 = s
    BY <1>2, <2>2, <2>3
  <2>4. CASE s2 # s
    <3>1. s2 = s + 1 /\ w \in Holding({"log"}, e) /\ w \notin Holding({"log"}, e)'
      BY <1>1, <2>4
    <3>2. Cardinality(Holding({"log"}, e)) = Cardinality(Holding({"log"}, e)') + 1
      BY <3>1, HandCounts
    <3> QED BY <1>2, <3>1, <3>2
  <2> QED BY <2>3, <2>4
<1> QED BY <1>1, <1>2, <1>3, <1>4, <1>5

LEMMA SettlesKept ==
    ASSUME MailerShape, MailerShape', Settles, suppressed \subseteq suppressed',
           \A e \in Events : /\ log[e].SENT <= log'[e].SENT
                             /\ job'[e].st = "done" => job[e].st = "done" \/ Settled(e)'
                             /\ e \in suppressed' => e \in suppressed \/ Kind[e] = "welcome",
           \A v \in Workers : run'[v] = run[v] \/
               /\ (run[v].pc = "ack" => Settled(run[v].event))'
               /\ run'[v].pc = "preference" => Kind[run'[v].event] = "welcome"
    PROVE  Settles'
<1>1. ASSUME NEW e \in Events, Settled(e) PROVE Settled(e)'
  <2>1. log[e].SENT \in Nat /\ log'[e].SENT \in Nat
    BY DEF MailerShape
  <2> QED BY <1>1, <2>1 DEF Settled
<1>2. ASSUME NEW e \in Events
      PROVE  /\ job'[e].st = "done" => Settled(e)'
             /\ e \in suppressed' => Kind[e] = "welcome"
  BY <1>1, <1>2 DEF Settles
<1>3. ASSUME NEW v \in Workers
      PROVE  /\ (run[v].pc = "ack" => Settled(run[v].event))'
             /\ run'[v].pc = "preference" => Kind[run'[v].event] = "welcome"
  <2>1. CASE run'[v] = run[v]
    <3>1. run[v].pc = "ack" => run[v].event \in Events
      BY DEF MailerShape, Hand
    <3>2. PICK e \in Events \cup {NoEvent} : e = run[v].event
      BY DEF MailerShape, Hand
    <3>3. run[v].pc = "ack" => Settled(e)'
      BY <1>1, <3>1, <3>2 DEF Settles
    <3>4. e = run'[v].event /\ run'[v].pc = run[v].pc
      BY <2>1, <3>2
    <3> QED BY <2>1, <3>3, <3>4 DEF Settles, Settled
  <2>2. CASE run'[v] # run[v]
    BY <2>2
  <2> QED BY <2>1, <2>2
<1> QED BY <1>2, <1>3 DEF Settles

\* The queue: one off its head, one on at its end, one on at its head.
LEMMA OffTheQueue ==
    ASSUME MailerShape, Queued, queue # <<>>, queue' = Tail(queue),
           \A e \in Events : e # Head(queue) => job'[e] = job[e]
    PROVE  /\ Head(queue) \in Events /\ job[Head(queue)].st = "waiting"
           /\ queue' \in Seq(Events) /\ Queued'
<1>1. /\ Head(queue) \in Events /\ Head(queue) = queue[1] /\ Tail(queue) \in Seq(Events)
      /\ Len(queue) \in Nat \ {0} /\ Len(Tail(queue)) = Len(queue) - 1
      /\ \A i \in 1..Len(queue) : queue[i] \in Events
  BY DEF MailerShape
<1>2. job[Head(queue)].st = "waiting"
  BY <1>1 DEF Queued
<1>3. ASSUME NEW i \in 1..Len(queue')
      PROVE  /\ i + 1 \in 1..Len(queue) /\ queue'[i] = queue[i + 1] /\ queue[i + 1] \in Events
             /\ queue[i + 1] # Head(queue)
  <2>1. i + 1 \in 1..Len(queue) /\ i + 1 # 1 /\ 1 \in 1..Len(queue)
    BY <1>1
  <2>2. queue'[i] = queue[i + 1]
    BY <1>1 DEF MailerShape
  <2> QED BY <1>1, <2>1, <2>2 DEF Queued
<1>4. \A i \in 1..Len(queue') : job'[queue'[i]].st = "waiting"
  BY <1>3 DEF Queued
<1>5. ASSUME NEW i \in 1..Len(queue'), NEW j \in 1..Len(queue'), queue'[i] = queue'[j]
      PROVE  i = j
  <2>1. i + 1 = j + 1
    BY <1>3, <1>5 DEF Queued
  <2> QED BY <2>1
<1> QED BY <1>1, <1>2, <1>4, <1>5 DEF Queued

LEMMA OnTheQueue ==
    ASSUME MailerShape, Queued, NEW e \in Events, job[e].st # "waiting", job'[e].st = "waiting",
           \A k \in Events : k # e => job'[k] = job[k],
           queue' = Append(queue, e) \/ queue' = <<e>> \o queue
    PROVE  queue' \in Seq(Events) /\ Queued'
<1>1. /\ Len(queue) \in Nat
      /\ \A i \in 1..Len(queue) : /\ queue[i] \in Events /\ queue[i] # e
                                  /\ job'[queue[i]].st = "waiting"
  BY DEF MailerShape, Queued
<1>2. PICK at \in Nat, by \in Nat :
        /\ queue' \in Seq(Events) /\ Len(queue') = Len(queue) + 1 /\ queue'[at] = e
        /\ \A i \in 1..Len(queue') : i # at => i - by \in 1..Len(queue) /\ queue'[i] = queue[i - by]
  <2>1. CASE queue' = Append(queue, e)
    <3>1. /\ queue' \in Seq(Events) /\ Len(queue') = Len(queue) + 1 /\ queue'[Len(queue) + 1] = e
          /\ \A i \in 1..Len(queue) : queue'[i] = queue[i]
      BY <2>1 DEF MailerShape
    <3>2. \A i \in 1..Len(queue') : i # Len(queue) + 1 =>
            i - 0 \in 1..Len(queue) /\ queue'[i] = queue[i - 0]
      BY <1>1, <3>1
    <3>3. Len(queue) + 1 \in Nat /\ 0 \in Nat
      BY <1>1
    <3> QED BY <3>1, <3>2, <3>3
  <2>2. CASE queue' = <<e>> \o queue
    <3>1. /\ queue' \in Seq(Events) /\ Len(queue') = Len(queue) + 1 /\ queue'[1] = e
          /\ \A i \in 1..Len(queue') : i # 1 =>
               i - 1 \in 1..Len(queue) /\ queue'[i] = queue[i - 1]
      BY <2>2 DEF MailerShape
    <3>2. 1 \in Nat
      OBVIOUS
    <3> QED BY <3>1, <3>2
  <2> QED BY <2>1, <2>2
<1>3. \A i \in 1..Len(queue') : job'[queue'[i]].st = "waiting"
  BY <1>1, <1>2
<1>4. ASSUME NEW i \in 1..Len(queue'), NEW j \in 1..Len(queue'), queue'[i] = queue'[j]
      PROVE  i = j
  <2>1. CASE i # at /\ j # at
    <3>1. i - by = j - by
      BY <1>2, <1>4, <2>1 DEF Queued
    <3> QED BY <1>2, <3>1
  <2> QED BY <1>1, <1>2, <1>4, <2>1
<1> QED BY <1>2, <1>3, <1>4 DEF Queued

LEMMA QueueStays ==
    ASSUME MailerShape, Queued, queue' = queue,
           \A e \in Events : job[e].st = "waiting" => job'[e].st = "waiting"
    PROVE  queue' \in Seq(Events) /\ Queued'
<1>1. \A i \in 1..Len(queue) : queue[i] \in Events
  BY DEF MailerShape
<1> QED BY <1>1 DEF MailerShape, Queued

LEMMA OneJob ==
    ASSUME job \in [Events -> JobRow], NEW e \in Events, NEW new \in JobRow,
           job' = [job EXCEPT ![e] = new]
    PROVE  /\ job' \in [Events -> JobRow] /\ job'[e] = new
           /\ \A k \in Events : k # e => job'[k] = job[k] /\ Takings(k)' = Takings(k)
<1>1. /\ job' \in [Events -> JobRow] /\ job'[e] = new
      /\ \A k \in Events : k # e => job'[k] = job[k]
  OBVIOUS
<1> QED BY <1>1 DEF Takings

LEMMA OneHand ==
    ASSUME run \in [Workers -> Hand], NEW w \in Workers, NEW new \in Hand,
           run' = [run EXCEPT ![w] = new], new.event = NoEvent <=> new.pc = "idle",
           \A v \in Workers : run[v].event = NoEvent <=> run[v].pc = "idle"
    PROVE  /\ run' \in [Workers -> Hand] /\ run'[w] = new
           /\ \A v \in Workers : v # w => run'[v] = run[v]
           /\ \A v \in Workers : run'[v].event = NoEvent <=> run'[v].pc = "idle"
<1>1. /\ run' \in [Workers -> Hand] /\ run'[w] = new
      /\ \A v \in Workers : v # w => run'[v] = run[v]
  OBVIOUS
<1> QED BY <1>1

\* A worker goes on to another step of its handler.
LEMMA GoesOn ==
    ASSUME MailerShape, NEW w \in Workers, NEW pc \in Steps \ {"idle"}, run[w].pc # "idle",
           Mailer!Goes(w, pc, NoEvent)
    PROVE  /\ run[w].event \in Events
           /\ run' \in [Workers -> Hand] /\ run'[w].event = run[w].event /\ run'[w].pc = pc
           /\ \A v \in Workers : v # w => run'[v] = run[v]
           /\ \A v \in Workers : run'[v].event = NoEvent <=> run'[v].pc = "idle"
<1> DEFINE new == [run[w] EXCEPT !.pc = pc, !.held = NoEvent]
<1>1. run[w] \in Hand /\ run[w].event # NoEvent
  BY DEF MailerShape
<1>2. run[w].event \in Events
  BY <1>1 DEF Hand
<1>3. run' = [run EXCEPT ![w] = new]
  BY <1>1 DEF Mailer!Goes, MailerShape, Hand
<1>4. /\ new \in Hand /\ new.event = run[w].event /\ new.pc = pc
      /\ (new.event = NoEvent <=> new.pc = "idle")
  BY <1>1, <1>2 DEF Hand
<1> HIDE DEF new
<1> QED BY <1>2, <1>3, <1>4, OneHand DEF MailerShape

LEMMA LetsGo ==
    ASSUME MailerShape, NEW w \in Workers, run' = [run EXCEPT ![w] = Mailer!Free]
    PROVE  /\ run' \in [Workers -> Hand] /\ run'[w].event = NoEvent /\ run'[w].pc = "idle"
           /\ \A v \in Workers : v # w => run'[v] = run[v]
           /\ \A v \in Workers : run'[v].event = NoEvent <=> run'[v].pc = "idle"
<1>1. /\ Mailer!Free \in Hand /\ Mailer!Free.event = NoEvent /\ Mailer!Free.pc = "idle"
  BY DEF Mailer!Free, Hand, Steps
<1> QED BY <1>1, OneHand DEF MailerShape

\* The handler's own steps leave the queue and its jobs alone.
LEMMA HandlerLeavesQueue ==
    ASSUME MailerShape, Queued, UNCHANGED <<queue, job>>
    PROVE  /\ queue' \in Seq(Events) /\ job' \in [Events -> JobRow] /\ Queued'
           /\ \A e \in Events : Takings(e)' = Takings(e) /\ Takings(e) \in Nat
<1>1. queue' \in Seq(Events) /\ Queued'
  BY QueueStays
<1>2. \A e \in Events : Takings(e)' = Takings(e)
  BY DEF Takings
<1> QED BY <1>1, <1>2, TakingsAreNat DEF MailerShape

LEMMA Dispatches ==
    ASSUME MailerInv, NEW w \in Workers, Mailer!dispatch(w)
    PROVE  MailerInv'
<1>1. /\ run[w].pc = "begin" /\ UNCHANGED <<queue, job, mails, log, suppressed>>
      /\ \/ Kind[run[w].event] = "other" /\ Mailer!Goes(w, "ack", NoEvent)
         \/ Kind[run[w].event] = "welcome" /\ Mailer!Goes(w, "preference", NoEvent)
         \/ Kind[run[w].event] = "reset" /\ Mailer!Goes(w, "send", NoEvent)
  BY DEF Mailer!dispatch, Mailer!Handled, Mailer!nvars
<1>2. PICK pc \in {"ack", "preference", "send"} :
        /\ Mailer!Goes(w, pc, NoEvent)
        /\ pc = "ack" => Kind[run[w].event] = "other"
        /\ pc = "preference" => Kind[run[w].event] = "welcome"
  BY <1>1
<1>3. pc \in Steps \ {"idle"} /\ run[w].pc # "idle"
  BY <1>1 DEF Steps
<1>4. /\ run' \in [Workers -> Hand] /\ run'[w].event = run[w].event /\ run'[w].pc = pc
      /\ \A v \in Workers : v # w => run'[v] = run[v]
      /\ \A v \in Workers : run'[v].event = NoEvent <=> run'[v].pc = "idle"
  BY <1>2, <1>3, GoesOn DEF MailerInv
<1>5. /\ queue' \in Seq(Events) /\ job' \in [Events -> JobRow] /\ Queued'
      /\ \A e \in Events : Takings(e)' = Takings(e) /\ Takings(e) \in Nat
  BY <1>1, HandlerLeavesQueue DEF MailerInv
<1>6. MailerShape'
  BY <1>1, <1>4, <1>5 DEF MailerInv, MailerShape
<1>7. Counts'
  <2>1. /\ run'[w].pc \in Ahead => run[w].pc \in Ahead /\ run'[w].event = run[w].event
        /\ run'[w].pc = "log" => run'[w] = run[w]
    BY <1>1, <1>4 DEF Ahead
  <2>2. \A e \in Events : Takings(e) <= Takings(e)'
    BY <1>5
  <2> QED BY <1>1, <1>4, <1>6, <2>1, <2>2, CountsKept DEF MailerInv
<1>8. Settles'
  <2>1. (run[w].pc = "ack" => Settled(run[w].event))'
    BY <1>1, <1>2, <1>4 DEF Settled
  <2>2. run'[w].pc = "preference" => Kind[run'[w].event] = "welcome"
    BY <1>2, <1>4
  <2>3. \A e \in Events : log[e].SENT <= log'[e].SENT
    BY <1>1 DEF MailerInv, MailerShape
  <2> QED BY <1>1, <1>4, <1>6, <2>1, <2>2, <2>3, SettlesKept DEF MailerInv
<1> QED BY <1>5, <1>6, <1>7, <1>8 DEF MailerInv

LEMMA Asks ==
    ASSUME MailerInv, NEW w \in Workers, Mailer!isOptedIn(w)
    PROVE  MailerInv'
<1>1. /\ run[w].pc = "preference" /\ UNCHANGED <<queue, job, mails, log>>
      /\ \/ Mailer!Goes(w, "send", NoEvent) /\ suppressed' = suppressed
         \/ Mailer!Goes(w, "ack", NoEvent) /\ suppressed' = suppressed \cup {run[w].event}
  BY DEF Mailer!isOptedIn, Mailer!Handled
<1>2. PICK pc \in {"ack", "send"} :
        /\ Mailer!Goes(w, pc, NoEvent)
        /\ suppressed' = IF pc = "ack" THEN suppressed \cup {run[w].event} ELSE suppressed
  BY <1>1
<1>3. pc \in Steps \ {"idle"} /\ run[w].pc # "idle"
  BY <1>1 DEF Steps
<1>4. /\ run' \in [Workers -> Hand] /\ run'[w].event = run[w].event /\ run'[w].pc = pc
      /\ \A v \in Workers : v # w => run'[v] = run[v]
      /\ \A v \in Workers : run'[v].event = NoEvent <=> run'[v].pc = "idle"
  BY <1>2, <1>3, GoesOn DEF MailerInv
<1>5. /\ queue' \in Seq(Events) /\ job' \in [Events -> JobRow] /\ Queued'
      /\ \A e \in Events : Takings(e)' = Takings(e) /\ Takings(e) \in Nat
  BY <1>1, HandlerLeavesQueue DEF MailerInv
<1>6. MailerShape'
  BY <1>1, <1>4, <1>5 DEF MailerInv, MailerShape
<1>7. Counts'
  <2>1. /\ run'[w].pc \in Ahead => run[w].pc \in Ahead /\ run'[w].event = run[w].event
        /\ run'[w].pc = "log" => run'[w] = run[w]
    BY <1>1, <1>4 DEF Ahead
  <2>2. \A e \in Events : Takings(e) <= Takings(e)'
    BY <1>5
  <2> QED BY <1>1, <1>4, <1>6, <2>1, <2>2, CountsKept DEF MailerInv
<1>8. Settles'
  <2>1. (run[w].pc = "ack" => Settled(run[w].event))'
    BY <1>1, <1>2, <1>4 DEF Settled
  <2>2. run'[w].pc # "preference" /\ Kind[run[w].event] = "welcome"
    BY <1>1, <1>4 DEF MailerInv, Settles
  <2>3. \A e \in Events : /\ log[e].SENT <= log'[e].SENT
                          /\ e \in suppressed' => e \in suppressed \/ Kind[e] = "welcome"
    BY <1>1, <2>2 DEF MailerInv, MailerShape
  <2> QED BY <1>1, <1>2, <1>4, <1>6, <2>1, <2>2, <2>3, SettlesKept DEF MailerInv
<1> QED BY <1>5, <1>6, <1>7, <1>8 DEF MailerInv

\* What is sent was ahead, and is now to be logged.
LEMMA Sends ==
    ASSUME MailerInv, NEW w \in Workers, Mailer!send(w)
    PROVE  MailerInv'
<1> DEFINE sending == run[w].event
<1>1. /\ run[w].pc = "send" /\ UNCHANGED <<queue, job, log, suppressed>>
      /\ Mailer!Goes(w, "log", NoEvent)
      /\ mails' = [mails EXCEPT ![sending] = @ + 1]
  BY DEF Mailer!send
<1>2. "log" \in Steps \ {"idle"} /\ run[w].pc # "idle"
  BY <1>1 DEF Steps
<1>3. /\ sending \in Events
      /\ run' \in [Workers -> Hand] /\ run'[w].event = sending /\ run'[w].pc = "log"
      /\ \A v \in Workers : v # w => run'[v] = run[v]
      /\ \A v \in Workers : run'[v].event = NoEvent <=> run'[v].pc = "idle"
  BY <1>1, <1>2, GoesOn DEF MailerInv
<1>4. /\ queue' \in Seq(Events) /\ job' \in [Events -> JobRow] /\ Queued'
      /\ \A e \in Events : Takings(e)' = Takings(e) /\ Takings(e) \in Nat
  BY <1>1, HandlerLeavesQueue DEF MailerInv
<1>5. mails' \in [Events -> Nat]
  BY <1>1, <1>3 DEF MailerInv, MailerShape
<1>6. MailerShape'
  BY <1>1, <1>3, <1>4, <1>5 DEF MailerInv, MailerShape
<1>7. ASSUME NEW e \in Events
      PROVE  /\ log'[e].SENT + Cardinality(Holding({"log"}, e)') <= mails'[e]
             /\ mails'[e] + Cardinality(Holding(Ahead, e)') <= Takings(e)'
  <2>1. PICK m \in Nat, s \in Nat, t \in Nat :
          /\ m = mails[e] /\ s = log[e].SENT /\ t = Takings(e)
          /\ Takings(e)' = t /\ log'[e].SENT = s
    <3>1. mails[e] \in Nat /\ log[e].SENT \in Nat
      BY DEF MailerInv, MailerShape
    <3> QED BY <1>1, <1>4, <3>1
  <2>2. s + Cardinality(Holding({"log"}, e)) <= m /\ m + Cardinality(Holding(Ahead, e)) <= t
    BY <2>1 DEF MailerInv, Counts
  <2>3. /\ Cardinality(Holding({"log"}, e)) \in Nat /\ Cardinality(Holding({"log"}, e)') \in Nat
        /\ Cardinality(Holding(Ahead, e)) \in Nat /\ Cardinality(Holding(Ahead, e)') \in Nat
    BY <1>3, HandCounts
  <2>4. CASE e = sending
    <3>1. /\ w \notin Holding({"log"}, e) /\ w \in Holding({"log"}, e)'
          /\ w \in Holding(Ahead, e) /\ w \notin Holding(Ahead, e)'
      BY <1>1, <1>3, <2>4 DEF Holding, Ahead
    <3>2. /\ Cardinality(Holding({"log"}, e)') = Cardinality(Holding({"log"}, e)) + 1
          /\ Cardinality(Holding(Ahead, e)) = Cardinality(Holding(Ahead, e)') + 1
      BY <1>3, <3>1, HandCounts
    <3>3. mails'[e] = m + 1
      BY <1>1, <2>1, <2>4 DEF MailerInv, MailerShape
    <3> QED BY <2>1, <2>2, <2>3, <3>2, <3>3
  <2>5. CASE e # sending
    <3>1. /\ w \notin Holding({"log"}, e) /\ w \notin Holding({"log"}, e)'
          /\ w \notin Holding(Ahead, e) /\ w \notin Holding(Ahead, e)'
      BY <1>3, <2>5 DEF Holding
    <3>2. /\ Cardinality(Holding({"log"}, e)') = Cardinality(Holding({"log"}, e))
          /\ Cardinality(Holding(Ahead, e)') = Cardinality(Holding(Ahead, e))
      BY <1>3, <3>1, HandCounts
    <3>3. mails'[e] = m
      BY <1>1, <2>1, <2>5 DEF MailerInv, MailerShape
    <3> QED BY <2>1, <2>2, <2>3, <3>2, <3>3
  <2> QED BY <2>4, <2>5
<1>8. Counts'
  BY <1>7 DEF Counts
<1>9. Settles'
  <2>1. (run[w].pc = "ack" => Settled(run[w].event))' /\ run'[w].pc # "preference"
    BY <1>3
  <2>2. \A e \in Events : log[e].SENT <= log'[e].SENT
    BY <1>1 DEF MailerInv, MailerShape
  <2> QED BY <1>1, <1>3, <1>6, <2>1, <2>2, SettlesKept DEF MailerInv
<1> QED BY <1>4, <1>6, <1>8, <1>9 DEF MailerInv

\* One row more for an event, SENT or FAILED.
LogRow == [SENT : Nat, FAILED : Nat]

LEMMA OneRow ==
    ASSUME log \in [Events -> LogRow], NEW e \in Events,
           \/ log' = [log EXCEPT ![e].SENT = @ + 1]
           \/ log' = [log EXCEPT ![e].FAILED = @ + 1]
    PROVE  /\ log' \in [Events -> LogRow] /\ log[e].SENT \in Nat
           /\ \/ log'[e].SENT = log[e].SENT + 1
              \/ log' = [log EXCEPT ![e].FAILED = @ + 1] /\ log'[e].SENT = log[e].SENT
           /\ \A k \in Events : k # e => log'[k] = log[k]
<1> DEFINE sent1 == [log[e] EXCEPT !.SENT = @ + 1]
           failed1 == [log[e] EXCEPT !.FAILED = @ + 1]
<1>1. log[e] \in LogRow
  OBVIOUS
<1>2. /\ sent1 \in LogRow /\ sent1.SENT = log[e].SENT + 1 /\ log[e].SENT \in Nat
      /\ failed1 \in LogRow /\ failed1.SENT = log[e].SENT
  BY <1>1 DEF LogRow
<1>3. \/ log' = [log EXCEPT ![e] = sent1]
      \/ log' = [log EXCEPT ![e] = failed1] /\ log' = [log EXCEPT ![e].FAILED = @ + 1]
  OBVIOUS
<1> HIDE DEF sent1, failed1
<1> QED BY <1>2, <1>3

LEMMA Logs ==
    ASSUME MailerInv, NEW w \in Workers, Mailer!writeSentLog(w)
    PROVE  MailerInv'
<1> DEFINE logging == run[w].event
<1>1. /\ run[w].pc = "log" /\ UNCHANGED <<queue, job, mails, suppressed>>
      /\ Mailer!Goes(w, "ack", NoEvent)
      /\ log' = [log EXCEPT ![logging].SENT = @ + 1]
  BY DEF Mailer!writeSentLog, Mailer!Handled
<1>2. "ack" \in Steps \ {"idle"} /\ run[w].pc # "idle"
  BY <1>1 DEF Steps
<1>3. /\ logging \in Events
      /\ run' \in [Workers -> Hand] /\ run'[w].event = logging /\ run'[w].pc = "ack"
      /\ \A v \in Workers : v # w => run'[v] = run[v]
      /\ \A v \in Workers : run'[v].event = NoEvent <=> run'[v].pc = "idle"
  BY <1>1, <1>2, GoesOn DEF MailerInv
<1>4. /\ queue' \in Seq(Events) /\ job' \in [Events -> JobRow] /\ Queued'
      /\ \A e \in Events : Takings(e)' = Takings(e) /\ Takings(e) \in Nat
  BY <1>1, HandlerLeavesQueue DEF MailerInv
<1>5. /\ log' \in [Events -> [SENT : Nat, FAILED : Nat]]
      /\ log'[logging].SENT = log[logging].SENT + 1 /\ log[logging].SENT \in Nat
      /\ \A e \in Events : e # logging => log'[e].SENT = log[e].SENT
  <2>1. log \in [Events -> LogRow]
    BY DEF MailerInv, MailerShape, LogRow
  <2> HIDE DEF logging
  <2>2. /\ log' \in [Events -> LogRow] /\ log[logging].SENT \in Nat
        /\ \A k \in Events : k # logging => log'[k] = log[k]
    BY <1>1, <1>3, <2>1, OneRow
  <2>3. log'[logging].SENT = log[logging].SENT + 1
    <3>1. log[logging] \in LogRow /\ log'[logging] = [log[logging] EXCEPT !.SENT = @ + 1]
      BY <1>1, <1>3, <2>1
    <3> QED BY <3>1 DEF LogRow
  <2> QED BY <2>2, <2>3 DEF LogRow
<1>6. MailerShape'
  BY <1>1, <1>3, <1>4, <1>5 DEF MailerInv, MailerShape
<1>7. Counts'
  <2>1. /\ run'[w].pc \notin Ahead /\ run'[w].pc # "log"
        /\ w \in Holding({"log"}, logging) /\ w \notin Holding({"log"}, logging)'
    BY <1>1, <1>3 DEF Ahead, Holding
  <2>2. \A e \in Events : /\ Takings(e) <= Takings(e)'
                          /\ \/ log'[e].SENT = log[e].SENT
                             \/ /\ log'[e].SENT = log[e].SENT + 1
                                /\ w \in Holding({"log"}, e) /\ w \notin Holding({"log"}, e)'
    <3>1. ASSUME NEW e \in Events PROVE Takings(e) <= Takings(e)'
      BY <1>4
    <3>2. ASSUME NEW e \in Events, e # logging PROVE log'[e].SENT = log[e].SENT
      BY <1>5, <3>2
    <3>3. ASSUME NEW e \in Events, e = logging
          PROVE  /\ log'[e].SENT = log[e].SENT + 1
                 /\ w \in Holding({"log"}, e) /\ w \notin Holding({"log"}, e)'
      <4>1. log'[e].SENT = log[e].SENT + 1 /\ w \in Holding({"log"}, e)
        BY <1>5, <2>1, <3>3
      <4>2. w \notin Holding({"log"}, e)'
        BY <1>3 DEF Holding
      <4> QED BY <4>1, <4>2
    <3> QED BY <3>1, <3>2, <3>3
  <2> QED BY <1>1, <1>3, <1>6, <2>1, <2>2, CountsKept DEF MailerInv
<1>8. Settles'
  <2>1. (run[w].pc = "ack" => Settled(run[w].event))' /\ run'[w].pc # "preference"
    <3>1. log'[logging].SENT > 0
      BY <1>5
    <3> QED BY <1>3, <3>1 DEF Settled
  <2>2. \A e \in Events : log[e].SENT <= log'[e].SENT
    <3>1. \A e \in Events : log[e].SENT \in Nat
      BY DEF MailerInv, MailerShape
    <3> QED BY <1>5, <3>1
  <2> QED BY <1>1, <1>3, <1>6, <2>1, <2>2, SettlesKept DEF MailerInv
<1> QED BY <1>4, <1>6, <1>7, <1>8 DEF MailerInv

LEMMA SendFails ==
    ASSUME MailerInv, NEW w \in Workers, Mailer!SendOrLogFails(w)
    PROVE  MailerInv'
<1>1. /\ run[w].pc \in {"send", "log"} /\ UNCHANGED <<queue, job, mails, log, suppressed>>
      /\ Mailer!Goes(w, "catch", NoEvent)
  BY DEF Mailer!SendOrLogFails, Mailer!nvars
<1>2. "catch" \in Steps \ {"idle"} /\ run[w].pc # "idle"
  BY <1>1 DEF Steps
<1>3. /\ run' \in [Workers -> Hand] /\ run'[w].pc = "catch"
      /\ \A v \in Workers : v # w => run'[v] = run[v]
      /\ \A v \in Workers : run'[v].event = NoEvent <=> run'[v].pc = "idle"
  BY <1>1, <1>2, GoesOn DEF MailerInv
<1>4. /\ queue' \in Seq(Events) /\ job' \in [Events -> JobRow] /\ Queued'
      /\ \A e \in Events : Takings(e)' = Takings(e) /\ Takings(e) \in Nat
  BY <1>1, HandlerLeavesQueue DEF MailerInv
<1>5. MailerShape'
  BY <1>1, <1>3, <1>4 DEF MailerInv, MailerShape
<1>6. Counts'
  <2>1. run'[w].pc \notin Ahead /\ run'[w].pc # "log"
    BY <1>3 DEF Ahead
  <2>2. \A e \in Events : Takings(e) <= Takings(e)'
    BY <1>4
  <2> QED BY <1>1, <1>3, <1>5, <2>1, <2>2, CountsKept DEF MailerInv
<1>7. Settles'
  <2>1. (run[w].pc = "ack" => Settled(run[w].event))' /\ run'[w].pc # "preference"
    BY <1>3
  <2>2. \A e \in Events : log[e].SENT <= log'[e].SENT
    BY <1>1 DEF MailerInv, MailerShape
  <2> QED BY <1>1, <1>3, <1>5, <2>1, <2>2, SettlesKept DEF MailerInv
<1> QED BY <1>4, <1>5, <1>6, <1>7 DEF MailerInv

\* A worker lets go of its job, whatever it says of it.
LEMMA Released ==
    ASSUME MailerInv, NEW w \in Workers, run' = [run EXCEPT ![w] = Mailer!Free],
           UNCHANGED <<queue, mails, suppressed>>,
           log' \in [Events -> LogRow], job' \in [Events -> JobRow],
           \A e \in Events : /\ log'[e].SENT = log[e].SENT
                             /\ Takings(e) <= Takings(e)'
                             /\ job[e].st = "waiting" => job'[e].st = "waiting"
                             /\ job'[e].st = "done" => job[e].st = "done" \/ Settled(e)
    PROVE  MailerInv'
<1>1. /\ run' \in [Workers -> Hand] /\ run'[w].event = NoEvent /\ run'[w].pc = "idle"
      /\ \A v \in Workers : v # w => run'[v] = run[v]
      /\ \A v \in Workers : run'[v].event = NoEvent <=> run'[v].pc = "idle"
  BY LetsGo DEF MailerInv
<1>2. queue' \in Seq(Events) /\ Queued'
  BY QueueStays DEF MailerInv
<1>3. MailerShape'
  BY <1>1, <1>2 DEF MailerInv, MailerShape, LogRow
<1>4. Counts'
  <2>1. run'[w].pc \notin Ahead /\ run'[w].pc # "log"
    BY <1>1 DEF Ahead
  <2> QED BY <1>1, <1>3, <2>1, CountsKept DEF MailerInv
<1>5. Settles'
  <2>1. (run[w].pc = "ack" => Settled(run[w].event))' /\ run'[w].pc # "preference"
    BY <1>1
  <2>2. ASSUME NEW e \in Events
        PROVE  /\ log[e].SENT <= log'[e].SENT
               /\ job'[e].st = "done" => job[e].st = "done" \/ Settled(e)'
    <3>1. log[e].SENT \in Nat
      BY DEF MailerInv, MailerShape
    <3> QED BY <3>1 DEF Settled
  <2> QED BY <1>1, <1>3, <2>1, <2>2, SettlesKept DEF MailerInv
<1> QED BY <1>2, <1>3, <1>4, <1>5 DEF MailerInv

LEMMA Acks ==
    ASSUME MailerInv, NEW w \in Workers, Mailer!Ack(w), UNCHANGED Mailer!nvars
    PROVE  MailerInv'
<1>0. PICK e \in Events : e = run[w].event /\ Settled(e)
  <2>1. run[w] \in Hand /\ run[w].event # NoEvent /\ run[w].pc = "ack"
    BY DEF MailerInv, MailerShape, Mailer!Ack
  <2> QED BY <2>1 DEF MailerInv, MailerShape, Hand, Settles
<1> DEFINE new == [job[e] EXCEPT !.st = "done"]
<1>1. /\ run[w].pc = "ack" /\ run' = [run EXCEPT ![w] = Mailer!Free]
      /\ UNCHANGED <<queue, mails, log, suppressed>>
      /\ job' = IF Mailer!Owns(w) THEN [job EXCEPT ![e].st = "done"] ELSE job
  BY <1>0 DEF Mailer!Ack, Mailer!nvars
<1>2. e \in Events /\ Settled(e) /\ job \in [Events -> JobRow]
  BY <1>0 DEF MailerInv, MailerShape
<1>3. log' \in [Events -> LogRow] /\ \A k \in Events : log'[k].SENT = log[k].SENT
  BY <1>1 DEF MailerInv, MailerShape, LogRow
<1>4. CASE Mailer!Owns(w)
  <2>1. job' = [job EXCEPT ![e] = new] /\ job[e].st = "active"
    BY <1>0, <1>1, <1>2, <1>4 DEF Mailer!Owns
  <2>2. new \in JobRow /\ new.st = "done" /\ new.tries = job[e].tries /\ new.stalls = job[e].stalls
    BY <1>2 DEF JobRow, JobStates
  <2> HIDE DEF new
  <2>3. /\ job' \in [Events -> JobRow] /\ job'[e] = new
        /\ \A k \in Events : k # e => job'[k] = job[k] /\ Takings(k)' = Takings(k)
    BY <1>2, <2>1, <2>2, OneJob
  <2>4. Takings(e)' = Takings(e)
    BY <2>1, <2>2, <2>3 DEF Takings
  <2>5. \A k \in Events : Takings(k) \in Nat
    BY TakingsAreNat DEF MailerInv
  <2>6. ASSUME NEW k \in Events
        PROVE  /\ Takings(k) <= Takings(k)'
               /\ job[k].st = "waiting" => job'[k].st = "waiting"
               /\ job'[k].st = "done" => job[k].st = "done" \/ Settled(k)
    BY <1>2, <2>1, <2>3, <2>4, <2>5
  <2> QED BY <1>1, <1>3, <2>3, <2>6, Released
<1>5. CASE ~ Mailer!Owns(w)
  <2>1. \A k \in Events : Takings(k)' = Takings(k) /\ Takings(k) \in Nat
    BY <1>1, <1>5, TakingsAreNat DEF MailerInv, Takings
  <2>2. \A k \in Events : Takings(k) <= Takings(k)'
    BY <2>1
  <2> QED BY <1>1, <1>2, <1>3, <1>5, <2>2, Released
<1> QED BY <1>4, <1>5

\* Nothing thrown makes a job done, or adds to it less than it took.
LEMMA Throws ==
    ASSUME MailerInv, NEW w \in Workers, run[w].pc # "idle", Mailer!Rethrow(w),
           UNCHANGED <<mails, suppressed>>,
           log' \in [Events -> LogRow], \A e \in Events : log'[e].SENT = log[e].SENT
    PROVE  MailerInv'
<1>0. PICK e \in Events : e = run[w].event
  <2>1. run[w] \in Hand /\ run[w].event # NoEvent
    BY DEF MailerInv, MailerShape
  <2> QED BY <2>1 DEF Hand
<1> DEFINE new == [job[e] EXCEPT !.tries = @ + 1,
                                 !.st = IF job[e].tries + 1 < Attempts THEN "delayed" ELSE "failed"]
<1>1. /\ run' = [run EXCEPT ![w] = Mailer!Free] /\ UNCHANGED queue
      /\ job' = IF ~ Mailer!Owns(w) THEN job
                ELSE [job EXCEPT ![e].tries = @ + 1,
                                 ![e].st = IF job[e].tries + 1 < Attempts THEN "delayed" ELSE "failed"]
  BY <1>0 DEF Mailer!Rethrow
<1>2. e \in Events /\ job \in [Events -> JobRow] /\ job[e] \in JobRow
  BY DEF MailerInv, MailerShape
<1>3. \A k \in Events : Takings(k) \in Nat
  BY TakingsAreNat DEF MailerInv
<1>4. CASE Mailer!Owns(w)
  <2>1. job[e].st = "active"
    BY <1>0, <1>4 DEF Mailer!Owns
  <2>2. job' = [job EXCEPT ![e] = new]
    <3>1. job' = [job EXCEPT ![e].tries = @ + 1,
                             ![e].st = IF job[e].tries + 1 < Attempts THEN "delayed" ELSE "failed"]
      BY <1>1, <1>4
    <3> QED BY <1>2, <3>1 DEF JobRow
  <2>3. /\ new \in JobRow /\ new.st \in {"delayed", "failed"} /\ new.tries = job[e].tries + 1
        /\ new.stalls = job[e].stalls
    <3>1. /\ job[e].tries + 1 \in Nat
          /\ (IF job[e].tries + 1 < Attempts THEN "delayed" ELSE "failed") \in JobStates
      BY <1>2 DEF JobRow, JobStates
    <3>2. new \in JobRow
      BY <1>2, <3>1 DEF JobRow
    <3> QED BY <1>2, <3>2 DEF JobRow
  <2> HIDE DEF new
  <2>4. /\ job' \in [Events -> JobRow] /\ job'[e] = new
        /\ \A k \in Events : k # e => job'[k] = job[k] /\ Takings(k)' = Takings(k)
    BY <1>2, <2>2, <2>3, OneJob
  <2>5. Takings(e) <= Takings(e)'
    BY <1>2, <2>1, <2>3, <2>4 DEF Takings, JobRow
  <2>6. ASSUME NEW k \in Events
        PROVE  /\ Takings(k) <= Takings(k)'
               /\ job[k].st = "waiting" => job'[k].st = "waiting"
               /\ job'[k].st = "done" => job[k].st = "done"
    BY <1>3, <2>1, <2>3, <2>4, <2>5
  <2> QED BY <1>1, <2>4, <2>6, Released
<1>5. CASE ~ Mailer!Owns(w)
  <2>1. job' = job
    BY <1>1, <1>5
  <2>2. ASSUME NEW k \in Events PROVE Takings(k) <= Takings(k)'
    BY <1>3, <2>1 DEF Takings
  <2> QED BY <1>1, <1>2, <2>1, <2>2, Released
<1> QED BY <1>4, <1>5

LEMMA LogsAndRethrows ==
    ASSUME MailerInv, NEW w \in Workers, Mailer!LogAndRethrow(w)
    PROVE  MailerInv'
<1> DEFINE e == run[w].event
<1>1. /\ run[w].pc = "catch" /\ Mailer!Rethrow(w) /\ UNCHANGED <<mails, suppressed>>
      /\ log' = [log EXCEPT ![e].FAILED = @ + 1]
  BY DEF Mailer!LogAndRethrow
<1>2. e \in Events /\ log \in [Events -> LogRow]
  <2>1. run[w] \in Hand /\ run[w].event # NoEvent
    BY <1>1 DEF MailerInv, MailerShape
  <2> QED BY <2>1 DEF MailerInv, MailerShape, Hand, LogRow
<1> HIDE DEF e
<1>3. log' \in [Events -> LogRow] /\ \A k \in Events : k # e => log'[k] = log[k]
  BY <1>1, <1>2, OneRow
<1>4. log'[e].SENT = log[e].SENT
  <2>1. log[e] \in LogRow /\ log'[e] = [log[e] EXCEPT !.FAILED = @ + 1]
    BY <1>1, <1>2
  <2> QED BY <2>1 DEF LogRow
<1> QED BY <1>1, <1>3, <1>4, Throws

LEMMA IsNotCaught ==
    ASSUME MailerInv, NEW w \in Workers, Mailer!Uncaught(w), UNCHANGED Mailer!nvars
    PROVE  MailerInv'
<1>1. /\ run[w].pc # "idle" /\ Mailer!Rethrow(w) /\ UNCHANGED <<mails, log, suppressed>>
  BY DEF Mailer!Uncaught, Mailer!Throws, Mailer!nvars
<1>2. log' \in [Events -> LogRow] /\ \A e \in Events : log'[e].SENT = log[e].SENT
  BY <1>1 DEF MailerInv, MailerShape, LogRow
<1> QED BY <1>1, <1>2, Throws

LEMMA WorkerDies ==
    ASSUME MailerInv, NEW w \in Workers, Mailer!Dies(w), UNCHANGED Mailer!nvars
    PROVE  MailerInv'
<1>1. /\ run' = [run EXCEPT ![w] = Mailer!Free] /\ UNCHANGED <<queue, job, mails, log, suppressed>>
  BY DEF Mailer!Dies, Mailer!nvars
<1>2. /\ log' \in [Events -> LogRow] /\ job' \in [Events -> JobRow]
      /\ \A e \in Events : log'[e].SENT = log[e].SENT
  BY <1>1 DEF MailerInv, MailerShape, LogRow
<1>3. ASSUME NEW e \in Events PROVE Takings(e) <= Takings(e)'
  <2>1. Takings(e)' = Takings(e) /\ Takings(e) \in Nat
    BY <1>1, TakingsAreNat DEF Takings, MailerInv
  <2> QED BY <2>1
<1> QED BY <1>1, <1>2, <1>3, Released

LEMMA Takes ==
    ASSUME MailerInv, NEW w \in Workers, Mailer!Take(w), UNCHANGED Mailer!nvars
    PROVE  MailerInv'
<1>0. PICK taken \in Events : taken = Head(queue)
  BY DEF MailerInv, MailerShape, Mailer!Take
<1> DEFINE new == [job[taken] EXCEPT !.st = "active", !.owner = w]
           hand == [event |-> taken, pc |-> "begin", held |-> NoEvent]
<1>1. /\ run[w] = Mailer!Free /\ queue # <<>> /\ queue' = Tail(queue)
      /\ run' = [run EXCEPT ![w] = hand]
      /\ job' = [job EXCEPT ![taken].st = "active", ![taken].owner = w]
      /\ UNCHANGED <<mails, log, suppressed>>
  BY <1>0 DEF Mailer!Take, Mailer!nvars
<1>2. /\ taken \in Events /\ job[taken].st = "waiting"
      /\ queue' \in Seq(Events) /\ Queued'
  <2>1. \A k \in Events : k # Head(queue) => job'[k] = job[k]
    BY <1>0, <1>1 DEF MailerInv, MailerShape
  <2> QED BY <1>0, <1>1, <2>1, OffTheQueue DEF MailerInv
<1>3. job[taken] \in JobRow
  BY <1>2 DEF MailerInv, MailerShape
<1>4. job' = [job EXCEPT ![taken] = new]
  BY <1>1, <1>2, <1>3 DEF MailerInv, MailerShape, JobRow
<1>5. /\ new \in JobRow /\ new.st = "active" /\ new.tries = job[taken].tries
      /\ new.stalls = job[taken].stalls
  BY <1>3 DEF JobRow, JobStates, Owners
<1> HIDE DEF new
<1>6. /\ job' \in [Events -> JobRow] /\ job'[taken] = new
      /\ \A k \in Events : k # taken => job'[k] = job[k] /\ Takings(k)' = Takings(k)
  BY <1>2, <1>4, <1>5, OneJob DEF MailerInv, MailerShape
<1>7. Takings(taken)' = Takings(taken) + 1
  BY <1>2, <1>3, <1>5, <1>6 DEF Takings, JobRow
<1>8. /\ hand \in Hand /\ hand.event = taken /\ hand.pc = "begin" /\ taken # NoEvent
  BY <1>2, WorkersAreFinite DEF Hand, Steps
<1> HIDE DEF hand
<1>9. /\ run' \in [Workers -> Hand] /\ run'[w] = hand
      /\ \A v \in Workers : v # w => run'[v] = run[v]
      /\ \A v \in Workers : run'[v].event = NoEvent <=> run'[v].pc = "idle"
  BY <1>1, <1>8, OneHand DEF MailerInv, MailerShape
<1>10. MailerShape'
  BY <1>1, <1>2, <1>6, <1>9 DEF MailerInv, MailerShape
<1>11. ASSUME NEW e \in Events
       PROVE  /\ log'[e].SENT + Cardinality(Holding({"log"}, e)') <= mails'[e]
              /\ mails'[e] + Cardinality(Holding(Ahead, e)') <= Takings(e)'
  <2>1. PICK m \in Nat, s \in Nat, t \in Nat :
          /\ m = mails[e] /\ s = log[e].SENT /\ t = Takings(e)
          /\ mails'[e] = m /\ log'[e].SENT = s
    <3>1. mails[e] \in Nat /\ log[e].SENT \in Nat /\ Takings(e) \in Nat
      BY TakingsAreNat DEF MailerInv, MailerShape
    <3> QED BY <1>1, <3>1
  <2>2. s + Cardinality(Holding({"log"}, e)) <= m /\ m + Cardinality(Holding(Ahead, e)) <= t
    BY <2>1 DEF MailerInv, Counts
  <2>3. /\ Cardinality(Holding({"log"}, e)) \in Nat /\ Cardinality(Holding({"log"}, e)') \in Nat
        /\ Cardinality(Holding(Ahead, e)) \in Nat /\ Cardinality(Holding(Ahead, e)') \in Nat
    BY <1>9, HandCounts
  <2>4. /\ run[w].pc = "idle" /\ run'[w].pc = "begin" /\ run'[w].event = taken
    BY <1>1, <1>8, <1>9 DEF Mailer!Free
  <2>5. Cardinality(Holding({"log"}, e)') = Cardinality(Holding({"log"}, e))
    <3>1. w \notin Holding({"log"}, e) /\ w \notin Holding({"log"}, e)'
      BY <2>4 DEF Holding
    <3> QED BY <1>9, <3>1, HandCounts
  <2>6. CASE e = taken
    <3>1. w \notin Holding(Ahead, e) /\ w \in Holding(Ahead, e)'
      BY <2>4, <2>6 DEF Holding, Ahead
    <3>2. Cardinality(Holding(Ahead, e)') = Cardinality(Holding(Ahead, e)) + 1
      BY <1>9, <3>1, HandCounts
    <3>3. Takings(e)' = t + 1
      BY <1>7, <2>1, <2>6
    <3> QED BY <2>1, <2>2, <2>3, <2>5, <3>2, <3>3
  <2>7. CASE e # taken
    <3>1. w \notin Holding(Ahead, e) /\ w \notin Holding(Ahead, e)'
      BY <2>4, <2>7 DEF Holding, Ahead
    <3>2. Cardinality(Holding(Ahead, e)') = Cardinality(Holding(Ahead, e))
      BY <1>9, <3>1, HandCounts
    <3>3. Takings(e)' = t
      BY <1>6, <2>1, <2>7
    <3> QED BY <2>1, <2>2, <2>3, <2>5, <3>2, <3>3
  <2> QED BY <2>6, <2>7
<1>12. Counts'
  BY <1>11 DEF Counts
<1>13. Settles'
  <2>1. (run[w].pc = "ack" => Settled(run[w].event))' /\ run'[w].pc # "preference"
    BY <1>8, <1>9
  <2>2. ASSUME NEW e \in Events
        PROVE  /\ log[e].SENT <= log'[e].SENT
               /\ job'[e].st = "done" => job[e].st = "done"
    <3>1. log[e].SENT \in Nat
      BY DEF MailerInv, MailerShape
    <3> QED BY <1>1, <1>5, <1>6, <3>1
  <2> QED BY <1>1, <1>9, <1>10, <2>1, <2>2, SettlesKept DEF MailerInv
<1> QED BY <1>2, <1>10, <1>12, <1>13 DEF MailerInv

\* A job's step while no worker moves.
LEMMA JobMoves ==
    ASSUME MailerInv, NEW e \in Events, NEW new \in JobRow, job' = [job EXCEPT ![e] = new],
           new.st # "done", job[e].st # "waiting",
           \/ new.st = "waiting" /\ (queue' = Append(queue, e) \/ queue' = <<e>> \o queue)
           \/ new.st # "waiting" /\ queue' = queue,
           UNCHANGED <<run, mails, log, suppressed>>,
           Takings(e) <= Takings(e)'
    PROVE  MailerInv'
<1>1. /\ job' \in [Events -> JobRow] /\ job'[e] = new
      /\ \A k \in Events : k # e => job'[k] = job[k] /\ Takings(k)' = Takings(k)
  BY OneJob DEF MailerInv, MailerShape
<1>2. queue' \in Seq(Events) /\ Queued'
  BY <1>1, OnTheQueue, QueueStays DEF MailerInv
<1>3. MailerShape'
  BY <1>1, <1>2 DEF MailerInv, MailerShape
<1>4. ASSUME NEW k \in Events
      PROVE  /\ log'[k].SENT + Cardinality(Holding({"log"}, k)') <= mails'[k]
             /\ mails'[k] + Cardinality(Holding(Ahead, k)') <= Takings(k)'
  <2>1. Holding({"log"}, k)' = Holding({"log"}, k) /\ Holding(Ahead, k)' = Holding(Ahead, k)
    BY DEF Holding
  <2>2. mails[k] \in Nat /\ Takings(k) \in Nat /\ Takings(k)' \in Nat
    <3>1. mails[k] \in Nat /\ job'[k] \in JobRow
      BY <1>1 DEF MailerInv, MailerShape
    <3>2. Takings(k)' \in Nat
      BY <3>1 DEF Takings, JobRow
    <3> QED BY <3>1, <3>2, TakingsAreNat DEF MailerInv
  <2>3. Takings(k) <= Takings(k)'
    BY <1>1, <2>2
  <2>4. Cardinality(Holding(Ahead, k)) \in Nat
    <3>1. Holding(Ahead, k) \in SUBSET Workers
      BY DEF Holding
    <3> QED BY <3>1, WorkersAreFinite, FS_Subset, FS_CardinalityType
  <2> QED BY <2>1, <2>2, <2>3, <2>4 DEF MailerInv, Counts
<1>5. Counts'
  BY <1>4 DEF Counts
<1>6. Settles'
  <2>1. ASSUME NEW k \in Events
        PROVE  /\ log[k].SENT <= log'[k].SENT
               /\ job'[k].st = "done" => job[k].st = "done"
    <3>1. log[k].SENT \in Nat
      BY DEF MailerInv, MailerShape
    <3> QED BY <1>1, <3>1
  <2> QED BY <1>3, <2>1, SettlesKept DEF MailerInv
<1> QED BY <1>2, <1>3, <1>5, <1>6 DEF MailerInv

LEMMA Queues ==
    ASSUME MailerInv, NEW e \in Events,
           Mailer!publish(e) \/ Mailer!BackoffEnds(e) \/ Mailer!Stalls(e), UNCHANGED Mailer!nvars
    PROVE  MailerInv'
<1>1. job[e] \in JobRow /\ job \in [Events -> JobRow]
  BY DEF MailerInv, MailerShape
<1>2. UNCHANGED <<run, mails, log, suppressed>>
  BY DEF Mailer!publish, Mailer!BackoffEnds, Mailer!Stalls, Mailer!nvars
<1>3. CASE Mailer!publish(e) \/ Mailer!BackoffEnds(e)
  <2> DEFINE new == [job[e] EXCEPT !.st = "waiting"]
  <2>1. /\ job[e].st \in {"unsent", "delayed"} /\ queue' = Append(queue, e)
        /\ job' = [job EXCEPT ![e] = new]
    BY <1>3 DEF Mailer!publish, Mailer!BackoffEnds
  <2>2. /\ new \in JobRow /\ new.st = "waiting" /\ new.tries = job[e].tries
        /\ new.stalls = job[e].stalls
    BY <1>1 DEF JobRow, JobStates
  <2> HIDE DEF new
  <2>3. Takings(e) <= Takings(e)'
    <3>1. job'[e] = new
      BY <1>1, <2>1
    <3> QED BY <1>1, <2>1, <2>2, <3>1 DEF Takings, JobRow
  <2> QED BY <1>2, <2>1, <2>2, <2>3, JobMoves
<1>4. CASE Mailer!Stalls(e) /\ job[e].stalls < MaxStalls
  <2> DEFINE new == [job[e] EXCEPT !.st = "waiting", !.stalls = @ + 1]
  <2>1. /\ job[e].st = "active" /\ queue' = <<e>> \o queue
        /\ job' = [job EXCEPT ![e].st = "waiting", ![e].stalls = @ + 1]
    BY <1>4 DEF Mailer!Stalls
  <2>2. job' = [job EXCEPT ![e] = new]
    BY <1>1, <2>1 DEF JobRow
  <2>3. /\ new \in JobRow /\ new.st = "waiting" /\ new.tries = job[e].tries
        /\ new.stalls = job[e].stalls + 1
    <3>1. job[e].stalls + 1 \in Nat /\ "waiting" \in JobStates
      BY <1>1 DEF JobRow, JobStates
    <3>2. new \in JobRow
      BY <1>1, <3>1 DEF JobRow
    <3> QED BY <1>1, <3>2 DEF JobRow
  <2> HIDE DEF new
  <2>4. Takings(e) <= Takings(e)'
    <3>1. job'[e] = new
      BY <1>1, <2>2
    <3> QED BY <1>1, <2>1, <2>3, <3>1 DEF Takings, JobRow
  <2> QED BY <1>2, <2>1, <2>2, <2>3, <2>4, JobMoves
<1>5. CASE Mailer!Stalls(e) /\ ~ (job[e].stalls < MaxStalls)
  <2> DEFINE new == [job[e] EXCEPT !.st = "failed"]
  <2>1. /\ job[e].st = "active" /\ queue' = queue
        /\ job' = [job EXCEPT ![e] = new]
    BY <1>5 DEF Mailer!Stalls
  <2>2. /\ new \in JobRow /\ new.st = "failed" /\ new.tries = job[e].tries
        /\ new.stalls = job[e].stalls
    BY <1>1 DEF JobRow, JobStates
  <2> HIDE DEF new
  <2>3. Takings(e) <= Takings(e)'
    <3>1. job'[e] = new
      BY <1>1, <2>1
    <3> QED BY <1>1, <2>1, <2>2, <3>1 DEF Takings, JobRow
  <2> QED BY <1>2, <2>1, <2>2, <2>3, JobMoves
<1> QED BY <1>3, <1>4, <1>5

LEMMA MailerRests ==
    ASSUME MailerInv, UNCHANGED <<queue, job, run, mails, log, suppressed>>
    PROVE  MailerInv'
<1>1. \A e \in Events : /\ Holding({"log"}, e)' = Holding({"log"}, e)
                        /\ Holding(Ahead, e)' = Holding(Ahead, e) /\ Takings(e)' = Takings(e)
  BY DEF Holding, Takings
<1>2. MailerShape' /\ Queued' /\ Settles'
  BY DEF MailerInv, MailerShape, Queued, Settles, Settled
<1>3. Counts'
  BY <1>1 DEF MailerInv, Counts
<1> QED BY <1>2, <1>3 DEF MailerInv

LEMMA MailerStarts ==
    ASSUME Mailer!Init
    PROVE  MailerInv
<1>1. /\ queue = <<>> /\ suppressed = {}
      /\ job = [e \in Events |-> [st |-> "unsent", tries |-> 0, stalls |-> 0,
                                  owner |-> CHOOSE w \in Workers : TRUE]]
      /\ run = [w \in Workers |-> Mailer!Free]
      /\ mails = [e \in Events |-> 0] /\ log = [e \in Events |-> [SENT |-> 0, FAILED |-> 0]]
  BY DEF Mailer!Init, Mailer!QueueInit
<1>2. Mailer!Free \in Hand /\ Mailer!Free.event = NoEvent /\ Mailer!Free.pc = "idle"
  BY DEF Mailer!Free, Hand, Steps
<1>3. MailerShape
  <2>1. queue \in Seq(Events) /\ run \in [Workers -> Hand]
    BY <1>1, <1>2
  <2>2. job \in [Events -> JobRow]
    <3>1. "unsent" \in JobStates /\ (CHOOSE w \in Workers : TRUE) \in Owners
      BY DEF JobStates, Owners
    <3> QED BY <1>1, <3>1 DEF JobRow
  <2>3. mails \in [Events -> Nat] /\ log \in [Events -> [SENT : Nat, FAILED : Nat]]
    BY <1>1
  <2> QED BY <1>1, <1>2, <2>1, <2>2, <2>3 DEF MailerShape
<1>4. Queued
  BY <1>1 DEF Queued
<1>5. Settles
  BY <1>1, <1>2 DEF Settles
<1>6. ASSUME NEW e \in Events
      PROVE  /\ log[e].SENT + Cardinality(Holding({"log"}, e)) <= mails[e]
             /\ mails[e] + Cardinality(Holding(Ahead, e)) <= Takings(e)
  <2>1. Holding({"log"}, e) = {} /\ Holding(Ahead, e) = {}
    BY <1>1, <1>2 DEF Holding, Ahead
  <2>2. log[e].SENT = 0 /\ mails[e] = 0 /\ Takings(e) = 0
    BY <1>1 DEF Takings
  <2> QED BY <2>1, <2>2, FS_EmptySet
<1>7. Counts
  BY <1>6 DEF Counts
<1> QED BY <1>3, <1>4, <1>5, <1>7 DEF MailerInv

LEMMA MailerKept ==
    ASSUME MailerInv, [Mailer!Next]_(Mailer!vars)
    PROVE  MailerInv'
<1>1. CASE UNCHANGED Mailer!vars
  BY <1>1, MailerRests DEF Mailer!vars, Mailer!qvars, Mailer!nvars
<1>2. CASE Mailer!updatePreference
  BY <1>2, MailerRests DEF Mailer!updatePreference, Mailer!qvars
<1> QED BY <1>1, <1>2, Dispatches, Asks, Sends, Logs, SendFails, LogsAndRethrows, IsNotCaught,
           WorkerDies, Takes, Acks, Queues
    DEF Mailer!Next

\* Whatever throws, stalls or dies while jobs are handled: a job done has its mail
\* out and logged, unless the preference held it back, and no mail is repeated more
\* often than the job was given back to the queue.
THEOREM DoneIsMailed == Mailer!Spec => []DoneMeansMailed
<1>1. Mailer!Init => MailerInv
  BY MailerStarts
<1>2. MailerInv /\ [Mailer!Next]_(Mailer!vars) => MailerInv'
  BY MailerKept
<1>3. MailerInv => DoneMeansMailed
  <2> SUFFICES ASSUME MailerInv, NEW e \in Events
               PROVE  /\ job[e].st = "done" /\ Kind[e] # "other" /\ e \notin suppressed
                           => log[e].SENT > 0
                      /\ e \in suppressed => Kind[e] = "welcome"
                      /\ log[e].SENT <= mails[e]
                      /\ mails[e] <= job[e].tries + job[e].stalls + 1
    BY DEF DoneMeansMailed, Mailer!DoneMeansMailed
  <2>1. /\ Cardinality(Holding({"log"}, e)) \in Nat /\ Cardinality(Holding(Ahead, e)) \in Nat
    <3>1. Holding({"log"}, e) \in SUBSET Workers /\ Holding(Ahead, e) \in SUBSET Workers
      BY DEF Holding
    <3> QED BY <3>1, WorkersAreFinite, FS_Subset, FS_CardinalityType
  <2>2. mails[e] \in Nat /\ log[e].SENT \in Nat /\ job[e] \in JobRow
    BY DEF MailerInv, MailerShape
  <2>3. log[e].SENT <= mails[e]
    BY <2>1, <2>2 DEF MailerInv, Counts
  <2>4. mails[e] <= job[e].tries + job[e].stalls + 1
    <3>1. mails[e] <= Takings(e) /\ Takings(e) \in Nat
      BY <2>1, <2>2, TakingsAreNat DEF MailerInv, Counts
    <3> QED BY <2>2, <3>1 DEF Takings, JobRow
  <2> QED BY <2>3, <2>4 DEF MailerInv, Settles, Settled
<1> QED BY <1>1, <1>2, <1>3, PTL DEF Mailer!Spec

-----------------------------------------------------------------------------
(* Billing.                                                                 *)

StripeEvents ==
    [sub : Subs, kind : {"subscription", "invoice"},
     status : Webhooks!SubscriptionStates \cup Webhooks!InvoiceStates]

RowStates == {"none", "ACTIVE", "PAST_DUE", "CANCELED", "EXPIRED"}

HookSteps == {"idle", "find", "sync", "entitle", "publish", "invoice", "answer"}

Hooks == [pc : HookSteps, event : Nat, found : BOOLEAN]

OfSubscription(n) == sent[n].kind = "subscription"

Decides(n) == OfSubscription(n) /\ sent[n].status # "past_due"

BillingShape ==
    /\ sent \in Seq(StripeEvents)
    /\ \A n \in 1..Len(sent) : IF OfSubscription(n)
                                THEN sent[n].status \in Webhooks!SubscriptionStates
                                ELSE sent[n].status \in Webhooks!InvoiceStates
    /\ highest \in 0..Len(sent) /\ acked \subseteq 1..highest
    /\ row \in [Subs -> RowStates] /\ invoice \in [Subs -> {"none", "OPEN", "PAID"}]
    /\ hook \in [Slots -> Hooks]
    /\ \A h \in Slots : hook[h].pc # "idle" => hook[h].event \in 1..highest

\* Where a handler of the event can be; a subscription handled has its row.
Handles(pc, n) ==
    /\ pc \in {"sync", "entitle", "publish"} => OfSubscription(n)
    /\ pc \in {"entitle", "publish"} => Decides(n)
    /\ pc = "invoice" => ~ OfSubscription(n)
    /\ pc \in {"entitle", "publish", "answer"} /\ OfSubscription(n) => row[sent[n].sub] # "none"

Handling ==
    /\ \A h \in Slots : hook[h].pc # "idle" => Handles(hook[h].pc, hook[h].event)
    /\ \A n \in acked : OfSubscription(n) => row[sent[n].sub] # "none"

\* Begun in order and one at a time, only the newest event is in hand, in one hand.
InTurn ==
    ~ disordered =>
        \A h \in Slots : hook[h].pc # "idle" =>
            /\ hook[h].event = highest
            /\ \A g \in Slots : hook[g].pc # "idle" => g = h

\* A subscription's invoice is opened before it is paid, each once.
PaidAfterOpen ==
    \A k \in 1..Len(sent), n \in 1..Len(sent) :
        k < n /\ sent[k].sub = sent[n].sub /\ ~ OfSubscription(k) /\ ~ OfSubscription(n)
            => sent[k].status = "open" /\ sent[n].status = "paid"

\* The event was handled, perhaps not to its end, as far as one of these steps.
Reached(n, steps) ==
    n \in acked \/ \E h \in Slots : hook[h].event = n /\ hook[h].pc \in steps

\* Of what was begun, the newest for its row, and for the entitlement.
NewestOfRow(n) ==
    \A k \in 1..highest : n < k => sent[k].sub # sent[n].sub \/ sent[k].kind # sent[n].kind

NewestDecision(n) == Decides(n) /\ \A k \in 1..highest : n < k => ~ Decides(k)

Rooted(n) == \E k \in 1..n : sent[k].sub = sent[n].sub /\ OfSubscription(k)

Tier(n) == Webhooks!TargetTier(Webhooks!mapStripeSubscriptionStatus(sent[n].status))

\* What the event says is what there is, as far as its handling went.
Told(n) ==
    /\ OfSubscription(n) /\ NewestOfRow(n) /\ Reached(n, {"entitle", "publish", "answer"})
         => row[sent[n].sub] = Webhooks!mapStripeSubscriptionStatus(sent[n].status)
    /\ NewestDecision(n) => /\ Reached(n, {"publish", "answer"}) => entitlement = Tier(n)
                            /\ Reached(n, {"answer"}) => announced = Tier(n)
    /\ ~ OfSubscription(n) /\ NewestOfRow(n) /\ Rooted(n) /\ Reached(n, {"answer"})
         => invoice[sent[n].sub] = Webhooks!mapStripeInvoiceStatus(sent[n].status)

\* While no event was begun out of turn, or left behind without success.
NoneLeft == ~ disordered /\ \A n \in 1..highest : n # highest => n \in acked

Follows == NoneLeft => \A n \in 1..highest : Told(n)

BillingInv == BillingShape /\ Handling /\ InTurn /\ PaidAfterOpen /\ Follows

LEMMA StatusMapped ==
    ASSUME NEW said \in Webhooks!SubscriptionStates
    PROVE  /\ Webhooks!mapStripeSubscriptionStatus(said) \in RowStates \ {"none"}
           /\ Webhooks!mapStripeSubscriptionStatus(said) = "PAST_DUE" <=> said = "past_due"
BY DEF Webhooks!SubscriptionStates, Webhooks!mapStripeSubscriptionStatus, RowStates

LEMMA EventTypes ==
    ASSUME BillingShape
    PROVE  /\ Len(sent) \in Nat /\ highest \in Nat /\ highest <= Len(sent)
           /\ \A n \in 1..highest : n \in 1..Len(sent)
           /\ \A n \in 1..Len(sent) : /\ sent[n] \in StripeEvents /\ sent[n].sub \in Subs
                                      /\ sent[n].kind \in {"subscription", "invoice"}
<1>1. Len(sent) \in Nat /\ highest \in Nat /\ highest <= Len(sent)
  BY DEF BillingShape
<1>2. \A n \in 1..Len(sent) : sent[n] \in StripeEvents
  BY DEF BillingShape
<1>3. \A e \in StripeEvents : e.sub \in Subs /\ e.kind \in {"subscription", "invoice"}
  BY DEF StripeEvents
<1> QED BY <1>1, <1>2, <1>3

\* An acknowledged event older than the one in hand is told of as before.
LEMMA OthersTold ==
    ASSUME BillingShape, NEW n \in 1..highest, NEW other \in 1..highest, n # other, n = highest,
           other \in acked, Told(other), other \in acked', UNCHANGED <<sent, highest>>,
           \A s \in Subs : /\ row'[s] = row[s] \/ (s = sent[n].sub /\ OfSubscription(n))
                           /\ invoice'[s] = invoice[s] \/ (s = sent[n].sub /\ ~ OfSubscription(n)),
           (entitlement' = entitlement /\ announced' = announced) \/ Decides(n)
    PROVE  Told(other)'
<1>1. other < n /\ n \in 1..Len(sent) /\ other \in 1..Len(sent) /\ sent[other].sub \in Subs
  BY EventTypes
<1>2. /\ OfSubscription(other)' = OfSubscription(other) /\ Decides(other)' = Decides(other)
      /\ NewestOfRow(other)' = NewestOfRow(other) /\ NewestDecision(other)' = NewestDecision(other)
      /\ Rooted(other)' = Rooted(other) /\ Tier(other)' = Tier(other)
  BY DEF OfSubscription, Decides, NewestOfRow, NewestDecision, Rooted, Tier
<1>3. \A steps : Reached(other, steps)
  BY DEF Reached
<1>4. NewestOfRow(other) => sent[n].sub # sent[other].sub \/ sent[n].kind # sent[other].kind
  BY <1>1 DEF NewestOfRow
<1>5. NewestDecision(other) => ~ Decides(n)
  BY <1>1 DEF NewestDecision
<1>6. sent[n].kind \in {"subscription", "invoice"} /\ sent[other].kind \in {"subscription", "invoice"}
  BY <1>1, EventTypes
<1>7. OfSubscription(other) /\ NewestOfRow(other) =>
        row'[sent[other].sub] = Webhooks!mapStripeSubscriptionStatus(sent[other].status)
  BY <1>1, <1>3, <1>4 DEF Told, OfSubscription
<1>8. NewestDecision(other) => entitlement' = Tier(other) /\ announced' = Tier(other)
  BY <1>3, <1>5 DEF Told
<1>9. ~ OfSubscription(other) /\ NewestOfRow(other) /\ Rooted(other) =>
        invoice'[sent[other].sub] = Webhooks!mapStripeInvoiceStatus(sent[other].status)
  BY <1>1, <1>3, <1>4, <1>6 DEF Told, OfSubscription
<1> QED BY <1>2, <1>7, <1>8, <1>9 DEF Told

\* A step of a handler, which may change what its event is about.
LEMMA HandlerSteps ==
    ASSUME BillingInv, NEW h \in Slots, hook[h].pc # "idle", NEW n, n = hook[h].event,
           NEW new \in Hooks, hook' = [hook EXCEPT ![h] = new],
           new.pc # "idle" => new.event = n /\ Handles(new.pc, n)',
           UNCHANGED <<sent, highest, disordered>>,
           acked' = acked \/ (acked' = acked \cup {n} /\ hook[h].pc = "answer"),
           row' \in [Subs -> RowStates], invoice' \in [Subs -> {"none", "OPEN", "PAID"}],
           \A s \in Subs : /\ row[s] # "none" => row'[s] # "none"
                           /\ row'[s] = row[s] \/ (s = sent[n].sub /\ OfSubscription(n))
                           /\ invoice'[s] = invoice[s] \/ (s = sent[n].sub /\ ~ OfSubscription(n)),
           (entitlement' = entitlement /\ announced' = announced) \/ Decides(n),
           NoneLeft /\ Told(n) /\ n = highest => Told(n)'
    PROVE  BillingInv'
<1>1. /\ hook' \in [Slots -> Hooks] /\ hook'[h] = new
      /\ \A g \in Slots : g # h => hook'[g] = hook[g]
  BY DEF BillingInv, BillingShape
<1>2. n \in 1..highest /\ n \in 1..Len(sent) /\ highest \in Nat /\ Len(sent) \in Nat
  BY DEF BillingInv, BillingShape
<1>3. BillingShape'
  <2>1. /\ sent' = sent /\ highest' = highest /\ disordered' = disordered
        /\ \A k : OfSubscription(k)' <=> OfSubscription(k)
    BY DEF OfSubscription
  <2>2. \A g \in Slots : hook'[g].pc # "idle" => hook'[g].event \in 1..highest
    BY <1>1, <1>2 DEF BillingInv, BillingShape
  <2>3. acked' \subseteq 1..highest
    BY <1>2 DEF BillingInv, BillingShape
  <2> QED BY <1>1, <2>1, <2>2, <2>3 DEF BillingInv, BillingShape
<1>4. \A k \in 1..Len(sent) : sent[k].sub \in Subs
  BY EventTypes DEF BillingInv
<1>5. Handling'
  <2>1. ASSUME NEW g \in Slots, g # h, hook[g].pc # "idle"
        PROVE  Handles(hook[g].pc, hook[g].event)'
    <3>1. PICK k \in 1..Len(sent), pc \in HookSteps : k = hook[g].event /\ pc = hook[g].pc
      <4>1. hook[g] \in Hooks /\ hook[g].event \in 1..highest
        BY <2>1 DEF BillingInv, BillingShape
      <4>2. hook[g].pc \in HookSteps
        BY <4>1 DEF Hooks
      <4> QED BY <4>1, <4>2, EventTypes DEF BillingInv
    <3>2. Handles(pc, k)
      BY <2>1, <3>1 DEF BillingInv, Handling
    <3>3. Handles(pc, k)'
      BY <1>4, <3>2 DEF Handles, OfSubscription, Decides
    <3>4. pc = hook'[g].pc /\ k = hook'[g].event
      BY <1>1, <2>1, <3>1
    <3> QED BY <3>3, <3>4 DEF Handles, OfSubscription, Decides
  <2>2. ASSUME hook'[h].pc # "idle"
        PROVE  Handles(hook[h].pc, hook[h].event)'
    <3>1. Handles(new.pc, n)' /\ new.pc = hook'[h].pc /\ n = hook'[h].event
      BY <1>1, <2>2
    <3> QED BY <3>1 DEF Handles, OfSubscription, Decides
  <2>3. ASSUME NEW k \in acked', OfSubscription(k)
        PROVE  row'[sent[k].sub] # "none"
    <3>1. k \in 1..Len(sent)
      BY <1>2, <2>3, <1>3 DEF BillingShape
    <3>2. row[sent[k].sub] # "none"
      <4>1. CASE k \in acked
        BY <2>3, <4>1 DEF BillingInv, Handling
      <4>2. CASE k \notin acked
        <5>1. k = n /\ hook[h].pc = "answer"
          BY <2>3, <4>2
        <5>2. Handles("answer", n)
          BY <5>1 DEF BillingInv, Handling
        <5> QED BY <2>3, <5>1, <5>2 DEF Handles
      <4> QED BY <4>1, <4>2
    <3> QED BY <1>4, <3>1, <3>2
  <2>4. \A k : OfSubscription(k)' <=> OfSubscription(k)
    BY DEF OfSubscription
  <2>5. \A g \in Slots : (hook[g].pc # "idle" => Handles(hook[g].pc, hook[g].event))'
    BY <1>1, <2>1, <2>2
  <2> QED BY <2>3, <2>4, <2>5 DEF Handling
<1>6. InTurn'
  <2> SUFFICES ASSUME ~ disordered
               PROVE  \A g \in Slots : hook'[g].pc # "idle" =>
                        /\ hook'[g].event = highest
                        /\ \A f \in Slots : hook'[f].pc # "idle" => f = g
    BY DEF InTurn
  <2>1. /\ n = highest /\ \A g \in Slots : hook[g].pc # "idle" => g = h
    BY DEF BillingInv, InTurn
  <2> QED BY <1>1, <2>1
<1>7. PaidAfterOpen'
  BY DEF BillingInv, PaidAfterOpen, OfSubscription
<1>8. Follows'
  <2> SUFFICES ASSUME NoneLeft', NEW k \in 1..highest
               PROVE  Told(k)'
    BY DEF Follows
  <2>1. ~ disordered /\ n = highest
    BY DEF NoneLeft, BillingInv, InTurn
  <2>2. \A m \in 1..highest : m # highest => m \in acked
    BY <2>1 DEF NoneLeft
  <2>3. NoneLeft /\ \A m \in 1..highest : Told(m)
    BY <2>1, <2>2 DEF NoneLeft, BillingInv, Follows
  <2>4. CASE k = n
    BY <1>2, <2>1, <2>3, <2>4
  <2>5. CASE k # n
    <3>1. k \in acked /\ k \in acked'
      BY <2>1, <2>2, <2>5
    <3> QED BY <1>2, <2>1, <2>3, <2>5, <3>1, OthersTold DEF BillingInv
  <2> QED BY <2>4, <2>5
<1> QED BY <1>3, <1>5, <1>6, <1>7, <1>8 DEF BillingInv

\* What there is to say of the event in hand, after a step of its only handler.
LEMMA StillTold ==
    ASSUME BillingInv, NoneLeft, NEW h \in Slots, hook[h].pc # "idle", NEW n, n = hook[h].event,
           NEW new \in Hooks, hook' = [hook EXCEPT ![h] = new], UNCHANGED <<sent, highest>>,
           OfSubscription(n) /\ (n \in acked' \/ new.pc \in {"entitle", "publish", "answer"})
             => row'[sent[n].sub] = Webhooks!mapStripeSubscriptionStatus(sent[n].status),
           NewestDecision(n) =>
             /\ n \in acked' \/ new.pc \in {"publish", "answer"} => entitlement' = Tier(n)
             /\ n \in acked' \/ new.pc = "answer" => announced' = Tier(n),
           ~ OfSubscription(n) /\ Rooted(n) /\ (n \in acked' \/ new.pc = "answer")
             => invoice'[sent[n].sub] = Webhooks!mapStripeInvoiceStatus(sent[n].status)
    PROVE  Told(n)'
<1>1. /\ hook'[h] = new /\ \A g \in Slots : g # h => hook'[g] = hook[g]
  BY DEF BillingInv, BillingShape
<1>2. \A g \in Slots : g # h => hook'[g].pc = "idle"
  BY <1>1 DEF BillingInv, InTurn, NoneLeft
<1>3. ASSUME NEW steps, "idle" \notin steps, Reached(n, steps)'
      PROVE  n \in acked' \/ new.pc \in steps
  BY <1>1, <1>2, <1>3 DEF Reached
<1>4. /\ OfSubscription(n)' = OfSubscription(n) /\ NewestDecision(n)' = NewestDecision(n)
      /\ Rooted(n)' = Rooted(n) /\ Tier(n)' = Tier(n) /\ sent' = sent
  BY DEF OfSubscription, Decides, NewestDecision, Rooted, Tier
<1>5. /\ Reached(n, {"entitle", "publish", "answer"})'
           => n \in acked' \/ new.pc \in {"entitle", "publish", "answer"}
      /\ Reached(n, {"publish", "answer"})' => n \in acked' \/ new.pc \in {"publish", "answer"}
      /\ Reached(n, {"answer"})' => n \in acked' \/ new.pc = "answer"
  BY <1>3
<1> QED BY <1>4, <1>5 DEF Told

\* The event in hand, and what has been said of it if its handler succeeded before.
LEMMA InHand ==
    ASSUME BillingInv, NEW h \in Slots, hook[h].pc # "idle"
    PROVE  \E n \in 1..highest :
             /\ n = hook[h].event /\ Webhooks!Event(h) = sent[n] /\ hook[h] \in Hooks
             /\ n \in 1..Len(sent) /\ sent[n].sub \in Subs
             /\ Handles(hook[h].pc, n)
             /\ NoneLeft => n = highest
<1>1. PICK n \in 1..highest : n = hook[h].event
  BY DEF BillingInv, BillingShape
<1>2. n \in 1..Len(sent) /\ sent[n].sub \in Subs
  BY EventTypes DEF BillingInv
<1>3. Webhooks!Event(h) = sent[n] /\ hook[h] \in Hooks
  BY <1>1 DEF Webhooks!Event, BillingInv, BillingShape
<1>4. Handles(hook[h].pc, n) /\ (NoneLeft => n = highest)
  BY <1>1 DEF BillingInv, Handling, InTurn, NoneLeft
<1> QED BY <1>1, <1>2, <1>3, <1>4

LEMMA SaidOnSuccess ==
    ASSUME BillingInv, NoneLeft, NEW n \in 1..highest, n = highest
    PROVE  /\ \A steps : n \in acked => Reached(n, steps)
           /\ NewestOfRow(n) /\ (Decides(n) => NewestDecision(n)) /\ Told(n)
           /\ \A k \in 1..n : k # n => k \in acked
<1>1. highest \in Nat
  BY EventTypes DEF BillingInv
<1>2. Told(n)
  BY DEF BillingInv, Follows
<1>3. \A k \in 1..n : k # n => k \in acked
  BY <1>1 DEF NoneLeft
<1>4. NewestOfRow(n) /\ (Decides(n) => NewestDecision(n))
  BY <1>1 DEF NewestOfRow, NewestDecision
<1>5. \A steps : n \in acked => Reached(n, steps)
  BY DEF Reached
<1> QED BY <1>2, <1>3, <1>4, <1>5

\* A hook that goes on to another step of its handler.
LEMMA HookGoes ==
    ASSUME NEW hand \in Hooks, NEW pc \in HookSteps
    PROVE  /\ [hand EXCEPT !.pc = pc] \in Hooks
           /\ [hand EXCEPT !.pc = pc].pc = pc /\ [hand EXCEPT !.pc = pc].event = hand.event
BY DEF Hooks

LEMMA HookTakes ==
    ASSUME NEW hand \in Hooks, NEW pc \in HookSteps, NEW n \in Nat
    PROVE  /\ [hand EXCEPT !.pc = pc, !.event = n] \in Hooks
           /\ [hand EXCEPT !.pc = pc, !.event = n].pc = pc
           /\ [hand EXCEPT !.pc = pc, !.event = n].event = n
BY DEF Hooks

LEMMA IdleHook == Webhooks!Idle \in Hooks /\ Webhooks!Idle.pc = "idle"
BY DEF Webhooks!Idle, Hooks, HookSteps

LEMMA IdleHookTakes ==
    ASSUME NEW n \in Nat
    PROVE  LET new == [Webhooks!Idle EXCEPT !.pc = "find", !.event = n]
           IN  new \in Hooks /\ new.pc = "find" /\ new.event = n
BY DEF Webhooks!Idle, Hooks, HookSteps

LEMMA Finds ==
    ASSUME BillingInv, NEW h \in Slots, Webhooks!FindSubscription(h)
    PROVE  BillingInv'
<1>1. hook[h].pc = "find"
  BY DEF Webhooks!FindSubscription, Webhooks!At
<1>2. PICK n \in 1..highest :
        /\ n = hook[h].event /\ Webhooks!Event(h) = sent[n] /\ hook[h] \in Hooks
        /\ n \in 1..Len(sent) /\ sent[n].sub \in Subs /\ (NoneLeft => n = highest)
  BY <1>1, InHand
<1>3. PICK pc \in {"sync", "invoice", "answer"}, found \in BOOLEAN :
        /\ hook' = [hook EXCEPT ![h] = [hook[h] EXCEPT !.found = found, !.pc = pc]]
        /\ OfSubscription(n) <=> pc = "sync"
        /\ pc = "answer" => row[sent[n].sub] = "none"
  <2>1. sent[n].kind \in {"subscription", "invoice"}
    BY <1>2, EventTypes DEF BillingInv
  <2>2. CASE OfSubscription(n)
    <3>1. hook' = [hook EXCEPT ![h] = [hook[h] EXCEPT !.found = (row[sent[n].sub] # "none"),
                                                      !.pc = "sync"]]
      BY <1>2, <2>2
         DEF Webhooks!FindSubscription, Webhooks!Goes, OfSubscription
    <3> QED BY <2>2, <3>1
  <2>3. CASE ~ OfSubscription(n) /\ row[sent[n].sub] # "none"
    <3>1. hook' = [hook EXCEPT ![h] = [hook[h] EXCEPT !.found = (row[sent[n].sub] # "none"),
                                                      !.pc = "invoice"]]
      BY <1>2, <2>1, <2>3
         DEF Webhooks!FindSubscription, Webhooks!Goes, OfSubscription
    <3> QED BY <2>3, <3>1
  <2>4. CASE ~ OfSubscription(n) /\ row[sent[n].sub] = "none"
    <3>1. hook' = [hook EXCEPT ![h] = [hook[h] EXCEPT !.found = (row[sent[n].sub] # "none"),
                                                      !.pc = "answer"]]
      BY <1>2, <2>1, <2>4
         DEF Webhooks!FindSubscription, Webhooks!Goes, OfSubscription
    <3> QED BY <2>4, <3>1
  <2> QED BY <2>2, <2>3, <2>4
<1> DEFINE new == [hook[h] EXCEPT !.found = found, !.pc = pc]
<1>4. new \in Hooks /\ new.pc = pc /\ new.event = n
  BY <1>2, <1>3 DEF Hooks, HookSteps
<1>5. hook' = [hook EXCEPT ![h] = new]
  BY <1>3
<1> HIDE DEF new
<1>6. UNCHANGED <<sent, row, invoice, entitlement, announced, acked, highest, disordered>>
  BY DEF Webhooks!FindSubscription
<1>7. Handles(pc, n)'
  BY <1>3, <1>6 DEF Handles, OfSubscription, Decides
<1>8. ASSUME NoneLeft, Told(n), n = highest
      PROVE  Told(n)'
  <2>1. /\ \A steps : n \in acked => Reached(n, steps)
        /\ NewestOfRow(n) /\ (Decides(n) => NewestDecision(n))
        /\ \A k \in 1..n : k # n => k \in acked
    BY <1>8, SaidOnSuccess
  <2>2. pc = "answer" => ~ Rooted(n)
    <3>1. ASSUME pc = "answer", NEW k \in 1..n, sent[k].sub = sent[n].sub, OfSubscription(k)
          PROVE  FALSE
      <4>1. k \in acked
        BY <1>3, <2>1, <3>1
      <4> QED BY <1>3, <3>1, <4>1 DEF BillingInv, Handling
    <3> QED BY <3>1 DEF Rooted
  <2>3. OfSubscription(n) /\ (n \in acked' \/ new.pc \in {"entitle", "publish", "answer"})
          => row'[sent[n].sub] = Webhooks!mapStripeSubscriptionStatus(sent[n].status)
    BY <1>3, <1>4, <1>6, <1>8, <2>1 DEF Told
  <2>4. NewestDecision(n) =>
          /\ n \in acked' \/ new.pc \in {"publish", "answer"} => entitlement' = Tier(n)
          /\ n \in acked' \/ new.pc = "answer" => announced' = Tier(n)
    BY <1>3, <1>4, <1>6, <1>8, <2>1 DEF Told, NewestDecision, Decides
  <2>5. ~ OfSubscription(n) /\ Rooted(n) /\ (n \in acked' \/ new.pc = "answer")
          => invoice'[sent[n].sub] = Webhooks!mapStripeInvoiceStatus(sent[n].status)
    BY <1>3, <1>4, <1>6, <1>8, <2>1, <2>2 DEF Told
  <2> QED BY <1>1, <1>2, <1>4, <1>5, <1>6, <1>8, <2>3, <2>4, <2>5, StillTold
<1>9. row' \in [Subs -> RowStates] /\ invoice' \in [Subs -> {"none", "OPEN", "PAID"}]
  BY <1>6 DEF BillingInv, BillingShape
<1> QED BY <1>1, <1>2, <1>4, <1>5, <1>6, <1>7, <1>8, <1>9, HandlerSteps

LEMMA SyncsRow ==
    ASSUME BillingInv, NEW h \in Slots, Webhooks!syncSubscription(h)
    PROVE  BillingInv'
<1>1. hook[h].pc = "sync"
  BY DEF Webhooks!syncSubscription, Webhooks!At
<1>2. PICK n \in 1..highest :
        /\ n = hook[h].event /\ Webhooks!Event(h) = sent[n] /\ hook[h] \in Hooks
        /\ n \in 1..Len(sent) /\ sent[n].sub \in Subs /\ (NoneLeft => n = highest)
        /\ OfSubscription(n)
  BY <1>1, InHand DEF Handles
<1> DEFINE said == Webhooks!mapStripeSubscriptionStatus(sent[n].status)
<1>3. said \in RowStates \ {"none"} /\ (said = "PAST_DUE" <=> sent[n].status = "past_due")
  BY <1>2, StatusMapped DEF BillingInv, BillingShape
<1>4. UNCHANGED <<sent, invoice, entitlement, announced, acked, highest, disordered>>
  BY DEF Webhooks!syncSubscription
<1>5. invoice' \in [Subs -> {"none", "OPEN", "PAID"}]
  BY <1>4 DEF BillingInv, BillingShape
<1>6. CASE hook' = [hook EXCEPT ![h] = Webhooks!Idle] /\ row' = row
  <2>1. row' \in [Subs -> RowStates]
    BY <1>6 DEF BillingInv, BillingShape
  <2>2. ASSUME NoneLeft, Told(n), n = highest
        PROVE  Told(n)'
    <3>1. /\ \A steps : n \in acked => Reached(n, steps)
          /\ NewestOfRow(n) /\ (Decides(n) => NewestDecision(n))
      BY <2>2, SaidOnSuccess
    <3>2. /\ n \in acked' => row'[sent[n].sub] = said
          /\ NewestDecision(n) /\ n \in acked' => entitlement' = Tier(n) /\ announced' = Tier(n)
      BY <1>2, <1>4, <1>6, <2>2, <3>1 DEF Told
    <3> QED BY <1>1, <1>2, <1>4, <1>6, <2>2, <3>2, IdleHook, StillTold
  <2> QED BY <1>1, <1>2, <1>4, <1>5, <1>6, <2>1, <2>2, IdleHook, HandlerSteps
<1>7. CASE ~ (hook' = [hook EXCEPT ![h] = Webhooks!Idle] /\ row' = row)
  <2>1. PICK pc \in {"answer", "entitle"} :
          /\ row' = [row EXCEPT ![sent[n].sub] = said]
          /\ hook' = [hook EXCEPT ![h] = [hook[h] EXCEPT !.pc = pc]]
          /\ pc = "entitle" <=> Decides(n)
    <3>1. /\ row' = [row EXCEPT ![sent[n].sub] = said]
          /\ hook' = [hook EXCEPT ![h] = [hook[h] EXCEPT !.pc =
                                           IF said = "PAST_DUE" THEN "answer" ELSE "entitle"]]
      BY <1>2, <1>7 DEF Webhooks!syncSubscription, Webhooks!Goes
    <3> HIDE DEF said
    <3> QED BY <1>2, <1>3, <3>1 DEF Decides
  <2> DEFINE new == [hook[h] EXCEPT !.pc = pc]
  <2>2. new \in Hooks /\ new.pc = pc /\ new.event = n
    <3>1. pc \in HookSteps /\ hook[h] \in Hooks
      BY <1>2 DEF HookSteps
    <3> QED BY <1>2, <3>1, HookGoes
  <2>3. hook' = [hook EXCEPT ![h] = new] /\ (pc = "entitle" <=> Decides(n))
    BY <2>1
  <2> HIDE DEF new
  <2>4. /\ row' \in [Subs -> RowStates] /\ row'[sent[n].sub] = said
        /\ \A s \in Subs : /\ row[s] # "none" => row'[s] # "none"
                           /\ s # sent[n].sub => row'[s] = row[s]
    <3>1. row \in [Subs -> RowStates] /\ sent[n].sub \in Subs
      BY <1>2 DEF BillingInv, BillingShape
    <3> HIDE DEF said
    <3> QED BY <1>3, <2>1, <3>1
  <2>5. Handles(pc, n)'
    BY <1>2, <1>3, <1>4, <2>3, <2>4 DEF Handles, OfSubscription, Decides
  <2>6. ASSUME NoneLeft, Told(n), n = highest
        PROVE  Told(n)'
    <3>1. /\ \A steps : n \in acked => Reached(n, steps)
          /\ NewestOfRow(n) /\ (Decides(n) => NewestDecision(n))
      BY <2>6, SaidOnSuccess
    <3>2. /\ NewestDecision(n) /\ n \in acked' => entitlement' = Tier(n) /\ announced' = Tier(n)
          /\ NewestDecision(n) => new.pc \notin {"publish", "answer"}
      BY <1>4, <2>2, <2>3, <2>6, <3>1 DEF Told, NewestDecision
    <3> QED BY <1>1, <1>2, <1>4, <2>2, <2>3, <2>4, <2>6, <3>2, StillTold
  <2> QED BY <1>1, <1>2, <1>4, <1>5, <2>2, <2>3, <2>4, <2>5, <2>6, HandlerSteps
<1> QED BY <1>6, <1>7

\* The handler's other steps: each settles one more thing the event says.
LEMMA Entitles ==
    ASSUME BillingInv, NEW h \in Slots, Webhooks!syncEntitlement(h)
    PROVE  BillingInv'
<1>1. hook[h].pc = "entitle"
  BY DEF Webhooks!syncEntitlement, Webhooks!At
<1>2. PICK n \in 1..highest :
        /\ n = hook[h].event /\ Webhooks!Event(h) = sent[n] /\ hook[h] \in Hooks
        /\ n \in 1..Len(sent) /\ sent[n].sub \in Subs /\ (NoneLeft => n = highest)
        /\ Handles("entitle", n)
  BY <1>1, InHand
<1> DEFINE new == [hook[h] EXCEPT !.pc = "publish"]
<1>3. /\ hook' = [hook EXCEPT ![h] = new] /\ entitlement' = Tier(n)
      /\ UNCHANGED <<sent, row, invoice, announced, acked, highest, disordered>>
  BY <1>2 DEF Webhooks!syncEntitlement, Webhooks!Goes, Tier
<1>4. new \in Hooks /\ new.pc = "publish" /\ new.event = n
  BY <1>2, HookGoes DEF HookSteps
<1> HIDE DEF new
<1>5. Handles("publish", n)' /\ OfSubscription(n) /\ Decides(n)
  BY <1>2, <1>3 DEF Handles, OfSubscription, Decides
<1>6. ASSUME NoneLeft, Told(n), n = highest
      PROVE  Told(n)'
  <2>1. /\ \A steps : n \in acked => Reached(n, steps)
        /\ NewestOfRow(n) /\ (Decides(n) => NewestDecision(n))
        /\ Reached(n, {"entitle", "publish", "answer"})
    BY <1>1, <1>2, <1>6, SaidOnSuccess DEF Reached
  <2>2. /\ row'[sent[n].sub] = Webhooks!mapStripeSubscriptionStatus(sent[n].status)
        /\ n \in acked' => announced' = Tier(n)
    BY <1>3, <1>5, <1>6, <2>1 DEF Told
  <2> QED BY <1>1, <1>2, <1>3, <1>4, <1>5, <1>6, <2>2, StillTold
<1>7. row' \in [Subs -> RowStates] /\ invoice' \in [Subs -> {"none", "OPEN", "PAID"}]
  BY <1>3 DEF BillingInv, BillingShape
<1> QED BY <1>1, <1>2, <1>3, <1>4, <1>5, <1>6, <1>7, HandlerSteps

LEMMA Announces ==
    ASSUME BillingInv, NEW h \in Slots, Webhooks!PublishChange(h)
    PROVE  BillingInv'
<1>1. hook[h].pc = "publish"
  BY DEF Webhooks!PublishChange, Webhooks!At
<1>2. PICK n \in 1..highest :
        /\ n = hook[h].event /\ Webhooks!Event(h) = sent[n] /\ hook[h] \in Hooks
        /\ n \in 1..Len(sent) /\ sent[n].sub \in Subs /\ (NoneLeft => n = highest)
        /\ Handles("publish", n)
  BY <1>1, InHand
<1> DEFINE new == [hook[h] EXCEPT !.pc = "answer"]
<1>3. /\ hook' = [hook EXCEPT ![h] = new] /\ announced' = Tier(n)
      /\ UNCHANGED <<sent, row, invoice, entitlement, acked, highest, disordered>>
  BY <1>2 DEF Webhooks!PublishChange, Webhooks!Goes, Tier
<1>4. new \in Hooks /\ new.pc = "answer" /\ new.event = n
  BY <1>2, HookGoes DEF HookSteps
<1> HIDE DEF new
<1>5. Handles("answer", n)' /\ OfSubscription(n) /\ Decides(n)
  BY <1>2, <1>3 DEF Handles, OfSubscription, Decides
<1>6. ASSUME NoneLeft, Told(n), n = highest
      PROVE  Told(n)'
  <2>1. /\ NewestOfRow(n) /\ NewestDecision(n)
        /\ Reached(n, {"entitle", "publish", "answer"}) /\ Reached(n, {"publish", "answer"})
    BY <1>1, <1>2, <1>5, <1>6, SaidOnSuccess DEF Reached
  <2>2. /\ row'[sent[n].sub] = Webhooks!mapStripeSubscriptionStatus(sent[n].status)
        /\ entitlement' = Tier(n)
    BY <1>3, <1>5, <1>6, <2>1 DEF Told
  <2> QED BY <1>1, <1>2, <1>3, <1>4, <1>5, <1>6, <2>2, StillTold
<1>7. row' \in [Subs -> RowStates] /\ invoice' \in [Subs -> {"none", "OPEN", "PAID"}]
  BY <1>3 DEF BillingInv, BillingShape
<1> QED BY <1>1, <1>2, <1>3, <1>4, <1>5, <1>6, <1>7, HandlerSteps

LEMMA SyncsInvoice ==
    ASSUME BillingInv, NEW h \in Slots, Webhooks!syncInvoice(h)
    PROVE  BillingInv'
<1>1. hook[h].pc = "invoice"
  BY DEF Webhooks!syncInvoice, Webhooks!At
<1>2. PICK n \in 1..highest :
        /\ n = hook[h].event /\ Webhooks!Event(h) = sent[n] /\ hook[h] \in Hooks
        /\ n \in 1..Len(sent) /\ sent[n].sub \in Subs /\ (NoneLeft => n = highest)
        /\ ~ OfSubscription(n)
  BY <1>1, InHand DEF Handles
<1> DEFINE new == [hook[h] EXCEPT !.pc = "answer"]
           said == Webhooks!mapStripeInvoiceStatus(sent[n].status)
<1>3. /\ hook' = [hook EXCEPT ![h] = new] /\ invoice' = [invoice EXCEPT ![sent[n].sub] = said]
      /\ UNCHANGED <<sent, row, entitlement, announced, acked, highest, disordered>>
  BY <1>2 DEF Webhooks!syncInvoice, Webhooks!Goes
<1>4. new \in Hooks /\ new.pc = "answer" /\ new.event = n
  BY <1>2, HookGoes DEF HookSteps
<1>5. said \in {"OPEN", "PAID"}
  BY DEF Webhooks!mapStripeInvoiceStatus
<1> HIDE DEF new, said
<1>6. /\ invoice' \in [Subs -> {"none", "OPEN", "PAID"}] /\ invoice'[sent[n].sub] = said
      /\ \A s \in Subs : s # sent[n].sub => invoice'[s] = invoice[s]
  <2>1. invoice \in [Subs -> {"none", "OPEN", "PAID"}] /\ sent[n].sub \in Subs
    BY <1>2 DEF BillingInv, BillingShape
  <2> QED BY <1>3, <1>5, <2>1
<1>7. Handles("answer", n)'
  BY <1>2, <1>3 DEF Handles, OfSubscription, Decides
<1>8. ASSUME NoneLeft, Told(n), n = highest
      PROVE  Told(n)'
  <2>1. ~ NewestDecision(n)
    BY <1>2 DEF NewestDecision, Decides
  <2> QED BY <1>1, <1>2, <1>3, <1>4, <1>6, <1>8, <2>1, StillTold DEF said
<1>9. row' \in [Subs -> RowStates]
  BY <1>3 DEF BillingInv, BillingShape
<1> QED BY <1>1, <1>2, <1>3, <1>4, <1>6, <1>7, <1>8, <1>9, HandlerSteps

LEMMA Answers ==
    ASSUME BillingInv, NEW h \in Slots, Webhooks!Answer(h)
    PROVE  BillingInv'
<1>1. hook[h].pc = "answer"
  BY DEF Webhooks!Answer, Webhooks!At
<1>2. PICK n \in 1..highest :
        /\ n = hook[h].event /\ hook[h] \in Hooks
        /\ n \in 1..Len(sent) /\ sent[n].sub \in Subs /\ (NoneLeft => n = highest)
  BY <1>1, InHand
<1>3. /\ hook' = [hook EXCEPT ![h] = Webhooks!Idle] /\ acked' = acked \cup {n}
      /\ UNCHANGED <<sent, row, invoice, entitlement, announced, highest, disordered>>
  BY <1>2 DEF Webhooks!Answer, Webhooks!Goes
<1>4. ASSUME NoneLeft, Told(n), n = highest
      PROVE  Told(n)'
  <2>1. /\ NewestOfRow(n) /\ Reached(n, {"answer"})
        /\ Reached(n, {"entitle", "publish", "answer"}) /\ Reached(n, {"publish", "answer"})
    BY <1>1, <1>2, <1>4, SaidOnSuccess DEF Reached
  <2>2. /\ OfSubscription(n) =>
             row'[sent[n].sub] = Webhooks!mapStripeSubscriptionStatus(sent[n].status)
        /\ NewestDecision(n) => entitlement' = Tier(n) /\ announced' = Tier(n)
        /\ ~ OfSubscription(n) /\ Rooted(n) =>
             invoice'[sent[n].sub] = Webhooks!mapStripeInvoiceStatus(sent[n].status)
    BY <1>3, <1>4, <2>1 DEF Told
  <2> QED BY <1>1, <1>2, <1>3, <1>4, <2>2, IdleHook, StillTold
<1>5. row' \in [Subs -> RowStates] /\ invoice' \in [Subs -> {"none", "OPEN", "PAID"}]
  BY <1>3 DEF BillingInv, BillingShape
<1> QED BY <1>1, <1>2, <1>3, <1>4, <1>5, IdleHook, HandlerSteps

\* What the handler did stays done, and is done again.
LEMMA HookFails ==
    ASSUME BillingInv, NEW h \in Slots, Webhooks!WebhookFails(h)
    PROVE  BillingInv'
<1>1. /\ hook[h].pc # "idle" /\ hook' = [hook EXCEPT ![h] = Webhooks!Idle]
      /\ UNCHANGED <<sent, row, invoice, entitlement, announced, acked, highest, disordered>>
  BY DEF Webhooks!WebhookFails, Webhooks!At, Webhooks!Goes
<1>2. PICK n \in 1..highest :
        /\ n = hook[h].event /\ n \in 1..Len(sent) /\ sent[n].sub \in Subs
        /\ (NoneLeft => n = highest)
  BY <1>1, InHand
<1>3. ASSUME NoneLeft, Told(n), n = highest
      PROVE  Told(n)'
  <2>1. NewestOfRow(n) /\ \A steps : n \in acked => Reached(n, steps)
    BY <1>3, SaidOnSuccess
  <2>2. n \in acked' =>
          /\ OfSubscription(n) =>
               row'[sent[n].sub] = Webhooks!mapStripeSubscriptionStatus(sent[n].status)
          /\ NewestDecision(n) => entitlement' = Tier(n) /\ announced' = Tier(n)
          /\ ~ OfSubscription(n) /\ Rooted(n) =>
               invoice'[sent[n].sub] = Webhooks!mapStripeInvoiceStatus(sent[n].status)
    BY <1>1, <1>3, <2>1 DEF Told
  <2> QED BY <1>1, <1>2, <1>3, <2>2, IdleHook, StillTold
<1>4. row' \in [Subs -> RowStates] /\ invoice' \in [Subs -> {"none", "OPEN", "PAID"}]
  BY <1>1 DEF BillingInv, BillingShape
<1> QED BY <1>1, <1>2, <1>3, <1>4, IdleHook, HandlerSteps

LEMMA Begins ==
    ASSUME BillingInv, NEW h \in Slots, Webhooks!handleWebhookEvent(h)
    PROVE  BillingInv'
<1>1. PICK n \in 1..Len(sent) :
        /\ hook[h].pc = "idle"
        /\ hook' = [hook EXCEPT ![h] = [Webhooks!Idle EXCEPT !.pc = "find", !.event = n]]
        /\ highest' = IF n > highest THEN n ELSE highest
        /\ disordered' = (disordered \/ n < highest \/ \E g \in Slots \ {h} : ~ Webhooks!At(g, "idle"))
        /\ UNCHANGED <<sent, row, invoice, entitlement, announced, acked>>
  <2>1. DOMAIN sent = 1..Len(sent)
    BY DEF BillingInv, BillingShape
  <2> QED BY <2>1 DEF Webhooks!handleWebhookEvent, Webhooks!At, Webhooks!Goes
<1>2. ~ disordered' =>
        /\ ~ disordered /\ ~ (n < highest)
        /\ \A g \in Slots : g # h => hook[g].pc = "idle"
  <2>1. ~ disordered' =>
          ~ disordered /\ ~ (n < highest) /\ \A g \in Slots \ {h} : Webhooks!At(g, "idle")
    BY ONLY <1>1, Zenon
  <2> QED BY <2>1 DEF Webhooks!At
<1> DEFINE new == [Webhooks!Idle EXCEPT !.pc = "find", !.event = n]
<1>3. new \in Hooks /\ new.pc = "find" /\ new.event = n
  <2>1. n \in Nat
    BY <1>1
  <2> QED BY <2>1, IdleHookTakes
<1>4. hook' = [hook EXCEPT ![h] = new]
  BY <1>1
<1> HIDE DEF new
<1>5. /\ hook' \in [Slots -> Hooks] /\ hook'[h] = new
      /\ \A g \in Slots : g # h => hook'[g] = hook[g]
  BY <1>4, <1>3 DEF BillingInv, BillingShape
<1>6. /\ highest \in Nat /\ highest <= Len(sent) /\ Len(sent) \in Nat /\ highest' \in Nat
      /\ highest <= highest' /\ n <= highest' /\ highest' <= Len(sent)
  BY <1>1, EventTypes DEF BillingInv
<1>7. \A k : /\ OfSubscription(k)' <=> OfSubscription(k)
             /\ Decides(k)' <=> Decides(k)
  BY <1>1 DEF OfSubscription, Decides
<1>8. BillingShape'
  <2>1. acked \subseteq 1..highest' /\ highest' \in 0..Len(sent)
    BY <1>6 DEF BillingInv, BillingShape
  <2>2. \A g \in Slots : hook'[g].pc # "idle" => hook'[g].event \in 1..highest'
    BY <1>1, <1>3, <1>5, <1>6 DEF BillingInv, BillingShape
  <2> QED BY <1>1, <1>5, <1>7, <2>1, <2>2 DEF BillingInv, BillingShape
<1>9. Handling'
  <2>1. ASSUME NEW g \in Slots
        PROVE  (hook[g].pc # "idle" => Handles(hook[g].pc, hook[g].event))'
    <3>1. CASE g = h
      BY <1>3, <1>5, <3>1 DEF Handles
    <3>2. CASE g # h
      <4>1. hook'[g] = hook[g] /\ (hook[g].pc # "idle" => Handles(hook[g].pc, hook[g].event))
        BY <1>5, <3>2 DEF BillingInv, Handling
      <4> QED BY <1>1, <4>1 DEF Handles, OfSubscription, Decides
    <3> QED BY <3>1, <3>2
  <2>2. \A k \in acked : OfSubscription(k) => row[sent[k].sub] # "none"
    BY DEF BillingInv, Handling
  <2> QED BY <1>1, <1>7, <2>1, <2>2 DEF Handling
<1>10. InTurn'
  BY <1>2, <1>1, <1>3, <1>5, <1>6 DEF InTurn
<1>11. PaidAfterOpen'
  BY <1>1, <1>7 DEF BillingInv, PaidAfterOpen
<1>12. Follows'
  <2> SUFFICES ASSUME NoneLeft', NEW k \in 1..highest'
               PROVE  Told(k)'
    BY DEF Follows
  <2>1. /\ ~ disordered /\ ~ (n < highest) /\ \A g \in Slots : g # h => hook'[g].pc = "idle"
    BY <1>2, <1>5 DEF NoneLeft
  <2>2. NoneLeft
    <3>1. \A m \in 1..highest : m # highest' => m \in acked
      BY <1>1, <1>6 DEF NoneLeft
    <3>2. \A m \in 1..highest : m # highest => m # highest'
      BY <1>6
    <3> QED BY <2>1, <3>1, <3>2 DEF NoneLeft
  <2>3. CASE k \notin acked
    <3>1. \A steps : "find" \notin steps /\ "idle" \notin steps => ~ Reached(k, steps)'
      BY <1>1, <1>3, <1>5, <2>1, <2>3 DEF Reached
    <3>2. /\ ~ Reached(k, {"entitle", "publish", "answer"})' /\ ~ Reached(k, {"publish", "answer"})'
          /\ ~ Reached(k, {"answer"})'
      BY <3>1
    <3> QED BY <3>2 DEF Told
  <2>4. CASE k \in acked
    <3>1. k \in 1..highest
      BY <2>4 DEF BillingInv, BillingShape
    <3>2. Told(k) /\ \A steps : Reached(k, steps)
      BY <2>2, <2>4, <3>1 DEF BillingInv, Follows, Reached
    <3>3. \A m \in 1..highest : m \in 1..highest'
      BY <1>6
    <3>4. NewestOfRow(k)' => NewestOfRow(k)
      BY <1>1, <3>3 DEF NewestOfRow
    <3>5. NewestDecision(k)' => NewestDecision(k)
      BY <1>1, <1>7, <3>3 DEF NewestDecision
    <3>6. Rooted(k)' = Rooted(k) /\ Tier(k)' = Tier(k)
      BY <1>1, <1>7 DEF Rooted, OfSubscription, Tier
    <3> QED BY <1>1, <1>7, <3>2, <3>4, <3>5, <3>6 DEF Told
  <2> QED BY <2>3, <2>4
<1> QED BY <1>8, <1>9, <1>10, <1>11, <1>12 DEF BillingInv

\* The greatest of finitely many numbers.
LEMMA Greatest ==
    ASSUME NEW N \in Nat, NEW T \in SUBSET (1..N), T # {}
    PROVE  \E m \in T : \A k \in T : k <= m
<1> DEFINE Mirror == {N - k : k \in T}
<1>1. Mirror \in SUBSET Nat /\ Mirror # {}
  <2>1. \A k \in T : N - k \in Nat
    OBVIOUS
  <2> QED BY <2>1
<1>2. PICK least \in Mirror : \A j \in Mirror : least <= j
  <2> HIDE DEF Mirror
  <2> QED BY <1>1, LeastNumber
<1>3. PICK m \in T : least = N - m
  BY <1>2
<1>4. ASSUME NEW k \in T PROVE k <= m
  <2>1. N - m <= N - k
    BY <1>2, <1>3
  <2> QED BY <2>1
<1> QED BY <1>4

LEMMA LastIsNewest ==
    ASSUME BillingShape, NEW s, NEW kind, NEW k \in 1..Len(sent), sent[k].sub = s,
           sent[k].kind = kind
    PROVE  \E m \in 1..Len(sent) :
             /\ sent[m].sub = s /\ sent[m].kind = kind /\ Webhooks!Last(s, kind) = sent[m].status
             /\ \A j \in 1..Len(sent) : sent[j].sub = s /\ sent[j].kind = kind => j <= m
<1> DEFINE T == {j \in DOMAIN sent : sent[j].sub = s /\ sent[j].kind = kind}
<1>1. DOMAIN sent = 1..Len(sent) /\ Len(sent) \in Nat
  BY DEF BillingShape
<1>2. T \in SUBSET (1..Len(sent)) /\ T # {}
  BY <1>1
<1>3. Webhooks!Last(s, kind) = sent[CHOOSE j \in T : \A i \in T : i <= j].status
  BY <1>2 DEF Webhooks!Last
<1>4. (CHOOSE j \in T : \A i \in T : i <= j) \in T
      /\ \A i \in T : i <= (CHOOSE j \in T : \A i2 \in T : i2 <= j)
  <2> HIDE DEF T
  <2>1. \E m \in T : \A i \in T : i <= m
    BY <1>1, <1>2, Greatest
  <2> QED BY <2>1
<1>5. PICK m \in T : m = (CHOOSE j \in T : \A i \in T : i <= j) /\ \A i \in T : i <= m
  BY <1>4
<1> QED BY <1>1, <1>3, <1>5

LEMMA StripeSends ==
    ASSUME BillingInv, Webhooks!StripeEvent
    PROVE  BillingInv'
<1>1. PICK s \in Subs, kind \in {"subscription", "invoice"},
           said \in Webhooks!SubscriptionStates \cup Webhooks!InvoiceStates :
        /\ sent' = Append(sent, [sub |-> s, kind |-> kind, status |-> said])
        /\ kind = "subscription" => said \in Webhooks!SubscriptionStates
        /\ kind = "invoice" =>
             /\ said \in Webhooks!InvoiceStates
             /\ said # Webhooks!Last(s, "invoice") /\ Webhooks!Last(s, "invoice") # "paid"
  BY DEF Webhooks!StripeEvent
<1>2. UNCHANGED <<row, invoice, entitlement, announced, acked, hook, highest, disordered>>
  BY DEF Webhooks!StripeEvent
<1> DEFINE event == [sub |-> s, kind |-> kind, status |-> said]
<1>3. event \in StripeEvents /\ event.sub = s /\ event.kind = kind /\ event.status = said
  BY DEF StripeEvents
<1>4. sent' = Append(sent, event)
  BY <1>1
<1> HIDE DEF event
<1>5. /\ sent' \in Seq(StripeEvents) /\ Len(sent') = Len(sent) + 1 /\ Len(sent) \in Nat
      /\ sent'[Len(sent) + 1] = event /\ \A k \in 1..Len(sent) : sent'[k] = sent[k]
  BY <1>3, <1>4 DEF BillingInv, BillingShape
<1>6. /\ highest \in Nat /\ highest <= Len(sent)
      /\ \A k \in 1..highest : k \in 1..Len(sent) /\ sent'[k] = sent[k]
      /\ \A k \in 1..Len(sent') : k \in 1..Len(sent) \/ k = Len(sent) + 1
  BY <1>5, EventTypes DEF BillingInv
<1>7. ASSUME NEW k \in 1..Len(sent)
      PROVE  /\ OfSubscription(k)' <=> OfSubscription(k)
             /\ Decides(k)' <=> Decides(k)
  BY <1>5 DEF OfSubscription, Decides
<1>8. BillingShape'
  <2>1. ASSUME NEW k \in 1..Len(sent')
        PROVE  (IF OfSubscription(k) THEN sent[k].status \in Webhooks!SubscriptionStates
                                     ELSE sent[k].status \in Webhooks!InvoiceStates)'
    <3>1. CASE k \in 1..Len(sent)
      BY <1>5, <1>7, <3>1 DEF BillingInv, BillingShape
    <3>2. CASE k = Len(sent) + 1
      BY <1>1, <1>3, <1>5, <3>2 DEF OfSubscription
    <3> QED BY <1>6, <3>1, <3>2
  <2>2. highest' \in 0..Len(sent')
    BY <1>2, <1>5, <1>6
  <2>3. /\ acked' \subseteq 1..highest' /\ hook' \in [Slots -> Hooks]
        /\ row' \in [Subs -> RowStates] /\ invoice' \in [Subs -> {"none", "OPEN", "PAID"}]
        /\ \A h \in Slots : hook'[h].pc # "idle" => hook'[h].event \in 1..highest'
    BY <1>2 DEF BillingInv, BillingShape
  <2> QED BY <1>5, <2>1, <2>2, <2>3 DEF BillingShape
<1>9. Handling'
  <2>1. ASSUME NEW h \in Slots
        PROVE  (hook[h].pc # "idle" => Handles(hook[h].pc, hook[h].event))'
    <3>1. hook[h].pc # "idle" =>
            /\ hook[h].event \in 1..highest /\ Handles(hook[h].pc, hook[h].event)
      BY DEF BillingInv, BillingShape, Handling
    <3> QED BY <1>2, <1>6, <3>1 DEF Handles, OfSubscription, Decides
  <2>2. ASSUME NEW k \in acked, OfSubscription(k)'
        PROVE  row[sent'[k].sub] # "none"
    <3>1. k \in 1..highest
      BY DEF BillingInv, BillingShape
    <3> QED BY <1>6, <1>7, <2>2, <3>1 DEF BillingInv, Handling
  <2> QED BY <1>2, <2>1, <2>2 DEF Handling
<1>10. InTurn'
  BY <1>2 DEF BillingInv, InTurn
<1>11. PaidAfterOpen'
  <2> SUFFICES ASSUME NEW k \in 1..Len(sent'), NEW n \in 1..Len(sent'), k < n,
                      sent'[k].sub = sent'[n].sub, ~ OfSubscription(k)', ~ OfSubscription(n)'
               PROVE  sent'[k].status = "open" /\ sent'[n].status = "paid"
    BY DEF PaidAfterOpen
  <2>1. k \in 1..Len(sent)
    BY <1>5, <1>6
  <2>2. CASE n \in 1..Len(sent)
    BY <1>5, <1>7, <2>1, <2>2 DEF BillingInv, PaidAfterOpen
  <2>3. CASE n = Len(sent) + 1
    <3>1. kind = "invoice" /\ ~ OfSubscription(k) /\ sent[k].sub = s /\ sent[k].kind = "invoice"
          /\ sent'[n].status = said
      BY <1>1, <1>3, <1>5, <1>7, <2>1, <2>3, EventTypes DEF BillingInv, OfSubscription
    <3>2. PICK m \in 1..Len(sent) :
            /\ sent[m].sub = s /\ sent[m].kind = "invoice"
            /\ Webhooks!Last(s, "invoice") = sent[m].status /\ k <= m
      BY <2>1, <3>1, LastIsNewest DEF BillingInv
    <3>3. m = k
      <4>1. CASE k < m
        BY <1>1, <2>1, <3>1, <3>2, <4>1 DEF BillingInv, PaidAfterOpen, OfSubscription
      <4> QED BY <2>1, <3>2, <4>1
    <3>4. sent[k].status \in {"open", "paid"} /\ said \in {"open", "paid"}
      BY <1>1, <2>1, <3>1 DEF BillingInv, BillingShape, Webhooks!InvoiceStates
    <3>5. sent'[k] = sent[k]
      BY <1>5, <2>1
    <3> QED BY <1>1, <3>1, <3>2, <3>3, <3>4, <3>5
  <2> QED BY <1>6, <2>2, <2>3
<1>12. Follows'
  <2> SUFFICES ASSUME NoneLeft', NEW k \in 1..highest
               PROVE  Told(k)'
    BY <1>2 DEF Follows
  <2>1. Told(k)
    BY <1>2 DEF NoneLeft, BillingInv, Follows
  <2>2. sent'[k] = sent[k] /\ \A m \in 1..k : m \in 1..highest
    BY <1>6
  <2>3. /\ OfSubscription(k)' <=> OfSubscription(k)
        /\ NewestOfRow(k)' <=> NewestOfRow(k)
    BY <1>2, <1>6, <1>7 DEF NewestOfRow
  <2>4. NewestDecision(k)' <=> NewestDecision(k)
    BY <1>2, <1>6, <1>7 DEF NewestDecision
  <2>5. Rooted(k)' <=> Rooted(k)
    BY <1>6, <1>7, <2>2 DEF Rooted
  <2>6. Tier(k)' = Tier(k) /\ \A steps : Reached(k, steps)' <=> Reached(k, steps)
    BY <1>2, <2>2 DEF Tier, Reached
  <2> QED BY <1>2, <2>1, <2>2, <2>3, <2>4, <2>5, <2>6 DEF Told
<1> QED BY <1>8, <1>9, <1>10, <1>11, <1>12 DEF BillingInv

LEMMA BillingRests ==
    ASSUME BillingInv, UNCHANGED Webhooks!vars
    PROVE  BillingInv'
<1>1. UNCHANGED <<sent, row, invoice, entitlement, announced, acked, hook, highest, disordered>>
  BY DEF Webhooks!vars
<1>2. /\ \A k : /\ OfSubscription(k)' <=> OfSubscription(k)
                /\ Decides(k)' <=> Decides(k)
                /\ Rooted(k)' <=> Rooted(k)
                /\ NewestOfRow(k)' <=> NewestOfRow(k)
                /\ NewestDecision(k)' <=> NewestDecision(k)
                /\ Tier(k)' = Tier(k)
                /\ \A steps : Reached(k, steps)' <=> Reached(k, steps)
                /\ \A pc : Handles(pc, k)' <=> Handles(pc, k)
  BY <1>1 DEF OfSubscription, Decides, Rooted, NewestOfRow, NewestDecision, Tier, Reached, Handles
<1>3. BillingShape' /\ InTurn' /\ PaidAfterOpen' /\ NoneLeft' = NoneLeft
  BY <1>1 DEF BillingInv, BillingShape, InTurn, PaidAfterOpen, NoneLeft, OfSubscription
<1>4. Handling'
  BY <1>1 DEF BillingInv, Handling, Handles, OfSubscription, Decides
<1>5. \A k : Told(k)' <=> Told(k)
  BY <1>1, <1>2 DEF Told
<1> QED BY <1>1, <1>3, <1>4, <1>5 DEF BillingInv, Follows

LEMMA BillingStarts ==
    ASSUME Webhooks!Init
    PROVE  BillingInv
<1>1. /\ sent = <<>> /\ acked = {} /\ highest = 0 /\ Len(sent) = 0
      /\ row = [s \in Subs |-> "none"] /\ invoice = [s \in Subs |-> "none"]
      /\ hook = [h \in Slots |-> Webhooks!Idle]
  BY DEF Webhooks!Init
<1>2. 1..0 = {} /\ sent \in Seq(StripeEvents)
  BY <1>1
<1>3. BillingShape
  BY <1>1, <1>2, IdleHook DEF BillingShape, RowStates
<1>4. Handling /\ InTurn /\ PaidAfterOpen /\ Follows
  BY <1>1, <1>2, IdleHook DEF Handling, InTurn, PaidAfterOpen, Follows
<1> QED BY <1>3, <1>4 DEF BillingInv

LEMMA BillingKept ==
    ASSUME BillingInv, [Webhooks!Next]_(Webhooks!vars)
    PROVE  BillingInv'
BY BillingRests, StripeSends, Begins, Finds, SyncsRow, Entitles, Announces, SyncsInvoice, Answers,
   HookFails
   DEF Webhooks!Next

\* Webhooks begun in order and one at a time, however often each is repeated and at
\* whatever statements its handlers fail: answered with success, all of them, they
\* leave rows, entitlement and announcement as the last events say.
THEOREM WebhooksConverge == Webhooks!Spec => []InOrderDeliveryConverges
<1>1. Webhooks!Init => BillingInv
  BY BillingStarts
<1>2. BillingInv /\ [Webhooks!Next]_(Webhooks!vars) => BillingInv'
  BY BillingKept
<1>3. BillingInv => InOrderDeliveryConverges
  <2> SUFFICES ASSUME BillingInv, Webhooks!Quiet, ~ disordered
               PROVE  InOrderDeliveryConverges
    BY DEF InOrderDeliveryConverges, Webhooks!InOrderDeliveryConverges
  <2>1. DOMAIN sent = 1..Len(sent) /\ Len(sent) \in Nat /\ acked = 1..Len(sent)
    BY DEF Webhooks!Quiet, BillingInv, BillingShape
  <2>2. \A n \in 1..Len(sent) : n \in 1..highest /\ n \in acked
    BY <2>1 DEF BillingInv, BillingShape
  <2>3. \A n \in 1..highest : n \in 1..Len(sent)
    BY EventTypes DEF BillingInv
  <2>4. \A n \in 1..Len(sent) : Told(n) /\ \A steps : Reached(n, steps)
    BY <2>2, <2>3 DEF BillingInv, Follows, NoneLeft, Reached
  <2>5. \A n \in 1..Len(sent) : /\ sent[n].kind \in {"subscription", "invoice"}
                                /\ sent[n].sub \in Subs
    BY EventTypes DEF BillingInv
  <2>6. ASSUME NEW s \in Subs, Webhooks!Last(s, "subscription") # "none"
        PROVE  row[s] = Webhooks!mapStripeSubscriptionStatus(Webhooks!Last(s, "subscription"))
    <3>1. PICK k \in 1..Len(sent) : sent[k].sub = s /\ sent[k].kind = "subscription"
      BY <2>1, <2>6 DEF Webhooks!Last
    <3>2. PICK m \in 1..Len(sent) :
            /\ sent[m].sub = s /\ sent[m].kind = "subscription"
            /\ Webhooks!Last(s, "subscription") = sent[m].status
            /\ \A j \in 1..Len(sent) : sent[j].sub = s /\ sent[j].kind = "subscription" => j <= m
      BY <3>1, LastIsNewest DEF BillingInv
    <3>3. OfSubscription(m) /\ NewestOfRow(m)
      BY <2>3, <3>2 DEF OfSubscription, NewestOfRow
    <3> QED BY <2>4, <3>2, <3>3 DEF Told
  <2>7. ASSUME Webhooks!Deciding # {},
               NEW last, last = (CHOOSE n \in Webhooks!Deciding : \A k \in Webhooks!Deciding : k <= n)
        PROVE  entitlement = Tier(last) /\ announced = Tier(last)
    <3>1. /\ Webhooks!Deciding \in SUBSET (1..Len(sent))
          /\ \A n \in 1..Len(sent) : n \in Webhooks!Deciding <=> Decides(n)
      BY <2>1 DEF Webhooks!Deciding, Decides, OfSubscription
    <3>2. \E m \in Webhooks!Deciding : \A k \in Webhooks!Deciding : k <= m
      BY <2>1, <2>7, <3>1, Greatest
    <3>3. last \in Webhooks!Deciding /\ \A k \in Webhooks!Deciding : k <= last
      BY <2>7, <3>2
    <3>4. last \in 1..Len(sent) /\ NewestDecision(last)
      BY <2>3, <3>1, <3>3 DEF NewestDecision
    <3> QED BY <2>4, <3>4 DEF Told
  <2>8. ASSUME NEW n \in 1..Len(sent), sent[n].kind = "invoice",
               sent[n].status = Webhooks!Last(sent[n].sub, "invoice"),
               NEW k \in 1..n, sent[k].sub = sent[n].sub, sent[k].kind = "subscription"
        PROVE  invoice[sent[n].sub] = Webhooks!mapStripeInvoiceStatus(sent[n].status)
    <3>1. PICK m \in 1..Len(sent) :
            /\ sent[m].sub = sent[n].sub /\ sent[m].kind = "invoice"
            /\ Webhooks!Last(sent[n].sub, "invoice") = sent[m].status
            /\ \A j \in 1..Len(sent) : sent[j].sub = sent[n].sub /\ sent[j].kind = "invoice" => j <= m
      <4>1. PICK s \in Subs : s = sent[n].sub
        BY <2>5
      <4>2. \E m \in 1..Len(sent) :
              /\ sent[m].sub = s /\ sent[m].kind = "invoice"
              /\ Webhooks!Last(s, "invoice") = sent[m].status
              /\ \A j \in 1..Len(sent) : sent[j].sub = s /\ sent[j].kind = "invoice" => j <= m
        <5>1. BillingShape /\ sent[n].sub = s /\ sent[n].kind = "invoice"
          BY <2>8, <4>1 DEF BillingInv
        <5> QED BY <5>1, LastIsNewest
      <4> QED BY <4>1, <4>2
    <3>2. m = n
      <4>1. CASE n < m
        BY <2>8, <3>1, <4>1 DEF BillingInv, PaidAfterOpen, OfSubscription
      <4> QED BY <2>1, <2>8, <3>1, <4>1
    <3>3. ~ OfSubscription(n) /\ NewestOfRow(n) /\ Rooted(n)
      BY <2>3, <2>8, <3>1, <3>2 DEF OfSubscription, NewestOfRow, Rooted
    <3> QED BY <2>4, <3>3 DEF Told
  <2> QED BY <2>1, <2>6, <2>7, <2>8
       DEF InOrderDeliveryConverges, Webhooks!InOrderDeliveryConverges, Tier
<1> QED BY <1>1, <1>2, <1>3, PTL DEF Webhooks!Spec
=============================================================================
