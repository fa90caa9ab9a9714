---- MODULE Rules_proofs ----
\* Proofs about the rules without a state, for every file, reading and entry:
\* what is calculated is right or missing, and an update loses nothing.
EXTENDS Rules, WellFoundedInduction, TLAPS

----
\* Least and largest numbers.

LEMMA LeastOf ==
  ASSUME NEW S, S \subseteq Nat, S # {}
  PROVE  \E s \in S : \A t \in S : s <= t
  <1>1. PICK s \in S : \A t \in S : <<t, s>> \notin OpToRel(<, Nat)
    BY WFMin, NatLessThanWellFounded, Zenon
  <1>2. ASSUME NEW t \in S PROVE s <= t
    <2>1. t \in Nat /\ s \in Nat
      OBVIOUS
    <2>2. ~(t < s)
      BY <1>1, <2>1, Zenon DEF OpToRel
    <2> QED
      BY <2>1, <2>2
  <1> QED
    BY <1>2

\* Some number of a list is the largest: else there were a least length at which
\* none is.
LEMMA LargestOf ==
  ASSUME NEW n \in Nat \ {0}, NEW f, \A k \in 1..n : f[k] \in Int
  PROVE  \E m \in 1..n : \A k \in 1..n : f[k] <= f[m]
  <1> DEFINE S == {l \in 1..n : ~\E m \in 1..l : \A k \in 1..l : f[k] <= f[m]}
  <1>1. S = {}
    <2> SUFFICES ASSUME S # {} PROVE FALSE
      OBVIOUS
    <2>1. PICK l \in S : \A o \in S : l <= o
      <3>1. S \subseteq Nat
        OBVIOUS
      <3> HIDE DEF S
      <3> QED
        BY <3>1, LeastOf
    <2>2. l \in 1..n /\ l # 1
      <3>1. f[1] <= f[1] /\ 1..1 = {1}
        OBVIOUS
      <3> QED
        BY <3>1
    <2>3. l - 1 \in 1..n /\ l - 1 \notin S
      <3>1. l - 1 \in 1..n /\ ~(l <= l - 1)
        BY <2>2
      <3> HIDE DEF S
      <3> QED
        BY <2>1, <3>1
    <2>4. PICK m \in 1..(l - 1) : \A k \in 1..(l - 1) : f[k] <= f[m]
      BY <2>3
    <2>5. PICK b \in {m, l} : f[m] <= f[b] /\ f[l] <= f[b]
      <3>1. f[m] \in Int /\ f[l] \in Int
        BY <2>2, <2>4
      <3> QED
        BY <3>1
    <2>6. b \in 1..l
      BY <2>2, <2>4
    <2>7. ASSUME NEW k \in 1..l PROVE f[k] <= f[b]
      <3>1. f[k] \in Int /\ f[m] \in Int /\ f[b] \in Int
        BY <2>2, <2>4, <2>6
      <3>2. k = l \/ k \in 1..(l - 1)
        BY <2>2
      <3> QED
        BY <2>4, <2>5, <3>1, <3>2
    <2> QED
      BY <2>1, <2>6, <2>7
  <1> QED
    BY <1>1

LEMMA MaxFacts ==
  ASSUME NEW s \in Seq(Int), Len(s) >= 1
  PROVE  Max(Range(s)) \in Int /\ \A k \in 1..Len(s) : s[k] <= Max(Range(s))
  <1> DEFINE n == Len(s)
  <1>1. n \in Nat \ {0} /\ DOMAIN s = 1..n /\ \A k \in 1..n : s[k] \in Int
    OBVIOUS
  <1>2. PICK m \in 1..n : \A k \in 1..n : s[k] <= s[m]
    <2> HIDE DEF n
    <2> QED
      BY <1>1, LargestOf
  <1>3. Range(s) = {s[k] : k \in 1..n}
    BY <1>1 DEF Range
  <1>4. s[m] \in Range(s) /\ \A y \in Range(s) : s[m] >= y
    BY <1>1, <1>2, <1>3
  <1>5. Max(Range(s)) \in Range(s) /\ \A y \in Range(s) : Max(Range(s)) >= y
    BY <1>4 DEF Max
  <1> HIDE DEF n
  <1> QED
    BY <1>1, <1>3, <1>5

LEMMA MinFacts ==
  ASSUME NEW s \in Seq(Int), Len(s) >= 1
  PROVE  Min(Range(s)) \in Int /\ \A k \in 1..Len(s) : Min(Range(s)) <= s[k]
  <1> DEFINE n == Len(s)
             g == [k \in 1..n |-> -s[k]]
  <1>1. n \in Nat \ {0} /\ DOMAIN s = 1..n /\ \A k \in 1..n : s[k] \in Int
    OBVIOUS
  <1>2. PICK m \in 1..n : \A k \in 1..n : g[k] <= g[m]
    <2>1. \A k \in 1..n : g[k] \in Int
      BY <1>1
    <2> HIDE DEF n, g
    <2> QED
      BY <1>1, <2>1, LargestOf
  <1>3. \A k \in 1..n : s[m] <= s[k]
    BY <1>1, <1>2
  <1>4. Range(s) = {s[k] : k \in 1..n}
    BY <1>1 DEF Range
  <1>5. s[m] \in Range(s) /\ \A y \in Range(s) : s[m] =< y
    BY <1>1, <1>3, <1>4
  <1>6. Min(Range(s)) \in Range(s) /\ \A y \in Range(s) : Min(Range(s)) =< y
    BY <1>5 DEF Min
  <1> HIDE DEF n
  <1> QED
    BY <1>1, <1>4, <1>6

----
\* The rated power.

LEMMA ClampFacts ==
  ASSUME NEW low \in Int, NEW high \in Int, low <= high, NEW value \in Int
  PROVE  Clamp(low, value, high) \in Int /\ Clamp(low, value, high) \in low..high
  BY DEF Clamp

\* What is known of a file that loads.
LEMMA LoadedFacts ==
  ASSUME NEW file, IsFile(file), Loads(file), NEW air \in Int
  PROVE  LET t == file.known_t
             curve == file.grid[Clamp(10 * Min(Range(file.known_x)), air,
                                      10 * Max(Range(file.known_x)))]
         IN /\ t \in Seq(Int) /\ Len(t) \in Nat /\ Len(t) >= 2
            /\ \A k \in 1..Len(t) : t[k] \in Int
            /\ \A j, k \in 1..Len(t) : j < k => t[j] < t[k]
            /\ \A k \in 1..Len(t) : curve[k] \in Int
  <1> DEFINE t == file.known_t
             x == file.known_x
             low == 10 * Min(Range(x))
             high == 10 * Max(Range(x))
             raw == Clamp(low, air, high)
  <1>1. t \in Seq(Int) /\ x \in Seq(Int) /\ Len(t) >= 2 /\ Len(x) >= 1
    BY DEF IsFile, Loads, LooksLikeAGrid, Numbers
  <1>2. /\ Len(t) \in Nat /\ \A k \in 1..Len(t) : t[k] \in Int
        /\ \A j, k \in 1..Len(t) : j < k => t[j] < t[k]
    <2>1. Ascending(t)
      BY DEF Loads, LooksLikeAGrid, SortedOnce
    <2>2. DOMAIN t = 1..Len(t) /\ Len(t) \in Nat /\ \A k \in 1..Len(t) : t[k] \in Int
      BY <1>1
    <2> QED
      BY <2>1, <2>2 DEF Ascending
  <1>3. low \in Int /\ high \in Int /\ low <= high
    <2>1. /\ Min(Range(x)) \in Int /\ Max(Range(x)) \in Int /\ x[1] \in Int
          /\ Min(Range(x)) <= x[1] /\ x[1] <= Max(Range(x))
      <3>1. 1 \in 1..Len(x) /\ x[1] \in Int
        BY <1>1
      <3> HIDE DEF x
      <3> QED
        BY <1>1, <3>1, MinFacts, MaxFacts
    <2> QED
      BY <2>1
  <1>4. raw \in low..high
    <2> HIDE DEF low, high
    <2> QED
      BY <1>3, ClampFacts
  <1>5. raw \in DOMAIN file.grid /\ Len(file.grid[raw]) = Len(t) /\ file.grid[raw] \in Seq(Int)
    <2>1. low..high \subseteq DOMAIN file.grid
      BY DEF Loads, LooksLikeAGrid, RawBounds
    <2>2. \A r \in DOMAIN file.grid : Len(file.grid[r]) = Len(t)
      BY DEF Loads, LooksLikeAGrid
    <2>3. \A r \in DOMAIN file.grid : file.grid[r] \in Seq(Int)
      BY DEF IsFile
    <2> HIDE DEF raw, low, high, t
    <2> QED
      BY <1>4, <2>1, <2>2, <2>3
  <1>6. \A k \in 1..Len(t) : file.grid[raw][k] \in Int
    <2> HIDE DEF raw, t
    <2> QED
      BY <1>5
  <1> QED
    BY <1>1, <1>2, <1>6

\* A temperature between the first and the last lies between two neighbours.
LEMMA PieceExists ==
  ASSUME NEW t, NEW n \in Nat, n >= 2, \A k \in 1..n : t[k] \in Int,
         NEW at \in Int, 10 * t[1] <= at, at <= 10 * t[n]
  PROVE  \E k \in 1..(n - 1) : 10 * t[k] <= at /\ at <= 10 * t[k + 1]
  <1> DEFINE S == {k \in 2..n : at <= 10 * t[k]}
  <1>1. PICK m \in S : \A k \in S : m <= k
    <2>1. S \subseteq Nat /\ n \in S
      OBVIOUS
    <2> HIDE DEF S
    <2> QED
      BY <2>1, LeastOf
  <1>2. m \in 2..n /\ at <= 10 * t[m] /\ m - 1 \in 1..(n - 1) /\ (m - 1) + 1 = m
    OBVIOUS
  <1>3. 10 * t[m - 1] <= at
    <2>1. CASE m = 2
      BY <2>1
    <2>2. CASE m # 2
      <3>1. m - 1 \in 2..n /\ ~(m <= m - 1)
        BY <1>2, <2>2
      <3>2. ~(at <= 10 * t[m - 1])
        BY <1>1, <3>1
      <3>3. t[m - 1] \in Int
        BY <3>1
      <3> QED
        BY <3>2, <3>3
    <2> QED
      BY <2>1, <2>2
  <1> QED
    BY <1>2, <1>3

LEMMA LeastPiece ==
  ASSUME NEW t, NEW n \in Nat, n >= 2, \A k \in 1..n : t[k] \in Int,
         NEW at \in Int, 10 * t[1] <= at, at <= 10 * t[n],
         NEW i, i = Min({k \in 1..(n - 1) : 10 * t[k] <= at /\ at <= 10 * t[k + 1]})
  PROVE  /\ i \in 1..(n - 1) /\ 10 * t[i] <= at /\ at <= 10 * t[i + 1]
         /\ \A k \in 1..(n - 1) : 10 * t[k] <= at /\ at <= 10 * t[k + 1] => i <= k
  <1> DEFINE S == {k \in 1..(n - 1) : 10 * t[k] <= at /\ at <= 10 * t[k + 1]}
  <1>1. PICK m \in S : \A k \in S : m <= k
    <2>1. S \subseteq Nat /\ S # {}
      BY PieceExists
    <2> HIDE DEF S
    <2> QED
      BY <2>1, LeastOf
  <1>2. Min(S) \in S /\ \A k \in S : Min(S) =< k
    BY <1>1 DEF Min
  <1> QED
    BY <1>2

\* One piece of the curve, and the end it shares with the next.
LEMMA OnePiece ==
  ASSUME NEW a \in Int, NEW w \in Int, NEW v \in Int, NEW u \in Int
  PROVE  v * w + a * (u - v) = v * (w - a) + u * a
  OBVIOUS

LEMMA SharedEnd ==
  ASSUME NEW w \in Int, NEW v \in Int, NEW u \in Int, NEW z \in Int
  PROVE  (v * w + w * (u - v)) * z = w * (u * z)
  <1>1. v * w + w * (u - v) = w * u
    OBVIOUS
  <1>2. (w * u) * z = w * (u * z)
    OBVIOUS
  <1> QED
    BY <1>1, <1>2

\* The rated power is on every piece of the curve its flow temperature lies on.
LEMMA PowerFacts ==
  ASSUME NEW file, IsFile(file), Loads(file), NEW air \in Int, NEW flow \in Int
  PROVE  LET t == file.known_t
             power == RatedPower(file, air, flow)
             curve == file.grid[Clamp(10 * Min(Range(file.known_x)), air,
                                      10 * Max(Range(file.known_x)))]
             at == Clamp(10 * t[1], flow, 10 * t[Len(t)])
         IN /\ power[2] \in Int /\ power[2] > 0
            /\ \A k \in 1..Len(t) - 1 :
                 at \in 10 * t[k]..10 * t[k + 1] =>
                   power[1] * 10 * (t[k + 1] - t[k])
                     = power[2] * (curve[k] * (10 * t[k + 1] - at)
                                   + curve[k + 1] * (at - 10 * t[k]))
  <1> DEFINE t == file.known_t
             n == Len(t)
             curve == file.grid[Clamp(10 * Min(Range(file.known_x)), air,
                                      10 * Max(Range(file.known_x)))]
             at == Clamp(10 * t[1], flow, 10 * t[n])
             i == Min({k \in 1..(n - 1) : 10 * t[k] <= at /\ at <= 10 * t[k + 1]})
             w == 10 * (t[i + 1] - t[i])
             p == curve[i] * w + (at - 10 * t[i]) * (curve[i + 1] - curve[i])
  <1>1. /\ n \in Nat /\ n >= 2
        /\ \A k \in 1..n : t[k] \in Int
        /\ \A j, k \in 1..n : j < k => t[j] < t[k]
        /\ \A k \in 1..n : curve[k] \in Int
    BY LoadedFacts
  <1>2. RatedPower(file, air, flow) = <<p, w>>
    BY DEF RatedPower, RawBounds
  <1>3. at \in Int /\ 10 * t[1] <= at /\ at <= 10 * t[n]
    <2> DEFINE low == 10 * t[1]
               high == 10 * t[n]
    <2>1. low \in Int /\ high \in Int /\ low <= high
      <3> HIDE DEF n
      <3>1. t[1] \in Int /\ t[n] \in Int /\ t[1] < t[n]
        BY <1>1
      <3> QED
        BY <3>1
    <2>2. at = Clamp(low, flow, high)
      OBVIOUS
    <2> HIDE DEF low, high, at
    <2>3. at \in Int /\ at \in low..high
      BY <2>1, <2>2, ClampFacts
    <2> QED
      BY <2>1, <2>3 DEF low, high
  <1> HIDE DEF n, at, curve, t
  <1>4. /\ i \in 1..(n - 1) /\ 10 * t[i] <= at /\ at <= 10 * t[i + 1]
        /\ \A k \in 1..(n - 1) : 10 * t[k] <= at /\ at <= 10 * t[k + 1] => i <= k
    BY <1>1, <1>3, LeastPiece
  <1> HIDE DEF i
  <1>5. w \in Int /\ w > 0
    <2>1. i \in 1..n /\ i + 1 \in 1..n /\ i < i + 1
      BY <1>1, <1>4
    <2>2. t[i] \in Int /\ t[i + 1] \in Int /\ t[i] < t[i + 1]
      BY <1>1, <2>1
    <2> QED
      BY <2>2
  <1>6. ASSUME NEW k \in 1..(n - 1), at \in 10 * t[k]..10 * t[k + 1]
        PROVE  p * 10 * (t[k + 1] - t[k])
                 = w * (curve[k] * (10 * t[k + 1] - at) + curve[k + 1] * (at - 10 * t[k]))
    <2>1. /\ 10 * t[k] <= at /\ at <= 10 * t[k + 1]
          /\ w = 10 * (t[i + 1] - t[i])
      <3>1. t[k] \in Int /\ t[k + 1] \in Int
        BY <1>1
      <3> QED
        BY <1>6, <3>1
    <2>2. p = curve[i] * w + (at - 10 * t[i]) * (curve[i + 1] - curve[i])
      OBVIOUS
    <2>3. /\ i + 1 \in 1..n /\ k + 1 \in 1..n /\ i \in 1..n /\ k \in 1..n /\ i <= k
          /\ t[i] \in Int /\ t[i + 1] \in Int /\ t[k] \in Int /\ t[k + 1] \in Int
          /\ curve[i] \in Int /\ curve[i + 1] \in Int /\ curve[k] \in Int /\ curve[k + 1] \in Int
      BY <1>1, <1>4, <2>1
    <2> HIDE DEF w, p
    <2>4. w \in Int /\ p \in Int
      <3>1. w \in Int
        BY <2>1, <2>3
      <3>2. \A x, y, b, d \in Int : x * y + b * d \in Int
        OBVIOUS
      <3>3. at - 10 * t[i] \in Int /\ curve[i + 1] - curve[i] \in Int
        BY <1>3, <2>3
      <3> QED
        BY <2>2, <2>3, <3>1, <3>2, <3>3
    <2>5. 10 * t[i] <= at /\ at <= 10 * t[i + 1]
      BY <1>4
    <2> DEFINE a == at - 10 * t[i]
               z == 10 * (t[k + 1] - t[k])
    <2>6. p * 10 * (t[k + 1] - t[k]) = p * z
      <3>1. t[k + 1] - t[k] \in Int
        BY <2>3
      <3>2. \A d \in Int : p * 10 * d = p * (10 * d)
        BY <2>4
      <3> QED
        BY <3>1, <3>2
    <2>7. CASE k = i
      <3>1. a \in Int /\ w - a = 10 * t[i + 1] - at /\ z = w
        <4>1. \A x, y, b \in Int : b - 10 * x \in Int /\ 10 * (y - x) - (b - 10 * x) = 10 * y - b
          OBVIOUS
        <4> QED
          BY ONLY <1>3, <2>1, <2>3, <2>7, <4>1 DEF a, z
      <3>2. p = curve[i] * (w - a) + curve[i + 1] * a
        <4>1. p = curve[i] * w + a * (curve[i + 1] - curve[i])
          BY <2>2
        <4> HIDE DEF a
        <4> QED
          BY <2>3, <2>4, <3>1, <4>1, OnePiece
      <3>3. p * w = w * p
        BY <2>4
      <3> QED
        BY <2>6, <2>7, <3>1, <3>2, <3>3
    <2>8. CASE k # i
      <3>1. k = i + 1 /\ at = 10 * t[k]
        <4>1. i + 1 <= k
          BY <2>3, <2>8
        <4>2. ASSUME i + 1 < k PROVE FALSE
          <5>1. t[i + 1] < t[k]
            BY <1>1, <2>3, <4>2
          <5> QED
            BY ONLY <1>3, <2>1, <2>3, <2>5, <5>1
        <4>3. k = i + 1
          BY <2>3, <4>1, <4>2
        <4> QED
          <5>1. at <= 10 * t[k] /\ 10 * t[k] <= at /\ t[k] \in Int
            BY ONLY <2>1, <2>3, <2>5, <4>3, Zenon
          <5> QED
            BY ONLY <1>3, <4>3, <5>1
      <3>2. a = w /\ at - 10 * t[k] = 0 /\ 10 * t[k + 1] - at = z /\ z \in Int
        BY <1>3, <2>1, <2>3, <3>1
      <3>3. p = curve[i] * w + w * (curve[k] - curve[i])
        BY <2>2, <3>1, <3>2
      <3>4. p * z = w * (curve[k] * z)
        <4> HIDE DEF z
        <4> QED
          BY <2>3, <2>4, <3>2, <3>3, SharedEnd
      <3>5. curve[k] * z + curve[k + 1] * 0 = curve[k] * z
        <4>1. \A x, y \in Int : x * y + curve[k + 1] * 0 = x * y
          BY <2>3
        <4> QED
          BY <2>3, <3>2, <4>1
      <3> HIDE DEF z
      <3> QED
        BY <2>6, <3>2, <3>4, <3>5
    <2> QED
      BY <2>7, <2>8
  <1> HIDE DEF w, p
  <1> QED
    BY <1>2, <1>5, <1>6 DEF n, at, curve, t

----
\* The picture and the calculated sensors.

LEMMA CurveHolds == IsInput(input) => PowerIsOnTheCurve
  <1> SUFFICES ASSUME IsInput(input), input[1] = "map" PROVE PowerIsOnTheCurve
    BY DEF PowerIsOnTheCurve
  <1> DEFINE file == input[2]
             air == input[3]
             flow == input[4]
  <1>1. IsFile(file) /\ air \in Int /\ flow \in Int
    BY DEF IsInput
  <1>2. CASE ~Loads(file)
    BY <1>2 DEF PowerIsOnTheCurve, RatedPower
  <1>3. CASE Loads(file)
    <2> HIDE DEF file, air, flow
    <2>1. LET t == file.known_t
              power == RatedPower(file, air, flow)
              curve == file.grid[Clamp(10 * Min(Range(file.known_x)), air,
                                       10 * Max(Range(file.known_x)))]
              at == Clamp(10 * t[1], flow, 10 * t[Len(t)])
          IN /\ power[2] > 0
             /\ \A k \in 1..Len(t) - 1 :
                  at \in 10 * t[k]..10 * t[k + 1] =>
                    power[1] * 10 * (t[k + 1] - t[k])
                      = power[2] * (curve[k] * (10 * t[k + 1] - at)
                                    + curve[k + 1] * (at - 10 * t[k]))
      BY <1>1, <1>3, PowerFacts, Zenon
    <2> QED
      BY <1>3, <2>1, Zenon DEF PowerIsOnTheCurve, file, air, flow
  <1> QED
    BY <1>2, <1>3

LEMMA PictureHolds == PictureIsItsOwn
  BY DEF PictureIsItsOwn, Initialize, CopyPowermapPlot

\* Values of the three formulas.
LEMMA SensorValues ==
  ASSUME NEW file, IsFile(file), NEW own \in Int, NEW s \in Int, NEW t \in Int
  PROVE  /\ HeatOutput(file, own, s, t)[2] = 0 <=> ~Loads(file)
         /\ Spread(own, s, CalcSpreizung.divider) = <<own * 10 - s * 10, 10>>
         /\ PerformanceFactor(own, s)[2] = 0 <=> s < 5
  <1>1. HeatOutput(file, own, s, t)[2] = 0 <=> ~Loads(file)
    <2>1. CASE ~Loads(file)
      BY <2>1 DEF HeatOutput, RatedPower, NoPower
    <2>2. CASE Loads(file)
      <3> DEFINE rated == RatedPower(file, s, t)
      <3>1. rated[2] \in Int /\ rated[2] > 0
        BY <2>2, PowerFacts
      <3>2. NoPower[2] = 0
        BY DEF NoPower
      <3>3. rated # NoPower
        <4> HIDE DEF rated
        <4> QED
          BY <3>1, <3>2
      <3>4. HeatOutput(file, own, s, t)[2] = 100 * rated[2]
        BY <3>3 DEF HeatOutput
      <3> HIDE DEF rated
      <3> QED
        BY <2>2, <3>1, <3>4
    <2> QED
      BY <2>1, <2>2
  <1>2. CalcSpreizung.divider = 10
    BY DEF CalcSpreizung, Calculated, NoParams
  <1>3. PerformanceFactor(own, s)[2] = 0 <=> s < 5
    BY DEF PerformanceFactor, MinElectricEnergyKwh, NoPower
  <1> QED
    BY <1>1, <1>2, <1>3 DEF Spread

LEMMA SensorsHold == IsInput(input) => SensorsAreRightOrMissing
  <1> SUFFICES ASSUME IsInput(input), input[1] = "calc" PROVE SensorsAreRightOrMissing
    BY DEF SensorsAreRightOrMissing
  <1> DEFINE formula == input[2]
             own == input[3]
             s == input[4]
             t == input[5]
             file == input[6]
             siblings == IF formula = "heat_output" THEN <<s, t>> ELSE <<s>>
             value == CalculatedOf(formula, file, own, siblings, CalcSpreizung.divider)
  <1>1. formula \in Formulas /\ own \in Int /\ s \in Int /\ t \in Int /\ IsFile(file)
    BY DEF IsInput
  <1>2. siblings[1] = s /\ (formula = "heat_output" => siblings[2] = t)
    OBVIOUS
  <1> HIDE DEF formula, own, s, t, file, siblings
  <1>3. CASE own = Missing \/ Missing \in Range(siblings)
    <2>1. value[2] = 0
      BY <1>3 DEF CalculatedOf, NoPower
    <2> HIDE DEF value
    <2>2. /\ value[2] = 0 <=> \/ Missing \in {own} \cup Range(siblings)
                              \/ formula = "heat_output" /\ ~Loads(file)
                              \/ formula = "performance" /\ siblings[1] < 5
          /\ formula = "spread" /\ value[2] # 0 => value[1] = (own - siblings[1]) * value[2]
      BY <1>3, <2>1
    <2> QED
      BY <2>2, Zenon DEF SensorsAreRightOrMissing, value, formula, own, s, t, file, siblings
  <1>4. CASE ~(own = Missing \/ Missing \in Range(siblings))
    <2>1. CASE formula = "heat_output"
      <3>1. value = HeatOutput(file, own, s, t)
        BY <1>2, <1>4, <2>1 DEF CalculatedOf
      <3>2. value[2] = 0 <=> ~Loads(file)
        BY <1>1, <3>1, SensorValues
      <3> HIDE DEF value
      <3>3. /\ value[2] = 0 <=> \/ Missing \in {own} \cup Range(siblings)
                                \/ formula = "heat_output" /\ ~Loads(file)
                                \/ formula = "performance" /\ siblings[1] < 5
            /\ formula = "spread" /\ value[2] # 0 => value[1] = (own - siblings[1]) * value[2]
        BY <1>4, <2>1, <3>2
      <3> QED
        BY <3>3, Zenon DEF SensorsAreRightOrMissing, value, formula, own, s, t, file, siblings
    <2>2. CASE formula = "spread"
      <3>1. value = <<own * 10 - s * 10, 10>>
        BY <1>1, <1>2, <1>4, <2>2, SensorValues DEF CalculatedOf
      <3>2. value[2] = 10 /\ value[1] = (own - s) * 10
        BY <1>1, <3>1
      <3> HIDE DEF value
      <3>3. /\ value[2] = 0 <=> \/ Missing \in {own} \cup Range(siblings)
                                \/ formula = "heat_output" /\ ~Loads(file)
                                \/ formula = "performance" /\ siblings[1] < 5
            /\ formula = "spread" /\ value[2] # 0 => value[1] = (own - siblings[1]) * value[2]
        BY <1>2, <1>4, <2>2, <3>2
      <3> QED
        BY <3>3, Zenon DEF SensorsAreRightOrMissing, value, formula, own, s, t, file, siblings
    <2>3. CASE formula = "performance"
      <3>1. value = PerformanceFactor(own, s)
        BY <1>2, <1>4, <2>3 DEF CalculatedOf
      <3>2. value[2] = 0 <=> s < 5
        BY <1>1, <3>1, SensorValues
      <3> HIDE DEF value
      <3>3. /\ value[2] = 0 <=> \/ Missing \in {own} \cup Range(siblings)
                                \/ formula = "heat_output" /\ ~Loads(file)
                                \/ formula = "performance" /\ siblings[1] < 5
            /\ formula = "spread" /\ value[2] # 0 => value[1] = (own - siblings[1]) * value[2]
        BY <1>2, <1>4, <2>3, <3>2
      <3> QED
        BY <3>3, Zenon DEF SensorsAreRightOrMissing, value, formula, own, s, t, file, siblings
    <2> QED
      BY <1>1, <2>1, <2>2, <2>3 DEF Formulas
  <1> QED
    BY <1>3, <1>4

\* Whatever file a user puts in the directory, whatever the registers hold and
\* whichever are missing: what is calculated is right or missing (kennfeld.py,
\* calculations.py).
THEOREM CalculatedAlwaysHonest == RulesSpec => []CalculatedValuesAreHonest
  <1>1. IsInput(input) => CalculatedValuesAreHonest
    BY CurveHolds, PictureHolds, SensorsHold DEF CalculatedValuesAreHonest
  <1>2. IsInput(input) /\ [UNCHANGED input]_input => IsInput(input)'
    BY DEF IsInput
  <1> QED
    BY <1>1, <1>2, PTL DEF RulesSpec, RulesInit

----
\* The migration: what holds between two rows of _move_relabelled_entities, when
\* the registers `done` are moved and `src` were the pump's entities before.

SourceOK(src, taken) ==
    /\ \A e \in src :
        /\ IsEntity(e) /\ e.made = "pump" /\ e.id \notin taken
        /\ e.register \in Relabelled => e.item = OldItemOfRegister(e.register)
        /\ e.register \notin Relabelled => e.item \notin RelabelledNames
    /\ \A e, f \in src : e.id = f.id => e = f
    /\ \A e, f \in src : e.register = f.register /\ e.register \in Relabelled => e = f

\* `e` is `o` moved: under its own id, its relabelled one, or as it was because
\* that one is taken.
IdMoved(o, e, now, src, taken, done) ==
    IF o.id[1] = "own" \/ o.id[2] # o.item THEN e.id = o.id
    ELSE \/ e.id = <<o.id[1], e.item, o.id[3]>>
         \/ /\ e.id = o.id
            /\ \/ <<o.id[1], e.item, o.id[3]>> \in taken
               \/ \E x \in src : x.id = <<o.id[1], e.item, o.id[3]>>
               \/ \E x \in now : x.register \in done /\ x.id = <<o.id[1], e.item, o.id[3]>>

MovedOK(cur, src, taken, keys, done) ==
    /\ cur = [version |-> Current, keys |-> keys, entities |-> cur.entities,
              taken |-> taken, failed |-> FALSE]
    /\ \A e \in cur.entities : IsEntity(e) /\ e.made = "pump" /\ e.id \notin taken
    /\ \A e, f \in cur.entities : e.id = f.id => e = f
    /\ \A e, f \in cur.entities : e.register = f.register /\ e.register \in Relabelled => e = f
    /\ \A e \in cur.entities : e.register \notin done => e \in src
    /\ \A o \in src : o.register \notin done => o \in cur.entities
    /\ \A o \in src : o.register \in done => \E e \in cur.entities : e.register = o.register
    /\ \A e \in cur.entities : e.register \in done =>
        /\ e.item = ItemOfRegister(e.register)
        /\ \E o \in src : o.register = e.register
        /\ \A o \in src : o.register = e.register =>
             IdMoved(o, e, cur.entities, src, taken, done)

\* The names of `r` are nobody's but its own when its row comes.
RowFits(r, done) ==
    /\ r \in Relabelled \ done /\ done \subseteq Relabelled
    /\ \A q \in Relabelled \ {r} :
        /\ q \in done => ItemOfRegister(q) \notin {OldItemOfRegister(r), ItemOfRegister(r)}
        /\ q \notin done => OldItemOfRegister(q) \notin {OldItemOfRegister(r), ItemOfRegister(r)}

NamesOf(r) == <<OldItemOfRegister(r), ItemOfRegister(r)>>

\* The five names, so that the provers need not look into them.
HoursE1 == "Betriebsstunden E1"
CyclesHeater1 == "Schaltspiele E-Heizung 1"
CyclesHeater2 == "Schaltspiele E-Heizung 2"
CyclesSecond == "Schaltspiele 2. WEZ"
HoursSecond == "Betriebsstunden 2. WEZ"

LEMMA Names ==
  /\ OldItemOfRegister(34103) = HoursE1 /\ ItemOfRegister(34103) = CyclesSecond
  /\ OldItemOfRegister(34102) = CyclesHeater1 /\ ItemOfRegister(34102) = HoursSecond
  /\ OldItemOfRegister(34106) = CyclesHeater2 /\ ItemOfRegister(34106) = HoursE1
  BY DEF OldItemOfRegister, ItemOfRegister, HoursE1, CyclesHeater1, CyclesHeater2,
         CyclesSecond, HoursSecond

LEMMA NamesApart ==
  /\ HoursE1 # CyclesHeater1 /\ HoursE1 # CyclesHeater2
  /\ HoursE1 # CyclesSecond /\ HoursE1 # HoursSecond
  /\ CyclesHeater1 # CyclesHeater2 /\ CyclesHeater1 # CyclesSecond
  /\ CyclesHeater1 # HoursSecond /\ CyclesHeater2 # CyclesSecond
  /\ CyclesHeater2 # HoursSecond /\ CyclesSecond # HoursSecond
  <1>1. HoursE1 # CyclesHeater1
    BY Zenon DEF HoursE1, CyclesHeater1
  <1>2. HoursE1 # CyclesHeater2
    BY Zenon DEF HoursE1, CyclesHeater2
  <1>3. HoursE1 # CyclesSecond
    BY Zenon DEF HoursE1, CyclesSecond
  <1>4. HoursE1 # HoursSecond
    BY Zenon DEF HoursE1, HoursSecond
  <1>5. CyclesHeater1 # CyclesHeater2
    BY Zenon DEF CyclesHeater1, CyclesHeater2
  <1>6. CyclesHeater1 # CyclesSecond
    BY Zenon DEF CyclesHeater1, CyclesSecond
  <1>7. CyclesHeater1 # HoursSecond
    BY Zenon DEF CyclesHeater1, HoursSecond
  <1>8. CyclesHeater2 # CyclesSecond
    BY Zenon DEF CyclesHeater2, CyclesSecond
  <1>9. CyclesHeater2 # HoursSecond
    BY Zenon DEF CyclesHeater2, HoursSecond
  <1>10. CyclesSecond # HoursSecond
    BY Zenon DEF CyclesSecond, HoursSecond
  <1> QED
    BY <1>1, <1>2, <1>3, <1>4, <1>5, <1>6, <1>7, <1>8, <1>9, <1>10

LEMMA NamesFacts ==
  ASSUME NEW r \in Relabelled
  PROVE  /\ OldItemOfRegister(r) # ItemOfRegister(r)
         /\ OldItemOfRegister(r) \in RelabelledNames /\ ItemOfRegister(r) \in RelabelledNames
  <1>1. OldItemOfRegister(r) # ItemOfRegister(r)
    BY Names, NamesApart DEF Relabelled
  <1>2. OldItemOfRegister(r) \in RelabelledNames /\ ItemOfRegister(r) \in RelabelledNames
    BY DEF RelabelledNames
  <1> QED
    BY <1>1, <1>2

LEMMA RowsFit ==
  /\ RowFits(34103, {}) /\ RowFits(34102, {34103}) /\ RowFits(34106, {34103, 34102})
  /\ RenamedItems[1] = NamesOf(34103) /\ RenamedItems[2] = NamesOf(34102)
  /\ RenamedItems[3] = NamesOf(34106)
  /\ {34103, 34102} \cup {34106} = Relabelled
  <1>1. RowFits(34103, {})
    BY Names, NamesApart DEF RowFits, Relabelled
  <1>2. RowFits(34102, {34103})
    BY Names, NamesApart DEF RowFits, Relabelled
  <1>3. RowFits(34106, {34103, 34102})
    BY Names, NamesApart DEF RowFits, Relabelled
  <1>4. RenamedItems = <<NamesOf(34103), NamesOf(34102), NamesOf(34106)>>
    <2>1. RenamedItems = << <<HoursE1, CyclesSecond>>, <<CyclesHeater1, HoursSecond>>,
                            <<CyclesHeater2, HoursE1>> >>
      BY Zenon DEF RenamedItems, HoursE1, CyclesHeater1, CyclesHeater2, CyclesSecond,
                   HoursSecond
    <2> QED
      BY <2>1, Names DEF NamesOf
  <1>5. /\ RenamedItems[1] = NamesOf(34103) /\ RenamedItems[2] = NamesOf(34102)
        /\ RenamedItems[3] = NamesOf(34106)
    BY <1>4
  <1>6. {34103, 34102} \cup {34106} = Relabelled
    BY DEF Relabelled
  <1> QED
    BY <1>1, <1>2, <1>3, <1>5, <1>6

\* Who has one of the two names is the entity of the register, under the old one.
LEMMA HoldersOfNames ==
  ASSUME NEW cur, NEW src, NEW taken, NEW keys, NEW done, NEW r,
         SourceOK(src, taken), MovedOK(cur, src, taken, keys, done), RowFits(r, done)
  PROVE  /\ \A e \in cur.entities : e.item = OldItemOfRegister(r) <=> e.register = r
         /\ \A e \in cur.entities : e.item # ItemOfRegister(r)
  <1> SUFFICES ASSUME NEW e \in cur.entities
               PROVE  /\ e.item = OldItemOfRegister(r) <=> e.register = r
                      /\ e.item # ItemOfRegister(r)
    OBVIOUS
  <1>1. r \in Relabelled /\ r \notin done /\ done \subseteq Relabelled
    BY DEF RowFits
  <1>2. CASE e.register = r
    <2>1. e \in src
      BY <1>1, <1>2 DEF MovedOK
    <2>2. e.item = OldItemOfRegister(r)
      BY <1>1, <1>2, <2>1 DEF SourceOK
    <2> QED
      BY <1>1, <1>2, <2>2, NamesFacts
  <1>3. CASE e.register \in Relabelled \ {r}
    <2>1. CASE e.register \in done
      <3>1. e.item = ItemOfRegister(e.register)
        BY <2>1 DEF MovedOK
      <3> QED
        BY <1>3, <2>1, <3>1 DEF RowFits
    <2>2. CASE e.register \notin done
      <3>1. e.item = OldItemOfRegister(e.register)
        BY <1>3, <2>2 DEF MovedOK, SourceOK
      <3> QED
        BY <1>3, <2>2, <3>1 DEF RowFits
    <2> QED
      BY <2>1, <2>2
  <1>4. CASE e.register \notin Relabelled
    <2>1. e.item \notin RelabelledNames
      BY <1>1, <1>4 DEF MovedOK, SourceOK
    <2> QED
      BY <1>1, <1>4, <2>1, NamesFacts
  <1> QED
    BY <1>2, <1>3, <1>4

\* A register nobody has registered.
LEMMA NoneMoves ==
  ASSUME NEW cur, NEW src, NEW taken, NEW keys, NEW done, NEW r,
         SourceOK(src, taken), MovedOK(cur, src, taken, keys, done), RowFits(r, done),
         \A e \in cur.entities : e.register # r
  PROVE  MovedOK(cur, src, taken, keys, done \cup {r})
  <1>1. \A o \in src : o.register # r
    BY DEF MovedOK, RowFits
  <1>2. \A e \in cur.entities : \A o \in src :
          IdMoved(o, e, cur.entities, src, taken, done)
            => IdMoved(o, e, cur.entities, src, taken, done \cup {r})
    BY DEF IdMoved
  <1>3. \A e \in cur.entities : e.register \in done \cup {r} =>
          /\ e.item = ItemOfRegister(e.register)
          /\ \E o \in src : o.register = e.register
          /\ \A o \in src : o.register = e.register =>
               IdMoved(o, e, cur.entities, src, taken, done \cup {r})
    BY <1>2 DEF MovedOK
  <1>4. /\ \A e \in cur.entities : e.register \notin done \cup {r} => e \in src
        /\ \A o \in src : o.register \notin done \cup {r} => o \in cur.entities
        /\ \A o \in src : o.register \in done \cup {r} =>
             \E e \in cur.entities : e.register = o.register
    BY <1>1 DEF MovedOK
  <1> QED
    BY <1>3, <1>4 DEF MovedOK

LEMMA Relabelling ==
  ASSUME NEW e, NEW new, NEW id, NEW moved, IsEntity(e),
         moved = [e EXCEPT !.item = new, !.id = id]
  PROVE  moved = [made |-> e.made, item |-> new, register |-> e.register, id |-> id]
  <1> DEFINE kept == <<e.id[1], e.id[2], e.id[3]>>
  <1>1. PICK m, n, r, i : m = e.made /\ n = e.item /\ r = e.register /\ i = kept
    OBVIOUS
  <1>2. e = [made |-> m, item |-> n, register |-> r, id |-> i]
    BY <1>1 DEF IsEntity
  <1> QED
    BY <1>1, <1>2

\* The one entity of a register, when it is registered.
LEMMA OneMoves ==
  ASSUME NEW cur, NEW src, NEW taken, NEW keys, NEW done, NEW r, NEW own \in cur.entities,
         SourceOK(src, taken), MovedOK(cur, src, taken, keys, done), RowFits(r, done),
         own.register = r
  PROVE  MovedOK(Move(cur, NamesOf(r)), src, taken, keys, done \cup {r})
  <1> DEFINE old == OldItemOfRegister(r)
             new == ItemOfRegister(r)
             label == EntityIdWithNewLabel(own.id, old, new)
             ids == {o.id : o \in cur.entities} \cup cur.taken
             id == IF label = NoNewId \/ label \in ids THEN own.id ELSE label
             moved == [made |-> "pump", item |-> new, register |-> r, id |-> id]
             now == (cur.entities \ {own}) \cup {moved}
             movers == {e \in cur.entities : e.made = "pump" /\ e.item = NamesOf(r)[1]}
             inUse == {e \in cur.entities : e.made = "pump" /\ e.item = NamesOf(r)[2]}
             next == [version |-> Current, keys |-> keys, entities |-> now, taken |-> taken,
                      failed |-> FALSE]
  <1>1. /\ r \in Relabelled /\ r \notin done /\ done \subseteq Relabelled
        /\ own \in src /\ own.item = old /\ own.made = "pump" /\ IsEntity(own)
        /\ own.id \notin taken
    BY DEF RowFits, MovedOK, SourceOK
  <1>2. /\ \A e \in cur.entities : e.item = old <=> e.register = r
        /\ \A e \in cur.entities : e.item # new
    BY HoldersOfNames
  <1>3. \A e \in cur.entities : e = own \/ e.register # r
    BY <1>1 DEF MovedOK
  <1>4. NamesOf(r)[1] = old /\ NamesOf(r)[2] = new
    BY DEF NamesOf
  <1> HIDE DEF old, new
  <1>5. movers = {own} /\ inUse = {}
    BY <1>1, <1>2, <1>3, <1>4
  <1>6. /\ cur.version = Current /\ cur.keys = keys /\ cur.taken = taken /\ cur.failed = FALSE
        /\ cur = [version |-> Current, keys |-> keys, entities |-> cur.entities,
                  taken |-> taken, failed |-> FALSE]
    BY DEF MovedOK
  <1>7. \/ id = own.id
        \/ /\ id = <<own.id[1], new, own.id[3]>>
           /\ id \notin ids
    BY DEF EntityIdWithNewLabel
  <1>8. [own EXCEPT !.item = new, !.id = id] = moved
    <2> HIDE DEF id
    <2>1. \A z : z = [own EXCEPT !.item = new, !.id = id] => z = moved
      BY <1>1, Relabelling
    <2> QED
      BY <2>1
  <1>9. Move(cur, NamesOf(r)) = next
    <2>1. (CHOOSE m \in movers : TRUE) = own /\ movers # {}
      BY <1>5
    <2>2. Move(cur, NamesOf(r)) =
            [cur EXCEPT !.entities = (@ \ {own}) \cup {[own EXCEPT !.item = new, !.id = id]},
                        !.failed = @ \/ inUse # {}]
      BY <1>4, <2>1, Zenon DEF Move
    <2> QED
      BY <1>5, <1>6, <1>8, <2>2
  <1>10. IsEntity(moved) /\ moved.made = "pump" /\ moved.id = id /\ id \notin taken
         /\ moved.register = r /\ moved.item = new
    BY <1>1, <1>6, <1>7 DEF IsEntity
  <1>11. \A x \in cur.entities : x # own => x.id # id
    BY <1>7 DEF MovedOK
  <1>12. \A o \in src : o.register = r => o = own
    BY <1>1 DEF SourceOK
  <1>13. IdMoved(own, moved, now, src, taken, done \cup {r})
    <2>1. CASE own.id[1] = "own" \/ own.id[2] # old
      <3>1. label = NoNewId
        BY <2>1 DEF EntityIdWithNewLabel
      <3> QED
        BY <1>1, <1>10, <2>1, <3>1 DEF IdMoved
    <2>2. CASE ~(own.id[1] = "own" \/ own.id[2] # old)
      <3>1. label = <<own.id[1], new, own.id[3]>>
        BY <2>2 DEF EntityIdWithNewLabel
      <3>2. label # NoNewId
        BY <2>2, <3>1 DEF NoNewId
      <3>3. CASE label \notin ids
        BY <1>1, <1>10, <2>2, <3>1, <3>2, <3>3 DEF IdMoved
      <3>4. CASE label \in ids
        <4>1. id = own.id
          BY <3>4
        <4>2. CASE label \in taken
          BY <1>1, <1>10, <2>2, <3>1, <4>1, <4>2 DEF IdMoved
        <4>3. CASE label \notin taken
          <5>1. PICK y \in cur.entities : y.id = label
            BY <1>6, <3>4, <4>3
          <5>2. CASE y.register \in done
            <6>1. y \in now /\ y.register \in done \cup {r}
              BY <1>1, <5>2
            <6> QED
              BY <1>1, <1>10, <2>2, <3>1, <4>1, <5>1, <6>1 DEF IdMoved
          <5>3. CASE y.register \notin done
            <6>1. y \in src
              BY <5>3 DEF MovedOK
            <6> QED
              BY <1>1, <1>10, <2>2, <3>1, <4>1, <5>1, <6>1 DEF IdMoved
          <5> QED
            BY <5>2, <5>3
        <4> QED
          BY <4>2, <4>3
      <3> QED
        BY <3>3, <3>4
    <2> QED
      BY <2>1, <2>2
  <1>14. ASSUME NEW e \in cur.entities, NEW o \in src, e # own, e.register \in done,
                o.register = e.register
         PROVE  IdMoved(o, e, now, src, taken, done \cup {r})
    <2>1. IdMoved(o, e, cur.entities, src, taken, done)
      BY <1>14 DEF MovedOK
    <2>2. \A x \in cur.entities : x.register \in done =>
            x \in now /\ x.register \in done \cup {r}
      BY <1>1
    <2> HIDE DEF now
    <2> QED
      BY <2>1, <2>2 DEF IdMoved
  <1>15. now = (cur.entities \ {own}) \cup {moved}
    OBVIOUS
  <1> HIDE DEF moved, now, id
  <1>16. /\ \A e \in now : IsEntity(e) /\ e.made = "pump" /\ e.id \notin taken
         /\ \A e, f \in now : e.id = f.id => e = f
         /\ \A e, f \in now : e.register = f.register /\ e.register \in Relabelled => e = f
    BY <1>1, <1>3, <1>10, <1>11, <1>15 DEF MovedOK
  <1>17. /\ \A e \in now : e.register \notin done \cup {r} => e \in src
         /\ \A o \in src : o.register \notin done \cup {r} => o \in now
         /\ \A o \in src : o.register \in done \cup {r} => \E e \in now : e.register = o.register
    BY <1>1, <1>3, <1>10, <1>15 DEF MovedOK
  <1>18. ASSUME NEW e \in now, e.register \in done \cup {r}
         PROVE  /\ e.item = ItemOfRegister(e.register)
                /\ \E o \in src : o.register = e.register
                /\ \A o \in src : o.register = e.register =>
                     IdMoved(o, e, now, src, taken, done \cup {r})
    <2>1. CASE e = moved
      BY <1>1, <1>10, <1>12, <1>13, <2>1 DEF new
    <2>2. CASE e # moved
      <3>1. e \in cur.entities /\ e # own /\ e.register \in done
        BY <1>3, <1>15, <1>18, <2>2
      <3>2. e.item = ItemOfRegister(e.register) /\ \E o \in src : o.register = e.register
        BY <3>1 DEF MovedOK
      <3> QED
        BY <1>14, <3>1, <3>2
    <2> QED
      BY <2>1, <2>2
  <1>19. next.entities = now
    OBVIOUS
  <1>20. MovedOK(next, src, taken, keys, done \cup {r})
    BY <1>16, <1>17, <1>18, <1>19 DEF MovedOK
  <1> QED
    BY <1>9, <1>20

LEMMA RowMoves ==
  ASSUME NEW cur, NEW src, NEW taken, NEW keys, NEW done, NEW r,
         SourceOK(src, taken), MovedOK(cur, src, taken, keys, done), RowFits(r, done)
  PROVE  MovedOK(Move(cur, NamesOf(r)), src, taken, keys, done \cup {r})
  <1>1. CASE \E e \in cur.entities : e.register = r
    BY <1>1, OneMoves
  <1>2. CASE \A e \in cur.entities : e.register # r
    <2>1. \A e \in cur.entities : e.item # OldItemOfRegister(r)
      BY <1>2, HoldersOfNames
    <2>2. Move(cur, NamesOf(r)) = cur
      BY <2>1 DEF Move, NamesOf
    <2> QED
      BY <1>2, <2>2, NoneMoves
  <1> QED
    BY <1>1, <1>2

LEMMA AllMove ==
  ASSUME NEW cur, NEW src, NEW taken, NEW keys,
         SourceOK(src, taken), MovedOK(cur, src, taken, keys, {})
  PROVE  MovedOK(Moves(cur), src, taken, keys, Relabelled)
  <1> DEFINE first == Move(cur, NamesOf(34103))
             second == Move(first, NamesOf(34102))
             third == Move(second, NamesOf(34106))
  <1>1. Moves(cur) = third
    BY RowsFit DEF Moves
  <1>2. MovedOK(first, src, taken, keys, {34103})
    <2>1. MovedOK(first, src, taken, keys, {} \cup {34103})
      BY RowsFit, RowMoves
    <2> QED
      BY <2>1
  <1> HIDE DEF first
  <1>3. MovedOK(second, src, taken, keys, {34103, 34102})
    <2>1. MovedOK(second, src, taken, keys, {34103} \cup {34102})
      BY <1>2, RowsFit, RowMoves
    <2>2. {34103} \cup {34102} = {34103, 34102}
      OBVIOUS
    <2> QED
      BY <2>1, <2>2
  <1> HIDE DEF second
  <1>4. MovedOK(third, src, taken, keys, {34103, 34102} \cup {34106})
    BY <1>3, RowsFit, RowMoves
  <1> HIDE DEF third
  <1> QED
    BY <1>1, <1>4, RowsFit

\* Nothing a version added is one of the old web interface's keys.
LEMMA AddedStays ==
  ASSUME NEW v \in Int
  PROVE  AddedBy(v) \cap LegacyWebifKeys = {}
  <1> DEFINE second == {"port", "prefix", "device_postfix", "kennfeld_file"}
             third == {"hk2", "hk3", "hk4", "hk5"}
             fourth == {"name_device_prefix", "name_topic_prefix"}
  <1>1. \/ AddedBy(v) = {} \/ AddedBy(v) = second \/ AddedBy(v) = third \/ AddedBy(v) = fourth
    BY DEF AddedBy
  <1>2. \A k \in second : k \notin LegacyWebifKeys
    BY Zenon DEF LegacyWebifKeys
  <1>3. \A k \in third : k \notin LegacyWebifKeys
    BY Zenon DEF LegacyWebifKeys
  <1>4. \A k \in fourth : k \notin LegacyWebifKeys
    BY Zenon DEF LegacyWebifKeys
  <1> HIDE DEF second, third, fourth
  <1> QED
    BY <1>1, <1>2, <1>3, <1>4

LEMMA KeysComplete ==
  ASSUME NEW version \in 1..(Current - 1), NEW keys,
         {"host"} \cup UNION {AddedBy(v) : v \in 2..version} \subseteq keys
  PROVE  /\ KeysAfter(version, keys) \cap LegacyWebifKeys = {}
         /\ {"host"} \cup UNION {AddedBy(v) : v \in 2..4} \subseteq KeysAfter(version, keys)
  <1>1. version \in Int /\ Current = 11 /\ version + 1 \in Int
    BY DEF Current
  <1>2. "host" \notin LegacyWebifKeys
    BY Zenon DEF LegacyWebifKeys
  <1>3. KeysAfter(version, keys) \cap LegacyWebifKeys = {}
    BY <1>1, AddedStays DEF KeysAfter
  <1>4. ASSUME NEW v \in 2..4, NEW k \in AddedBy(v) PROVE k \in KeysAfter(version, keys)
    <2>1. CASE v <= version
      <3>1. v \in 2..version /\ v \in Int
        BY <1>1, <2>1
      <3>2. k \in keys
        BY <3>1
      <3> QED
        BY <3>1, <3>2, AddedStays DEF KeysAfter
    <2>2. CASE ~(v <= version)
      <3>1. v \in (version + 1)..Current
        BY <1>1, <2>2
      <3> QED
        BY <3>1 DEF KeysAfter
    <2> QED
      BY <2>1, <2>2
  <1>5. "host" \in KeysAfter(version, keys)
    BY <1>2 DEF KeysAfter
  <1>6. UNION {AddedBy(v) : v \in 2..4} \subseteq KeysAfter(version, keys)
    BY <1>4, Zenon
  <1> QED
    BY <1>3, <1>5, <1>6

\* An entry to be relabelled, swept of the old web interface.
LEMMA BeforeTheMoves ==
  ASSUME NEW entry, IsEntry(entry), entry.version < 10
  PROVE  \E src, swept, keys :
           /\ src = {o \in entry.entities : o.made = "pump"}
           /\ keys = KeysAfter(entry.version, entry.keys)
           /\ Migrated(entry) = Moves(swept)
           /\ SourceOK(src, entry.taken)
           /\ MovedOK(swept, src, entry.taken, keys, {})
  <1> DEFINE src == {o \in entry.entities : o.made = "pump"}
             keys == KeysAfter(entry.version, entry.keys)
             left == IF entry.version < 9
                     THEN {e \in entry.entities : ~IsLegacyWebInterface(e.made)}
                     ELSE entry.entities
             begun == [version |-> Current, keys |-> keys, entities |-> entry.entities,
                       taken |-> entry.taken, failed |-> FALSE]
             swept == [version |-> Current, keys |-> keys, entities |-> src,
                       taken |-> entry.taken, failed |-> FALSE]
  <1>1. ~IsLegacyWebInterface("pump")
    BY Zenon DEF IsLegacyWebInterface
  <1>2. \A e \in entry.entities : ~IsLegacyWebInterface(e.made) <=> e.made = "pump"
    BY <1>1 DEF IsEntry
  <1>3. left = src
    BY <1>2 DEF IsEntry
  <1>4. Migrated(entry) = Moves([begun EXCEPT !.entities = left])
    BY Zenon DEF Migrated
  <1> HIDE DEF left, src, keys
  <1>5. [begun EXCEPT !.entities = left] = swept
    <2>1. PICK b, s : b = begun /\ s = [b EXCEPT !.entities = left]
      OBVIOUS
    <2>2. s = swept
      BY <1>3, <2>1
    <2> HIDE DEF begun, swept
    <2> QED
      BY <2>1, <2>2
  <1>6. SourceOK(src, entry.taken)
    <2>1. \A e \in src : e \in entry.entities /\ e.made = "pump"
      BY DEF src
    <2>2. \A e \in src : e.register \in Relabelled => e.item = OldItemOfRegister(e.register)
      BY <2>1 DEF IsEntry, ItemIn
    <2>3. \A e, f \in src : e.register = f.register /\ e.register \in Relabelled => e = f
      BY <2>1 DEF IsEntry
    <2> QED
      BY <2>1, <2>2, <2>3 DEF IsEntry, SourceOK
  <1>7. MovedOK(swept, src, entry.taken, keys, {})
    BY <1>6 DEF MovedOK, SourceOK
  <1>8. Migrated(entry) = Moves(swept)
    BY <1>4, <1>5
  <1> HIDE DEF swept
  <1> QED
    BY <1>6, <1>7, <1>8 DEF src, keys

\* Whatever version an entry has and whoever holds an entity id, as long as its
\* registrations are what that version registered: the update loses nothing
\* (async_migrate_entry, _move_relabelled_entities).
LEMMA UpdateHolds == IsInput(input) => MigrationLosesNothing
  <1> SUFFICES ASSUME IsInput(input), input[1] = "entry" PROVE MigrationLosesNothing
    BY DEF MigrationLosesNothing
  <1> DEFINE old == input[2]
             new == Migrated(old)
             pumps == {o \in old.entities : o.made = "pump"}
             keys == KeysAfter(old.version, old.keys)
  <1>1. IsEntry(old)
    BY DEF IsInput
  <1>2. /\ old.version \in 1..(Current - 1) /\ old.version \in Int
        /\ {"host"} \cup UNION {AddedBy(v) : v \in 2..old.version} \subseteq old.keys
    BY <1>1 DEF IsEntry, Current
  <1> HIDE DEF old
  <1>3. /\ keys \cap LegacyWebifKeys = {}
        /\ {"host"} \cup UNION {AddedBy(v) : v \in 2..4} \subseteq keys
    BY <1>2, KeysComplete
  <1> DEFINE Kept ==
        /\ ~new.failed /\ new.keys = keys /\ new.taken = old.taken
        /\ \A e, f \in new.entities : e.id = f.id => e = f
        /\ \A e \in new.entities : e.made = "pump" /\ e.id \notin new.taken
        /\ {e.register : e \in new.entities} = {o.register : o \in pumps}
        /\ \A x \in new.entities \cup pumps :
             x.register \notin Relabelled => x \in new.entities \cap pumps
      Named(e, o) ==
        LET relabelled == <<o.id[1], e.item, o.id[3]>>
        IN /\ e.item = ItemOfRegister(e.register)
           /\ IF o.id[1] = "own" \/ o.id[2] # o.item THEN e.id = o.id
              ELSE \/ e.id = relabelled
                   \/ /\ e.id = o.id
                      /\ \E x \in new.entities \cup old.entities :
                            relabelled \in {x.id} \cup new.taken
      Relabels == \A e \in new.entities : \A o \in pumps :
                    o.register = e.register /\ e.register \in Relabelled => Named(e, o)
  <1>4. ASSUME old.version < 10 PROVE Kept /\ Relabels
    <2>1. PICK src, swept, ks :
            /\ src = pumps /\ ks = keys /\ new = Moves(swept)
            /\ SourceOK(src, old.taken) /\ MovedOK(swept, src, old.taken, ks, {})
      BY <1>1, <1>4, BeforeTheMoves
    <2>2. MovedOK(new, pumps, old.taken, keys, Relabelled)
      BY <2>1, AllMove
    <2> HIDE DEF new, keys
    <2>3. pumps \subseteq old.entities
      OBVIOUS
    <2> HIDE DEF pumps
    <2>4. new.failed = FALSE /\ new.keys = keys /\ new.taken = old.taken
      BY <2>2 DEF MovedOK
    <2>5. {e.register : e \in new.entities} = {o.register : o \in pumps}
      BY <2>2 DEF MovedOK
    <2>6. Kept
      BY <2>2, <2>4, <2>5 DEF MovedOK
    <2>7. ASSUME NEW e \in new.entities, NEW o \in pumps, o.register = e.register,
                 e.register \in Relabelled
          PROVE  Named(e, o)
      <3>1. /\ e.item = ItemOfRegister(e.register)
            /\ IdMoved(o, e, new.entities, pumps, old.taken, Relabelled)
        BY <2>2, <2>7 DEF MovedOK
      <3> QED
        BY <2>3, <2>4, <3>1 DEF IdMoved
    <2> QED
      BY <2>6, <2>7
  <1>5. ASSUME old.version >= 10 PROVE Kept /\ Relabels
    <2> DEFINE begun == [version |-> Current, keys |-> keys, entities |-> old.entities,
                         taken |-> old.taken, failed |-> FALSE]
    <2>1. new = begun
      <3>1. ~(old.version < 10) /\ ~(old.version < 9)
        BY <1>2, <1>5
      <3>2. new = [begun EXCEPT !.entities = begun.entities]
        BY <3>1, Zenon DEF Migrated
      <3>3. PICK b, s : b = begun /\ s = [b EXCEPT !.entities = begun.entities]
        OBVIOUS
      <3>4. s = begun
        BY <3>3
      <3> HIDE DEF begun
      <3> QED
        BY <3>2, <3>3, <3>4
    <2>2. \A e \in old.entities : e.made = "pump" /\ e.id \notin old.taken /\ IsEntity(e)
      BY <1>1, <1>2, <1>5 DEF IsEntry
    <2>3. pumps = old.entities
      BY <2>2
    <2> HIDE DEF new, pumps, keys
    <2>4. new.entities = old.entities /\ new.keys = keys /\ new.taken = old.taken /\ ~new.failed
      BY <2>1
    <2>5. /\ \A e, f \in old.entities : e.id = f.id => e = f
          /\ \A e, f \in old.entities :
               e.register = f.register /\ e.register \in Relabelled => e = f
          /\ \A e \in old.entities : e.register \in Relabelled =>
               e.item = ItemOfRegister(e.register)
      BY <1>1, <1>2, <1>5, <2>2 DEF IsEntry, ItemIn
    <2>6. Kept
      BY <2>2, <2>3, <2>4, <2>5
    <2>7. ASSUME NEW e \in new.entities, NEW o \in pumps, o.register = e.register,
                 e.register \in Relabelled
          PROVE  Named(e, o)
      <3>1. e = o /\ e \in old.entities
        BY <2>3, <2>4, <2>5, <2>7
      <3>2. o.id = <<o.id[1], o.id[2], o.id[3]>>
        <4>1. PICK m, n, r, i : /\ m = o.made /\ n = o.item /\ r = o.register
                                /\ i = <<o.id[1], o.id[2], o.id[3]>>
          OBVIOUS
        <4>2. o = [made |-> m, item |-> n, register |-> r, id |-> i]
          BY <2>2, <3>1, <4>1 DEF IsEntity
        <4> QED
          BY <4>1, <4>2
      <3>3. CASE o.id[2] = o.item
        <4>1. <<o.id[1], e.item, o.id[3]>> = e.id
          BY <3>1, <3>2, <3>3
        <4> QED
          BY <2>5, <2>7, <3>1, <4>1
      <3>4. CASE o.id[2] # o.item
        BY <2>5, <2>7, <3>1, <3>4
      <3> QED
        BY <3>3, <3>4
    <2> QED
      BY <2>6, <2>7
  <1>6. Kept /\ Relabels
    <2>1. old.version < 10 \/ old.version >= 10
      BY <1>2
    <2> HIDE DEF Kept, Relabels
    <2> QED
      BY <1>4, <1>5, <2>1
  <1> HIDE DEF new, pumps, keys
  <1> QED
    BY <1>3, <1>6, Zenon DEF MigrationLosesNothing, new, pumps, old

\* An update loses nothing, whatever version the entry had, whatever else is
\* registered and whoever holds an entity id (async_migrate_entry,
\* _move_relabelled_entities).
THEOREM UpdateLosesNothing == RulesSpec => []MigrationLosesNothing
  <1>1. IsInput(input) => MigrationLosesNothing
    BY UpdateHolds
  <1>2. IsInput(input) /\ [UNCHANGED input]_input => IsInput(input)'
    BY DEF IsInput
  <1> QED
    BY <1>1, <1>2, PTL DEF RulesSpec, RulesInit
====
