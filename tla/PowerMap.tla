---- MODULE PowerMap ----
\* The power map (kennfeld.py): which files it takes, what it puts under
\* www/local, the rated power it interpolates; and the sensors calculated from
\* it and from other registers (calculations.py, MyCalcSensorEntity).
\* Temperatures are raw tenths of a degree, a power is a fraction <<numerator,
\* denominator>> of watts: the code's floats without their rounding.
EXTENDS Integers, Sequences, FiniteSets, SequencesExt, FiniteSetsExt

\* A value of a file that map() cannot compute with: text, true, infinity.
Unusable == -1000000
NoPower == <<0, 0>>

\* A file is [readable, known_t, known_x, grid, preview]: `grid` maps a tenth of
\* a degree of air intake to one power per flow temperature, an empty one is a
\* file never compiled; `preview` is "static", "unsafe", "unreadable" or "none".

----
\* Taking a file.

\* _numbers
Numbers(values, atLeast) ==
    Len(values) >= atLeast /\ \A i \in DOMAIN values : values[i] # Unusable

Ascending(values) ==
    \A i, j \in DOMAIN values : i < j => values[i] < values[j]

\* Mutant of SortedOnce: equal flow temperatures pass as sorted.
SortedWithTwins(values) == \A i, j \in DOMAIN values : i < j => values[i] <= values[j]

\* known_t == sorted(set(known_t))
SortedOnce(values) == Ascending(values)

\* _raw_bounds: known_x is in whole degrees.
RawBounds(airs) == <<10 * Min(Range(airs)), 10 * Max(Range(airs))>>

LooksLikeAGrid(file) ==
    /\ Numbers(file.known_t, 2) /\ SortedOnce(file.known_t)
    /\ Numbers(file.known_x, 1)
    /\ file.grid # <<>> =>
        LET bounds == RawBounds(file.known_x)
        IN /\ bounds[1]..bounds[2] \subseteq DOMAIN file.grid
           /\ \A raw \in DOMAIN file.grid :
                Numbers(file.grid[raw], Len(file.known_t))
                /\ Len(file.grid[raw]) = Len(file.known_t)

\* _load_grid
Loads(file) == file.readable /\ LooksLikeAGrid(file) /\ file.grid # <<>>

\* _accepted_preview: it exists, reads as text and neither runs nor loads.
AcceptedPreview(file) == file.preview = "static"

\* _copy_powermap_plot for a file that loaded or not: what is under www/local
\* afterwards - the file's own preview, none, or what was there when the disk
\* fails.
CopyPowermapPlot(file, loaded, before, failing) ==
    IF failing THEN before
    ELSE IF loaded /\ AcceptedPreview(file) THEN "own" ELSE "none"

\* initialize: the preview step runs whatever the load's outcome.
Initialize(file, before, failing) == CopyPowermapPlot(file, Loads(file), before, failing)

----
\* The rated power.

Clamp(low, value, high) ==
    IF value < low THEN low ELSE IF value > high THEN high ELSE value

\* PowerMap.map: between the first two flow temperatures the clamped one lies
\* between, on the curve of its air intake temperature.
RatedPower(file, air, flow) ==
    IF ~Loads(file) THEN NoPower
    ELSE LET t == file.known_t
             bounds == RawBounds(file.known_x)
             vals == file.grid[Clamp(bounds[1], air, bounds[2])]
             at == Clamp(10 * t[1], flow, 10 * t[Len(t)])
             i == Min({k \in 1..(Len(t) - 1) : 10 * t[k] <= at /\ at <= 10 * t[k + 1]})
             width == 10 * (t[i + 1] - t[i])
         IN <<vals[i] * width + (at - 10 * t[i]) * (vals[i + 1] - vals[i]), width>>

----
\* The calculated sensors: a reading that is missing is NoReading.

Missing == -100002

\* heat_output: percent of the rated power.
HeatOutput(file, request, air, flow) ==
    LET rated == RatedPower(file, air, flow)
    IN IF rated = NoPower THEN NoPower ELSE <<request * rated[1], 100 * rated[2]>>

\* spread: the own register divided, the return's raw word; in tenths.
Spread(flow, return, divider) == <<flow * 10 - return * divider, divider>>

MinElectricEnergyKwh == 5

\* performance_factor: undefined until the electric energy counts.
PerformanceFactor(heat, electric) ==
    IF electric < MinElectricEnergyKwh THEN NoPower ELSE <<heat, electric>>

\* MyCalcSensorEntity.translate_val: no value without every operand.
CalculatedOf(formula, file, own, siblings, divider) ==
    IF own = Missing \/ Missing \in Range(siblings) THEN NoPower
    ELSE CASE formula = "heat_output" -> HeatOutput(file, own, siblings[1], siblings[2])
           [] formula = "spread" -> Spread(own, siblings[1], divider)
           [] OTHER -> PerformanceFactor(own, siblings[1])
====
