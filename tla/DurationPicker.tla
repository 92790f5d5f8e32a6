----------------------------- MODULE DurationPicker -----------------------------
(* The picker of a duration: preset chips, then "Custom", which is a wheel of two  *)
(* columns (hours, minutes) or a number with a unit. The value belongs to the form *)
(* around it, which may change it, and lock it, at any time; a column that was     *)
(* scrolled counts as picked once it has been still for WHEEL_SETTLE_MS.           *)
EXTENDS FiniteSets, Integers, SequencesExt

CONSTANTS
    Presets,            \* the chips' minutes
    Limits,             \* what min and max may be
    Durations,          \* the values a form gives the picker
    Typed,              \* the numbers that are typed, in hundredths
    WHEEL_MAX_HOURS,
    MaxPicks            \* steps (bound)

VARIABLES
    limits, custom,     \* the props: min and max, and which custom input
    minutes, locked,    \* the form's: the value, and whether the form is locked
    customPicked, customEmitted,   \* the picker's: "Custom" was picked; its last value (0: none)
    scroll, settling,   \* the wheel's: the item in the middle of a column; the columns not yet still
    unit, text, typing, \* the number's: hundredths (Nothing: no number), and whether it has the focus
    emitted, last,      \* history: the last value handed to the form, and who changed it last
    cut,                \* history: a column was still scrolled when the form was locked
    pickSteps

pickVars == <<limits, custom, minutes, locked, customPicked, customEmitted, scroll, settling,
              unit, text, typing, emitted, last, cut, pickSteps>>

Nothing == -1
Columns == {"hours", "minutes"}
AtMost(a, b)  == IF a < b THEN a ELSE b
AtLeast(a, b) == IF a > b THEN a ELSE b

--------------------------------------------------------------------------------
(* The arithmetic. *)

clampDuration(m, l) == AtMost(AtLeast(m, l.min), l.max)

\* A column's items: hours grown to show a stored value, minutes in steps of five and
\* the stored minute when it is off them.
buildWheelHours(m, l) ==
    LET first == AtMost(l.min \div 60, m \div 60)
        final == AtLeast(AtLeast(AtMost(WHEEL_MAX_HOURS, l.max \div 60), m \div 60), first)
    IN [i \in 1 .. final - first + 1 |-> first + i - 1]
buildWheelMinutes(m) ==
    LET off == m % 60
        grid == [i \in 1 .. 12 |-> 5 * (i - 1)]
    IN IF off % 5 = 0 THEN grid ELSE InsertAt(grid, off \div 5 + 2, off)

Items(col, m) == IF col = "hours" THEN buildWheelHours(m, limits) ELSE buildWheelMinutes(m)
Part(col, m)  == IF col = "hours" THEN m \div 60 ELSE m % 60
Index(col, m) == CHOOSE i \in DOMAIN Items(col, m) : Items(col, m)[i] = Part(col, m)

\* A clamped pick goes to the grid of five minutes when that is within the limits.
clampWheelDuration(m, l) ==
    LET clamped == clampDuration(m, l)
        stepped == IF m < l.min THEN ((l.min + 4) \div 5) * 5 ELSE (l.max \div 5) * 5
    IN IF clamped = m \/ clamped % 5 = 0 \/ stepped \notin l.min .. l.max THEN clamped ELSE stepped

\* Minutes in a unit, in hundredths, and back; both round.
resolveDurationUnit(m) == IF m >= 60 /\ m % 60 = 0 THEN "hours" ELSE "minutes"
formatDurationAmount(m, u) == IF u = "minutes" THEN 100 * m ELSE (10 * m + 3) \div 6
parseDurationAmount(t, u) ==
    CASE t = Nothing -> Nothing
      [] t # Nothing /\ u = "minutes" -> (t + 50) \div 100
      [] t # Nothing /\ u = "hours" -> (6 * t + 5) \div 10
Meant == LET p == parseDurationAmount(text, unit) IN IF p = Nothing THEN minutes ELSE p

--------------------------------------------------------------------------------
(* The picker. *)

visiblePresets == {p \in Presets : p >= limits.min /\ p <= limits.max}
ShowsCustom(picked, m) == picked \/ m \notin visiblePresets
showCustom == ShowsCustom(customPicked, minutes)

AtRest(m) == [col \in Columns |-> Index(col, m)]

PickInit ==
    /\ limits \in Limits /\ custom \in {"wheel", "number-unit"} /\ minutes \in Durations
    /\ locked = FALSE /\ customEmitted = 0
    /\ customPicked = (minutes \notin visiblePresets)
    /\ scroll = AtRest(minutes) /\ settling = {}
    /\ unit = resolveDurationUnit(minutes) /\ text = formatDurationAmount(minutes, unit) /\ typing = FALSE
    /\ emitted = 0 /\ last = "form" /\ cut = FALSE /\ pickSteps = 0

Steps == pickSteps < MaxPicks /\ pickSteps' = pickSteps + 1

\* Mutant: a pick that changes nothing leaves the column where it was dropped.
WheelUnlessMoved(m, picked, back) ==
    /\ scroll' = IF showCustom /\ ShowsCustom(picked, m)
                 THEN [col \in Columns |->
                          IF Index(col, m) # Index(col, minutes)
                          THEN Index(col, m) ELSE scroll[col]]
                 ELSE AtRest(m)
    /\ settling' = IF showCustom /\ ShowsCustom(picked, m) THEN settling \ back ELSE {}

\* The wheel at value m: a column goes to its item when that moved, or when it was just
\* picked in (settleCount: the pick may have changed nothing).
Wheel(m, picked, back) ==
    /\ scroll' = IF showCustom /\ ShowsCustom(picked, m)
                 THEN [col \in Columns |->
                          IF col \in back \/ Index(col, m) # Index(col, minutes)
                          THEN Index(col, m) ELSE scroll[col]]
                 ELSE AtRest(m)
    /\ settling' = IF showCustom /\ ShowsCustom(picked, m) THEN settling \ back ELSE {}

\* The number at value m, where t was typed in unit u.
Number(m, picked, t, u) ==
    IF ~showCustom \/ ~ShowsCustom(picked, m)
    THEN unit' = resolveDurationUnit(m) /\ text' = formatDurationAmount(m, unit')
    ELSE /\ unit' = u
         /\ text' = IF m # minutes /\ parseDurationAmount(t, u) # m THEN formatDurationAmount(m, u) ELSE t

\* The value becomes m. One that the custom input did not just hand over decides anew
\* between the chips and "Custom".
redecides(m, picked, ref) == IF m # minutes /\ m # ref THEN m \notin visiblePresets ELSE picked

Becomes(m, picked, ref, by, back, t, u) ==
    LET p == redecides(m, picked, ref) IN
    /\ minutes' = m /\ customPicked' = p /\ customEmitted' = ref
    /\ last' = IF m = minutes THEN last ELSE by
    /\ emitted' = IF by = "form" THEN emitted ELSE m
    /\ Wheel(m, p, back) /\ Number(m, p, t, u)

\* The form loads or resets, and locks or unlocks.
FormChanges(m) ==
    /\ m # minutes /\ Steps
    /\ Becomes(m, customPicked, customEmitted, "form", {}, text, unit)
    /\ UNCHANGED <<limits, custom, locked, cut>>
    /\ typing' = (typing /\ showCustom')

FormLocks ==
    /\ ~typing /\ Steps /\ locked' = ~locked
    /\ UNCHANGED <<limits, custom, minutes, customPicked, customEmitted, scroll, settling, unit,
                   text, typing, emitted, last, cut>>

handlePresetChange(p) ==
    /\ ~locked /\ ~typing /\ (showCustom \/ p # minutes) /\ Steps
    /\ Becomes(p, FALSE, 0, "preset", {}, text, unit)
    /\ UNCHANGED <<limits, custom, locked, typing, cut>>

pickCustom ==
    /\ ~locked /\ ~showCustom /\ Steps /\ customPicked' = TRUE /\ last' = "custom"
    /\ UNCHANGED <<limits, custom, minutes, locked, customEmitted, scroll, settling, unit, text,
                   typing, emitted, cut>>

handleCustomChange(m, back, t, u) ==
    IF m = minutes
    THEN /\ Wheel(m, customPicked, back) /\ unit' = u /\ text' = t
         /\ UNCHANGED <<minutes, customPicked, customEmitted, emitted, last>>
    ELSE Becomes(m, customPicked, m, "custom", back, t, u)

--------------------------------------------------------------------------------
(* The wheel. *)

OnWheel == showCustom /\ custom = "wheel"

\* The item picked in a column, with the other column's.
commit(col, item, back) ==
    LET h == IF col = "hours" THEN item ELSE minutes \div 60
        m == IF col = "hours" THEN minutes % 60 ELSE item
    IN handleCustomChange(clampWheelDuration(60 * h + m, limits), back, text, unit)

\* A key, a notch of the mouse wheel or a click on an item.
stepBy(col, i) ==
    /\ OnWheel /\ ~locked /\ i \in DOMAIN Items(col, minutes) /\ i # Index(col, minutes) /\ Steps
    /\ commit(col, Items(col, minutes)[i], {})
    /\ UNCHANGED <<limits, custom, locked, typing, cut>>

handleScroll(col, i) ==
    /\ OnWheel /\ ~locked /\ i \in DOMAIN Items(col, minutes) /\ Steps
    /\ scroll' = [scroll EXCEPT ![col] = i] /\ settling' = settling \cup {col}
    /\ UNCHANGED <<limits, custom, minutes, locked, customPicked, customEmitted, unit, text, typing,
                   emitted, last, cut>>

\* A list that got shorter has moved what is in its middle.
Settled(col) ==
    LET i == AtMost(scroll[col], Len(Items(col, minutes))) IN
    /\ col \in settling
    /\ IF locked \/ i = Index(col, minutes)
       THEN /\ settling' = settling \ {col} /\ scroll' = [scroll EXCEPT ![col] = i]
            /\ UNCHANGED <<unit, text, minutes, customPicked, customEmitted, emitted, last>>
       ELSE commit(col, Items(col, minutes)[i], {col})
    /\ cut' = (cut \/ (locked /\ i # Index(col, minutes)))
    /\ UNCHANGED <<limits, custom, locked, typing, pickSteps>>

--------------------------------------------------------------------------------
(* The number and its unit. *)

OnNumber == showCustom /\ custom = "number-unit" /\ ~locked

\* Out of range waits for the blur.
handleTextChange(t) ==
    LET p == parseDurationAmount(t, unit) IN
    /\ OnNumber /\ t # text /\ Steps
    /\ handleCustomChange(IF p \in limits.min .. limits.max THEN p ELSE minutes, {}, t, unit)
    /\ UNCHANGED <<limits, custom, locked, cut>>
    /\ typing' = showCustom'

handleBlur ==
    LET m == clampDuration(Meant, limits) IN
    /\ OnNumber /\ typing /\ typing' = FALSE
    /\ handleCustomChange(m, {}, formatDurationAmount(m, unit), unit)
    /\ UNCHANGED <<limits, custom, locked, cut, pickSteps>>

\* A whole number stays and changes its meaning; a fraction is converted.
handleUnitChange(u) ==
    LET p == parseDurationAmount(text, u)
        keeps == text # Nothing /\ text % 100 = 0
        m == clampDuration(IF keeps THEN p ELSE minutes, limits)
    IN /\ OnNumber /\ ~typing /\ u # unit /\ Steps
       /\ handleCustomChange(m, {}, formatDurationAmount(m, u), u)
       /\ UNCHANGED <<limits, custom, locked, typing, cut>>

PickNext ==
    \/ \E m \in Durations : FormChanges(m)
    \/ FormLocks \/ pickCustom \/ handleBlur
    \/ \E p \in visiblePresets : handlePresetChange(p)
    \/ \E col \in Columns, i \in 1 .. 13 : stepBy(col, i) \/ handleScroll(col, i)
    \/ \E col \in Columns : Settled(col)
    \/ \E t \in Typed \cup {Nothing} : handleTextChange(t)
    \/ \E u \in {"minutes", "hours"} : handleUnitChange(u)

--------------------------------------------------------------------------------
(* Properties. *)

\* Whatever is picked, the form is handed whole minutes within its limits
\* (duration-picker.tsx: "always within `min`/`max`").
HandsOverWithinLimits == emitted # 0 => emitted \in limits.min .. limits.max

\* Once the columns are still and the number has been left, what the custom input shows
\* is the form's value (handleScroll, DurationNumberUnit).
Shown ==
    /\ custom = "wheel" => \A col \in Columns \ settling : scroll[col] = Index(col, minutes)
    /\ custom = "number-unit" /\ ~typing => parseDurationAmount(text, unit) = minutes
QuietPickerShowsValue == showCustom /\ ~cut => Shown

\* A column that was scrolled when the form is locked stays where it is: with the lock
\* counted, the code does not keep this.
LockedPickerShowsValue == showCustom => Shown

\* "A value that changes from outside re-decides between chip and Custom": the last
\* value the custom input handed over does not, when the form comes back to it.
OutsideRedecides == last = "form" => customPicked = (minutes \notin visiblePresets)
================================================================================
