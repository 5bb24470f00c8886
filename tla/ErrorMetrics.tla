---------------------------- MODULE ErrorMetrics ----------------------------
(***************************************************************************)
(* pkg/logging/error_metrics.go: counts of errors by code, operation and   *)
(* component, and a sliding window of counts per interval, from which the  *)
(* error rate of the last while is computed.                               *)
(*                                                                         *)
(* RecordError looks at enabled without the lock and then counts under it. *)
(* Time is a count of ticks, Interval of which make a window.              *)
(***************************************************************************)
EXTENDS Naturals, Sequences, FiniteSets, FiniteSetsExt

CONSTANTS
    Recorders,  \* the goroutines that record errors
    Codes,      \* error codes
    Places,     \* operations and components; None is the empty name
    None,
    Size,       \* windows kept
    Interval,   \* ticks in a window
    MaxTime, MaxErrors  \* bounds of the model

MetricsAssumption ==
    /\ Size \in Nat \ {0} /\ Interval \in Nat \ {0}
    /\ MaxTime \in Nat /\ MaxErrors \in Nat /\ None \in Places

VARIABLES
    now,
    enabled,
    at,         \* at[r]: "idle", or "count" when it has seen enabled
    counts,     \* errorCounts
    byPlace,    \* errorsByOperation; errorsByComponent is kept the same way
    total,      \* totalErrors
    windows,    \* TimeWindowCounter.windows
    times       \* history: when the errors since the last Reset were counted

vars == <<now, enabled, at, counts, byPlace, total, windows, times>>

Init ==
    /\ now = 0
    /\ enabled = TRUE
    /\ at = [r \in Recorders |-> "idle"]
    /\ counts = [c \in Codes |-> 0]
    /\ byPlace = [p \in Places \ {None} |-> [c \in Codes |-> 0]]
    /\ total = 0
    /\ windows = <<>>
    /\ times = <<>>

(* The sum of f over S, as the number of units in it.                      *)
Units(f, S)   == UNION {{x} \X (1..f[x]) : x \in S}
SumOver(f, S) == Cardinality(Units(f, S))

Truncate(t) == (t \div Interval) * Interval

(* t is after the moment d ticks before now.                               *)
Within(t, d) == t + d > now

(* Wrong: a window on the edge is taken for an old one.                    *)
CleanedEarly(ws) ==
    LET live == {i \in DOMAIN ws : Within(ws[i].start, (Size - 1) * Interval)}
    IN  IF live = {} THEN ws ELSE SubSeq(ws, Min(live), Len(ws))

(* cleanOldWindows: what comes before the first window that is not too old *)
(* goes; when all are too old nothing does.                                *)
Cleaned(ws) ==
    LET live == {i \in DOMAIN ws : Within(ws[i].start, Size * Interval)}
    IN  IF live = {} THEN ws ELSE SubSeq(ws, Min(live), Len(ws))

(* IncrementBy(1).                                                         *)
Incremented(ws) ==
    LET clean == Cleaned(ws)
        start == Truncate(now)
        fits  == IF Len(clean) >= Size THEN Tail(clean) ELSE clean
    IN  IF clean = <<>> \/ clean[Len(clean)].start < start
        THEN Append(fits, [start |-> start, count |-> 1])
        ELSE [clean EXCEPT ![Len(clean)].count = @ + 1]

(* GetRate, but for the division by the duration.                          *)
ErrorsIn(d) ==
    SumOver([i \in DOMAIN windows |-> windows[i].count],
            {i \in DOMAIN windows : Within(windows[i].start, d)})

SeeEnabled(r) ==
    /\ at[r] = "idle"
    /\ enabled
    /\ at' = [at EXCEPT ![r] = "count"]
    /\ UNCHANGED <<now, enabled, counts, byPlace, total, windows, times>>

Record(r) ==
    /\ at[r] = "count"
    /\ Len(times) < MaxErrors
    /\ \E c \in Codes, p \in Places :
          /\ counts' = [counts EXCEPT ![c] = @ + 1]
          /\ byPlace' = IF p = None THEN byPlace ELSE [byPlace EXCEPT ![p][c] = @ + 1]
    /\ total' = total + 1
    /\ windows' = Incremented(windows)
    /\ times' = Append(times, now)
    /\ at' = [at EXCEPT ![r] = "idle"]
    /\ UNCHANGED <<now, enabled>>

Reset ==
    /\ counts' = [c \in Codes |-> 0]
    /\ byPlace' = [p \in Places \ {None} |-> [c \in Codes |-> 0]]
    /\ total' = 0
    /\ windows' = <<>>
    /\ times' = <<>>
    /\ UNCHANGED <<now, enabled, at>>

(* Enable, Disable.                                                        *)
Toggle == enabled' = ~enabled /\ UNCHANGED <<now, at, counts, byPlace, total, windows, times>>

Tick ==
    /\ now < MaxTime
    /\ now' = now + 1
    /\ UNCHANGED <<enabled, at, counts, byPlace, total, windows, times>>

Next == (\E r \in Recorders : SeeEnabled(r) \/ Record(r)) \/ Reset \/ Toggle \/ Tick

Spec == Init /\ [][Next]_vars

-----------------------------------------------------------------------------
TypeOK ==
    /\ now \in 0..MaxTime
    /\ enabled \in BOOLEAN
    /\ at \in [Recorders -> {"idle", "count"}]
    /\ counts \in [Codes -> Nat]
    /\ byPlace \in [Places \ {None} -> [Codes -> Nat]]
    /\ total \in Nat
    /\ windows \in Seq([start : 0..MaxTime, count : Nat \ {0}]) /\ Len(windows) <= Size

(* The rate is what its definition says: for every duration the windows    *)
(* reach back to, GetRate counts each error once whose interval began      *)
(* within that duration, whenever errors, resets and pauses occur; and the *)
(* tables agree with it.  (For a duration shorter than the interval this   *)
(* may leave out an error of a moment ago.)                                *)
RateMatchesErrors ==
    /\ \A d \in 1..(Size * Interval) :
          ErrorsIn(d) = Cardinality({i \in DOMAIN times : Within(Truncate(times[i]), d)})
    /\ total = Len(times)
    /\ total = SumOver(counts, Codes)
    /\ \A c \in Codes :
          counts[c] >= SumOver([p \in Places \ {None} |-> byPlace[p][c]], Places \ {None})
=============================================================================
