------------------------------- MODULE Sampler -------------------------------
(***************************************************************************)
(* pkg/logging/sampler.go and sampling_handler.go: the handler that passes *)
(* on a burst of records per minute, and of the others a share.            *)
(*                                                                         *)
(* ShouldSample runs under the sampler's mutex; the record is passed on    *)
(* after it.  The window is looked at only when a record comes.            *)
(***************************************************************************)
EXTENDS Naturals, FiniteSets

CONSTANTS
    Loggers,            \* goroutines that log; derived handlers share the sampler
    BurstSize,          \* config
    Minute,             \* in ticks
    MaxRecords, MaxTime \* bounds of the model

SamplerAssumption ==
    {BurstSize, Minute, MaxRecords, MaxTime} \subseteq Nat

VARIABLES
    config,     \* Enabled and AlwaysErrors, of the configuration
    now,
    window,     \* when the minute began
    counter,
    totals,     \* totalSeen, totalSampled, totalDropped
    passing,    \* the loggers between ShouldSample and the wrapped handler
    passed,     \* history: how many records the wrapped handler got
    bursts      \* history: when the records of bursts were let through

vars == <<config, now, window, counter, totals, passing, passed, bursts>>

Init ==
    /\ config \in [enabled : BOOLEAN, alwaysErrors : BOOLEAN]
    /\ now = 0
    /\ window = 0
    /\ counter = 0
    /\ totals = [seen |-> 0, sampled |-> 0, dropped |-> 0]
    /\ passing = {}
    /\ passed = 0
    /\ bursts = {}

Seen(how) == totals' = [totals EXCEPT !.seen = @ + 1, ![how] = @ + 1]

(* Nothing is sampled, or an error is not.                                 *)
Exempt(error) == ~config.enabled \/ (config.alwaysErrors /\ error)

(* ShouldSample.                                                           *)
Decide(l) ==
    /\ l \notin passing
    /\ totals.seen < MaxRecords
    /\ \E error \in BOOLEAN, chance \in BOOLEAN :
          LET over  == now - window > Minute
              count == IF over THEN 0 ELSE counter
          IN  IF Exempt(error)
              THEN Seen("sampled") /\ passing' = passing \cup {l} /\ UNCHANGED <<window, counter, bursts>>
              ELSE /\ window' = IF over THEN now ELSE window
                   /\ counter' = IF count < BurstSize THEN count + 1 ELSE count
                   /\ bursts' = IF count < BurstSize
                                THEN bursts \cup {[n |-> totals.seen, at |-> now]} ELSE bursts
                   /\ IF count < BurstSize \/ chance
                      THEN Seen("sampled") /\ passing' = passing \cup {l}
                      ELSE Seen("dropped") /\ UNCHANGED passing
    /\ UNCHANGED <<config, now, passed>>

(* The wrapped handler gets the record.                                    *)
Pass(l) ==
    /\ l \in passing
    /\ passing' = passing \ {l}
    /\ passed' = passed + 1
    /\ UNCHANGED <<config, now, window, counter, totals, bursts>>

Tick ==
    /\ now < MaxTime
    /\ now' = now + 1
    /\ UNCHANGED <<config, window, counter, totals, passing, passed, bursts>>

Next == (\E l \in Loggers : Decide(l) \/ Pass(l)) \/ Tick

Spec == Init /\ [][Next]_vars

-----------------------------------------------------------------------------
TypeOK ==
    /\ config \in [enabled : BOOLEAN, alwaysErrors : BOOLEAN]
    /\ {now, window} \subseteq 0..MaxTime
    /\ counter \in 0..BurstSize
    /\ totals \in [seen : Nat, sampled : Nat, dropped : Nat]
    /\ passing \subseteq Loggers
    /\ passed \in Nat
    /\ bursts \subseteq [n : Nat, at : 0..MaxTime]

(* What is counted is what is passed on; and the burst is a limit: within  *)
(* any minute at most two bursts are let through unsampled (the end of one *)
(* window and the beginning of the next), never three.                     *)
BurstsAreLimited ==
    /\ totals.seen = totals.sampled + totals.dropped
    /\ totals.sampled = passed + Cardinality(passing)
    /\ \A t \in 0..MaxTime :
          Cardinality({b \in bursts : b.at \in t..(t + Minute)}) <= 2 * BurstSize
=============================================================================
