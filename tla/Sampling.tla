------------------------------ MODULE Sampling ------------------------------
(***************************************************************************)
(* pkg/logging/sampling_strategies.go: which records are let through, and  *)
(* what the strategies count.                                              *)
(*                                                                         *)
(* AdvancedSampler asks its default strategy and then, in order, all the   *)
(* others, which count but only the priority rules can overrule.  A call   *)
(* holds the sampler's read lock throughout, and each strategy's lock      *)
(* while it counts; the sampler's own counters are written under the read  *)
(* lock, so calls overwrite each other's.  A ticker adjusts the rate of    *)
(* the adaptive strategy under the write lock.                             *)
(*                                                                         *)
(* A record is an error, worse than an error, slow, or plain; whether its  *)
(* hash is below a rate is a free choice.  (A sampler whose configuration  *)
(* is not enabled lets everything through.)                                *)
(***************************************************************************)
EXTENDS Integers, Sequences, Functions, FiniteSets

CONSTANTS
    Callers,
    One,            \* the rate 1.0; rates are integers below it
    MinRate,        \* of the adaptive strategy; its MaxRate is One
    MaxRecords, MaxAdjusts  \* bounds of the model

SamplingAssumption ==
    /\ One \in Nat /\ MinRate \in 0..One
    /\ MaxRecords \in Nat /\ MaxAdjusts \in Nat

VARIABLES
    strategies, \* what initializeStrategies appends to the list, in its order
    default,
    rate,       \* currentRate of the adaptive strategy
    recent,     \* it was adjusted less than an interval ago
    adjusts,    \* how many times
    at,         \* at[c]: what c has still to do, first to last; <<>> between calls
    record,     \* record[c]
    seen,       \* seen[c]: the adaptive rate c has read
    sampled,    \* sampled[c]: what c is to return
    read,       \* read[c]: TotalEvaluated as c has read it
    stats,      \* of each strategy: evaluated, sampled, dropped
    overall,    \* the sampler's own TotalEvaluated; its others are kept the same way
    calls       \* history: calls made, and calls counted

vars == <<strategies, default, rate, recent, adjusts, at, record, seen, sampled, read,
          stats, overall, calls>>

Strategies == {"fixed", "adaptive", "priority", "tail"}
RecordKinds == {"error", "worse", "slow", "plain"}

Zero == [evaluated |-> 0, sampled |-> 0, dropped |-> 0]

(* NewAdvancedSampler: the last of adaptive and priority is the default.   *)
Init ==
    /\ \E on \in SUBSET {"adaptive", "priority", "tail"} :
          /\ strategies = {"fixed"} \cup on
          /\ default = CASE "priority" \in on -> "priority"
                         [] "adaptive" \in on -> "adaptive"
                         [] OTHER             -> "fixed"
    /\ rate = One
    /\ recent = FALSE
    /\ adjusts = 0
    /\ at = [c \in Callers |-> <<>>]
    /\ record = [c \in Callers |-> "plain"]
    /\ seen = [c \in Callers |-> One]
    /\ sampled = [c \in Callers |-> TRUE]
    /\ read = [c \in Callers |-> 0]
    /\ stats = [s \in Strategies |-> Zero]
    /\ overall = 0
    /\ calls = [made |-> 0, counted |-> 0]

(* What a strategy may say to a record.  A hash is below a rate or not,    *)
(* below the rate 1.0 too: the largest hashes divided by 2^64-1 round to   *)
(* 1.0.                                                                    *)
HashBelowRate == BOOLEAN

(* The rules of the default configuration: the level is equal to ERROR,    *)
(* and, asked after it, the duration is longer than a second.              *)
DefaultRules == [error |-> {TRUE}, slow |-> HashBelowRate]

(* The first rule that matches decides; a record none matches is dropped.  *)
PriorityBased(kind) == IF kind \in DOMAIN DefaultRules THEN DefaultRules[kind] ELSE {FALSE}

(* Errors, worse ones too, are taken; the buffer of traces is not used.    *)
TailBased(kind) == IF kind \in {"error", "worse"} THEN {TRUE} ELSE HashBelowRate

Verdicts(s, kind) ==
    CASE s = "priority" -> PriorityBased(kind)
      [] s = "tail"     -> TailBased(kind)
      [] OTHER          -> HashBelowRate

(* Wrong: a record no rule matches is not counted.                         *)
CountMatched(n, s, kind, yes) ==
    IF s = "priority" /\ kind \notin {"error", "slow"}
    THEN [n EXCEPT !.evaluated = @ + 1]
    ELSE [n EXCEPT !.evaluated = @ + 1,
                   !.sampled = @ + (IF yes THEN 1 ELSE 0), !.dropped = @ + (IF yes THEN 0 ELSE 1)]

Count(n, s, kind, yes) ==
    [n EXCEPT !.evaluated = @ + 1,
              !.sampled = @ + (IF yes THEN 1 ELSE 0), !.dropped = @ + (IF yes THEN 0 ELSE 1)]

Idle(c) == at[c] = <<>>

(* The adaptive strategy reads its rate under its lock, gives the lock up  *)
(* and takes it again to count.                                            *)
StepsOf(s) == IF s = "adaptive" THEN <<"rate", "adaptive">> ELSE <<s>>

(* A turn of the loop over the strategies, of which the default is no      *)
(* longer asked.                                                           *)
Turn(s) == IF s \in strategies \ {default} THEN StepsOf(s) ELSE <<>>

(* ShouldSample: the read lock; the default strategy comes first.          *)
Call(c) ==
    /\ Idle(c)
    /\ calls.made < MaxRecords
    /\ calls' = [calls EXCEPT !.made = @ + 1]
    /\ \E kind \in RecordKinds : record' = [record EXCEPT ![c] = kind]
    /\ at' = [at EXCEPT ![c] =
                 StepsOf(default)
                 \o (Turn("fixed") \o (Turn("adaptive") \o (Turn("priority") \o Turn("tail"))))
                 \o <<"load">>]
    /\ UNCHANGED <<strategies, default, rate, recent, adjusts, seen, sampled, read, stats, overall>>

ReadRate(c) ==
    /\ ~Idle(c) /\ Head(at[c]) = "rate"
    /\ seen' = [seen EXCEPT ![c] = rate]
    /\ at' = [at EXCEPT ![c] = Tail(@)]
    /\ UNCHANGED <<strategies, default, rate, recent, adjusts, record, sampled, read, stats,
                   overall, calls>>

(* One strategy decides and counts.                                        *)
Ask(c) ==
    /\ ~Idle(c) /\ Head(at[c]) \in Strategies
    /\ LET s == Head(at[c])
       IN  \E yes \in Verdicts(s, record[c]) :
              /\ sampled' = [sampled EXCEPT ![c] =
                                IF s \in {default, "priority"} THEN yes ELSE @]
              /\ stats' = [stats EXCEPT ![s] = Count(@, s, record[c], yes)]
    /\ at' = [at EXCEPT ![c] = Tail(@)]
    /\ UNCHANGED <<strategies, default, rate, recent, adjusts, record, seen, read, overall, calls>>

(* TotalEvaluated++ is a load and a store.                                 *)
Load(c) ==
    /\ at[c] = <<"load">>
    /\ read' = [read EXCEPT ![c] = overall]
    /\ at' = [at EXCEPT ![c] = <<"store">>]
    /\ UNCHANGED <<strategies, default, rate, recent, adjusts, record, seen, sampled, stats,
                   overall, calls>>

(* The store, and the end of the call; what it alone knew is forgotten.    *)
Store(c) ==
    /\ at[c] = <<"store">>
    /\ overall' = read[c] + 1
    /\ calls' = [calls EXCEPT !.counted = @ + 1]
    /\ at' = [at EXCEPT ![c] = <<>>]
    /\ record' = [record EXCEPT ![c] = "plain"]
    /\ seen' = [seen EXCEPT ![c] = One]
    /\ sampled' = [sampled EXCEPT ![c] = TRUE]
    /\ read' = [read EXCEPT ![c] = 0]
    /\ UNCHANGED <<strategies, default, rate, recent, adjusts, stats>>

Larger(m, n)  == IF m > n THEN m ELSE n
Smaller(m, n) == IF m < n THEN m ELSE n

AdjustRate ==
    /\ ~recent /\ adjusts < MaxAdjusts
    /\ adjusts' = adjusts + 1
    /\ rate' \in {Larger((rate * 8) \div 10, MinRate), Smaller((rate * 11) \div 10, One)}
    /\ recent' = (rate' # rate)

(* Wrong: the rate is adjusted without the sampler's lock.                 *)
AdjustUnlocked ==
    /\ "adaptive" \in strategies
    /\ AdjustRate
    /\ UNCHANGED <<strategies, default, at, record, seen, sampled, read, stats, overall, calls>>

(* adjustSamplingRates, under the write lock.                              *)
Adjust ==
    /\ "adaptive" \in strategies
    /\ \A c \in Callers : Idle(c)
    /\ AdjustRate
    /\ UNCHANGED <<strategies, default, at, record, seen, sampled, read, stats, overall, calls>>

IntervalPasses ==
    /\ recent
    /\ recent' = FALSE
    /\ UNCHANGED <<strategies, default, rate, adjusts, at, record, seen, sampled, read, stats,
                   overall, calls>>

Next ==
    \/ \E c \in Callers : Call(c) \/ ReadRate(c) \/ Ask(c) \/ Load(c) \/ Store(c)
    \/ Adjust \/ IntervalPasses

Spec == Init /\ [][Next]_vars

-----------------------------------------------------------------------------
TypeOK ==
    /\ strategies \subseteq Strategies /\ default \in strategies
    /\ rate \in MinRate..One
    /\ recent \in BOOLEAN
    /\ adjusts \in 0..MaxAdjusts
    /\ at \in [Callers -> Seq(Strategies \cup {"rate", "load", "store"})]
    /\ record \in [Callers -> RecordKinds]
    /\ seen \in [Callers -> MinRate..One]
    /\ sampled \in [Callers -> BOOLEAN]
    /\ read \in [Callers -> Nat] /\ overall \in Nat
    /\ stats \in [Strategies -> [evaluated : Nat, sampled : Nat, dropped : Nat]]
    /\ calls \in [made : 0..MaxRecords, counted : 0..MaxRecords]

(* Every strategy counts every record once, as sampled or as dropped, and  *)
(* an adaptive one decides with the rate it has, although it gives its     *)
(* lock up in between: the sampler's read lock keeps the ticker out.  An   *)
(* error the priority rules let through is not dropped by those asked      *)
(* after them.  The sampler's own count, written under that read lock by   *)
(* all callers at once, can only fall behind.                              *)
SamplingAccounted ==
    /\ \A s \in strategies :
          /\ stats[s].evaluated = stats[s].sampled + stats[s].dropped
          /\ stats[s].evaluated =
                calls.made - Cardinality({c \in Callers : s \in Range(at[c])})
    /\ \A c \in Callers : ~Idle(c) /\ Head(at[c]) = "adaptive" => seen[c] = rate
    /\ \A c \in Callers : default = "priority" /\ record[c] = "error" => sampled[c]
    /\ overall <= calls.counted
    /\ calls.counted > 0 => overall > 0
=============================================================================
