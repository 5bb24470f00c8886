--------------------------- MODULE ComponentProofs ---------------------------
(***************************************************************************)
(* Proofs about Components: what its properties say of each component, for *)
(* any goroutines, requests and bounds.                                    *)
(***************************************************************************)
EXTENDS Components, SequenceLemmas, FiniteSetTheorems, FunctionTheorems

-----------------------------------------------------------------------------
(* A behaviour of the components is one of each: a component that is not   *)
(* in focus stutters.                                                      *)

LEMMA BeginsAll ==
    Init => /\ Levels!Init /\ Tracing!Init /\ Otlp!Init /\ Batching!Init
            /\ Factory!Init /\ Config!Init /\ Process!Init
            /\ Bursts!Init /\ Strategy!Init /\ Audit!Init /\ Errors!Init
  BY DEF Init

LEMMA StepOfOne ==
    ASSUME [Next]_vars
    PROVE  /\ [Levels!Next]_levelsVars /\ [Tracing!Next]_spansVars
           /\ [Otlp!Next]_otlpVars /\ [Batching!Next]_batchingVars
           /\ [Factory!Next]_loggersVars /\ [Config!Next]_configVars
           /\ [Process!Next]_serverVars
           /\ [Bursts!Next]_samplerVars /\ [Strategy!Next]_samplingVars
           /\ [Audit!Next]_auditVars /\ [Errors!Next]_errorsVars
<1> DEFINE Others == /\ UNCHANGED levelsVars \/ focus = "levels"
                     /\ UNCHANGED spansVars \/ focus = "spans"
                     /\ UNCHANGED otlpVars \/ focus = "otlp"
                     /\ UNCHANGED batchingVars \/ focus = "batching"
                     /\ UNCHANGED loggersVars \/ focus = "loggers"
                     /\ UNCHANGED configVars \/ focus = "config"
                     /\ UNCHANGED serverVars \/ focus = "server"
                     /\ UNCHANGED samplerVars \/ focus = "sampler"
                     /\ UNCHANGED samplingVars \/ focus = "sampling"
                     /\ UNCHANGED auditVars \/ focus = "audit"
                     /\ UNCHANGED errorsVars \/ focus = "errors"
<1>1. Next => /\ focus = "levels" => Levels!Next
              /\ focus = "spans" => Tracing!Next
              /\ focus = "otlp" => Otlp!Next
              /\ focus = "batching" => Batching!Next
              /\ focus = "loggers" => Factory!Next
              /\ focus = "config" => Config!Next
              /\ focus = "server" => Process!Next
              /\ focus = "sampler" => Bursts!Next
              /\ focus = "sampling" => Strategy!Next
              /\ focus = "audit" => Audit!Next
              /\ focus = "errors" => Errors!Next
  BY DEF Next, Only
<1>2. Next => Others
  <2> USE DEF Only
  <2>1. Only("audit", ButAudit) => Others
    BY DEF ButAudit
  <2>2. Only("levels", ButLevels) => Others
    BY DEF ButLevels
  <2>3. Only("spans", ButTracing) => Others
    BY DEF ButTracing
  <2>4. Only("otlp", ButOtlp) => Others
    BY DEF ButOtlp
  <2>5. Only("batching", ButBatching) => Others
    BY DEF ButBatching
  <2>6. Only("sampler", ButBursts) => Others
    BY DEF ButBursts
  <2>7. Only("sampling", ButStrategy) => Others
    BY DEF ButStrategy
  <2>8. Only("loggers", ButFactory) => Others
    BY DEF ButFactory
  <2>9. Only("errors", ButErrors) => Others
    BY DEF ButErrors
  <2>10. Only("server", ButProcess) => Others
    BY DEF ButProcess
  <2>11. Only("config", ButConfig) => Others
    BY DEF ButConfig
  <2> HIDE DEF Only, Others
  <2> QED
    BY <2>1, <2>2, <2>3, <2>4, <2>5, <2>6, <2>7, <2>8, <2>9, <2>10, <2>11 DEF Next
<1>3. UNCHANGED vars => /\ UNCHANGED levelsVars /\ UNCHANGED spansVars
                        /\ UNCHANGED otlpVars /\ UNCHANGED batchingVars
                        /\ UNCHANGED loggersVars /\ UNCHANGED configVars
                        /\ UNCHANGED serverVars
                        /\ UNCHANGED samplerVars /\ UNCHANGED samplingVars
                        /\ UNCHANGED auditVars /\ UNCHANGED errorsVars
  BY DEF vars, ButProcess
<1> QED
  BY <1>1, <1>2, <1>3

-----------------------------------------------------------------------------
(* The logger factory.                                                     *)

FactoryInv == Factory!TypeOK /\ Factory!LoggersAreCurrent

LEMMA FactoryInit == Factory!Init => FactoryInv
<1>1. MaxFactories \in Nat /\ MaxUpdates \in Nat
  BY ComponentsAssumption DEF Factory!FactoryAssumption
<1>2. Factory!Init => Factory!TypeOK
  <2> SUFFICES ASSUME Factory!Init PROVE Factory!TypeOK
    OBVIOUS
  <2>1. /\ levels \in [Components -> Factory!Levels \cup {Unset}]
        /\ cache \in [Components -> Factory!Levels \cup {Unset}]
        /\ getterAt \in [Goroutines -> Components \cup {Unset}]
    BY DEF Factory!Init, Factory!NoLevels
  <2>2. /\ factory \in 1..made \cup {NoFactory} /\ made \in 0..MaxFactories
        /\ factoriesOpen \subseteq 1..made
        /\ updates \in 0..MaxUpdates
    BY <1>1 DEF Factory!Init
  <2> QED
    BY <2>1, <2>2 DEF Factory!Init, Factory!TypeOK
<1>3. Factory!Init => Factory!LoggersAreCurrent
  BY DEF Factory!Init, Factory!LoggersAreCurrent, Factory!NoReader
<1> QED
  BY <1>2, <1>3 DEF FactoryInv

LEMMA FactoryStep == FactoryInv /\ [Factory!Next]_loggersVars => FactoryInv'
<1> SUFFICES ASSUME FactoryInv, [Factory!Next]_loggersVars PROVE FactoryInv'
  OBVIOUS
<1>a. /\ MaxFactories \in Nat /\ MaxUpdates \in Nat /\ NoFactory \notin Nat
      /\ Unset \notin {DebugName, InfoName}
  BY ComponentsAssumption DEF Factory!FactoryAssumption
<1> USE <1>a DEF FactoryInv, Factory!TypeOK, Factory!LoggersAreCurrent, Factory!NoReader,
                 Factory!GetLevelForComponent, Factory!Levels
<1>1. ASSUME NEW g \in Goroutines, Factory!Look(g) PROVE FactoryInv'
  BY <1>1 DEF Factory!Look
<1>2. ASSUME NEW g \in Goroutines, Factory!Make(g) PROVE FactoryInv'
  BY <1>2 DEF Factory!Make
<1>3. ASSUME NEW c \in Components, NEW l \in {DebugName, InfoName}, Factory!UpdateLevel(c, l),
             UNCHANGED <<factory, made, factoriesOpen, level, getterAt, failed>>,
             handler' \subseteq Components, debug' \in BOOLEAN
      PROVE  FactoryInv'
  BY <1>3 DEF Factory!UpdateLevel
<1>4. CASE Factory!Update
  BY <1>3, <1>4 DEF Factory!Update
<1>5. CASE Factory!Signal
  BY <1>5 DEF Factory!Signal
<1>6. CASE Factory!Switch
  BY <1>3, <1>6 DEF Factory!Switch
<1>7. CASE Factory!Initialize
  <2>1. Factory!NoReader /\ getterAt' = getterAt /\ handler' = handler /\ debug' = debug
        /\ updates' = updates
    BY <1>7 DEF Factory!Initialize
  <2>2. CASE /\ made' = made + 1 /\ made < MaxFactories /\ factory' = made + 1
             /\ factoriesOpen' = (factoriesOpen \ {factory}) \cup {made + 1}
             /\ failed' = FALSE /\ cache' = [c \in Components |-> Unset]
             /\ levels' = [c \in Components |-> Unset] \/ levels' = levels
             /\ level' \in {DebugName, InfoName}
    <3>1. factory' # NoFactory /\ factoriesOpen' = {factory'}
      BY <2>2
    <3>2. factory' \in 1..made' /\ made' \in 0..MaxFactories /\ factoriesOpen' \subseteq 1..made'
      BY <2>2, <3>1
    <3>3. cache' \in [Components -> {DebugName, InfoName} \cup {Unset}]
          /\ levels' \in [Components -> {DebugName, InfoName} \cup {Unset}]
      BY <2>2
    <3>4. Factory!TypeOK'
      BY <2>1, <2>2, <3>2, <3>3
    <3> QED
      BY <2>1, <2>2, <3>1, <3>4
  <2>3. CASE /\ factoriesOpen' = factoriesOpen \ {factory} /\ failed' = TRUE
             /\ UNCHANGED <<made, factory, cache, levels, level>>
    BY <2>1, <2>3
  <2> QED
    BY <1>7, <2>2, <2>3
    DEF Factory!Initialize, Factory!NewFactory, Factory!Close, Factory!NoLevels
<1>8. CASE Factory!Shutdown
  BY <1>8 DEF Factory!Shutdown, Factory!Close
<1>9. CASE UNCHANGED loggersVars
  BY <1>9 DEF loggersVars
<1> QED
  BY <1>1, <1>2, <1>4, <1>5, <1>6, <1>7, <1>8, <1>9 DEF Factory!Next

(* A logger in the cache has the level its component has, the factory      *)
(* stays while somebody makes a logger, and one at most is open.           *)
THEOREM LoggersCurrent == Spec => []LoggersAreCurrent
<1>1. FactoryInv => LoggersAreCurrent
  BY DEF FactoryInv, LoggersAreCurrent
<1>2. Init => FactoryInv
  BY BeginsAll, FactoryInit
<1>3. FactoryInv /\ [Next]_vars => FactoryInv'
  BY StepOfOne, FactoryStep
<1> QED
  BY <1>1, <1>2, <1>3, PTL DEF Spec

-----------------------------------------------------------------------------
(* The table of spans.  A span is in it from CreateSpan, with status OK,   *)
(* to its end.                                                             *)

TracingInv ==
    /\ Tracing!TypeOK
    /\ Tracing!SpansEndOnce
    /\ \A s \in spans : spanStatus[s] = "OK"
    /\ \A s \in SpanIds : spanStatus[s] = "OK" \/ s \notin spans

(* The module's own Cardinality is everybody's; these sets are finite.     *)
LEMMA SpansCounted ==
    ASSUME NEW S \in SUBSET SpanIds
    PROVE  /\ Tracing!Cardinality(S) = Cardinality(S)
           /\ IsFiniteSet(S) /\ Cardinality(S) \in Nat
<1>1. Tracing!IsFiniteSet(SpanIds)
  BY ComponentsAssumption DEF Tracing!TraceAssumption
<1>2. IsFiniteSet(SpanIds)
  BY <1>1 DEF Tracing!IsFiniteSet, IsFiniteSet
<1>3. IsFiniteSet(S) /\ Cardinality(S) \in Nat
  BY <1>2, FS_Subset, FS_CardinalityType
<1>4. Tracing!Cardinality(S) = Cardinality(S)
  BY DEF Tracing!Cardinality, Cardinality
<1> QED
  BY <1>3, <1>4

(* What a span more, or one less, makes of the count.                      *)
LEMMA OneSpan ==
    ASSUME NEW S \in SUBSET SpanIds, NEW s \in SpanIds
    PROVE  /\ Tracing!Cardinality(S) \in Nat
           /\ s \notin S => Tracing!Cardinality(S \cup {s}) = Tracing!Cardinality(S) + 1
           /\ s \in S => Tracing!Cardinality(S \ {s}) = Tracing!Cardinality(S) - 1
<1>1. S \cup {s} \in SUBSET SpanIds /\ S \ {s} \in SUBSET SpanIds
  OBVIOUS
<1>2. /\ Tracing!Cardinality(S) = Cardinality(S)
      /\ Tracing!Cardinality(S \cup {s}) = Cardinality(S \cup {s})
      /\ Tracing!Cardinality(S \ {s}) = Cardinality(S \ {s})
      /\ IsFiniteSet(S) /\ Cardinality(S) \in Nat
  BY <1>1, SpansCounted
<1>3. s \notin S => Cardinality(S \cup {s}) = Cardinality(S) + 1
  BY <1>2, FS_AddElement
<1>4. s \in S => Cardinality(S \ {s}) = Cardinality(S) - 1
  BY <1>2, FS_RemoveElement
<1> QED
  BY <1>2, <1>3, <1>4

LEMMA TracingInit == Tracing!Init => TracingInv
<1> SUFFICES ASSUME Tracing!Init PROVE TracingInv
  OBVIOUS
<1>1. Tracing!TypeOK
  BY DEF Tracing!Init, Tracing!TypeOK
<1>2. Tracing!Made = {} /\ Tracing!Expired = {} /\ spans = {}
  BY DEF Tracing!Init, Tracing!Made, Tracing!Expired
<1>3. Tracing!Cardinality({}) = 0
  <2>1. {} \in SUBSET SpanIds
    OBVIOUS
  <2> QED
    BY <2>1, SpansCounted, FS_EmptySet
<1>4. MaxSpansPerTrace \in Nat
  BY ComponentsAssumption DEF Tracing!TraceAssumption
<1>5. Tracing!SpansEndOnce
  BY <1>2, <1>3, <1>4 DEF Tracing!Init, Tracing!SpansEndOnce
<1> QED
  BY <1>1, <1>2, <1>5 DEF TracingInv

(* The three sets a step counts.                                           *)
LEMMA SpanSets ==
    ASSUME TracingInv
    PROVE  /\ spans \in SUBSET SpanIds /\ Tracing!Made \in SUBSET SpanIds
           /\ Tracing!Expired \in SUBSET SpanIds
           /\ spans \subseteq Tracing!Made
           /\ \A s \in spans : s \notin Tracing!Expired
  BY DEF TracingInv, Tracing!TypeOK, Tracing!Made, Tracing!Expired

(* CreateSpan, refused or not.                                             *)
LEMMA SpanMade ==
    ASSUME TracingInv, NEW s \in SpanIds, NEW p \in SpanIds \cup {NoSpan}, Tracing!Make(s, p),
           UNCHANGED listing,
           spanAt' \in [Requests -> {"idle", "handler", "done"}],
           span' \in [Requests -> SpanIds \cup {NoSpan}],
           inner' \in [Requests -> SpanIds \cup {NoSpan}]
    PROVE  TracingInv'
<1> DEFINE created == health.created
<1>1. /\ spans' = spans \cup {s} /\ spanStatus[s] = "none"
      /\ spanStatus' = [spanStatus EXCEPT ![s] = "OK"]
      /\ parent' = [parent EXCEPT ![s] = p]
      /\ health' = [health EXCEPT !.created = @ + 1]
      /\ Tracing!Cardinality(spans) < MaxSpansPerTrace
  BY DEF Tracing!Make
<1>2. /\ spanStatus \in [SpanIds -> {"none", "OK", "ERROR", "TIMEOUT"}]
      /\ health \in [created : Nat, finished : Nat, dropped : Nat]
      /\ spans \in SUBSET SpanIds /\ s \notin spans
  BY <1>1 DEF TracingInv, Tracing!TypeOK
<1>3. Tracing!TypeOK'
  BY <1>1, <1>2 DEF TracingInv, Tracing!TypeOK
<1>4. /\ Tracing!Made' = Tracing!Made \cup {s} /\ s \notin Tracing!Made
      /\ Tracing!Expired' = Tracing!Expired
  BY <1>1, <1>2 DEF Tracing!Made, Tracing!Expired
<1>5. /\ Tracing!Cardinality(Tracing!Made') = Tracing!Cardinality(Tracing!Made) + 1
      /\ Tracing!Cardinality(spans') = Tracing!Cardinality(spans) + 1
      /\ Tracing!Cardinality(spans) \in Nat /\ Tracing!Cardinality(Tracing!Expired) \in Nat
  BY <1>1, <1>2, <1>4, OneSpan, SpanSets
<1>6. /\ health'.created = health.created + 1 /\ health'.finished = health.finished
      /\ health'.dropped = health.dropped
  BY <1>1, <1>2
<1>7. spans' \cap Tracing!Expired' = {}
  BY <1>1, <1>2, <1>4, SpanSets DEF Tracing!Expired
<1>8. MaxSpansPerTrace \in Nat
  BY ComponentsAssumption DEF Tracing!TraceAssumption
<1>9. Tracing!SpansEndOnce'
  BY <1>1, <1>2, <1>4, <1>5, <1>6, <1>7, <1>8 DEF TracingInv, Tracing!SpansEndOnce
<1>10. \A t \in spans' : spanStatus'[t] = "OK"
  BY <1>1, <1>2 DEF TracingInv
<1> QED
  BY <1>3, <1>9, <1>10 DEF TracingInv

LEMMA SpanRefused ==
    ASSUME TracingInv, Tracing!RefuseSpan, UNCHANGED listing,
           spanAt' \in [Requests -> {"idle", "handler", "done"}], UNCHANGED <<span, inner>>
    PROVE  TracingInv'
<1>1. UNCHANGED <<spans, spanStatus, parent>> /\ health' = [health EXCEPT !.dropped = @ + 1]
  BY DEF Tracing!RefuseSpan
<1>2. health \in [created : Nat, finished : Nat, dropped : Nat]
  BY DEF TracingInv, Tracing!TypeOK
<1>3. Tracing!Made' = Tracing!Made /\ Tracing!Expired' = Tracing!Expired
  BY <1>1 DEF Tracing!Made, Tracing!Expired
<1>4. Tracing!Cardinality(Tracing!Expired) \in Nat
  BY SpanSets, SpansCounted
<1>5. /\ health'.created = health.created /\ health'.finished = health.finished
      /\ health'.dropped = health.dropped + 1
      /\ health'.dropped \in Nat /\ health.dropped \in Nat
  BY <1>1, <1>2
<1>6. Tracing!SpansEndOnce'
  <2>1. Tracing!SpansEndOnce
    BY DEF TracingInv
  <2>2. spans' = spans
    BY <1>1
  <2> QED
    BY <1>3, <1>4, <1>5, <2>1, <2>2 DEF Tracing!SpansEndOnce
<1> QED
  BY <1>1, <1>2, <1>6 DEF TracingInv, Tracing!TypeOK

(* The end of a span, by its request (FinishSpan) or its timeout.          *)
LEMMA SpanEnded ==
    ASSUME TracingInv, NEW s \in spans, NEW code \in {"OK", "ERROR", "TIMEOUT"},
           spans' = spans \ {s}, spanStatus' = [spanStatus EXCEPT ![s] = code],
           health' \in [created : Nat, finished : Nat, dropped : Nat],
           health'.created = health.created,
           code = "TIMEOUT" => health'.dropped = health.dropped + 1
                               /\ health'.finished = health.finished,
           code # "TIMEOUT" => health'.dropped = health.dropped
                               /\ health'.finished = health.finished + 1,
           UNCHANGED <<parent, listing>>,
           spanAt' \in [Requests -> {"idle", "handler", "done"}],
           span' \in [Requests -> SpanIds \cup {NoSpan}],
           inner' \in [Requests -> SpanIds \cup {NoSpan}]
    PROVE  TracingInv'
<1>1. /\ spanStatus \in [SpanIds -> {"none", "OK", "ERROR", "TIMEOUT"}]
      /\ health \in [created : Nat, finished : Nat, dropped : Nat]
      /\ spans \in SUBSET SpanIds /\ s \in SpanIds /\ spanStatus[s] = "OK"
  BY DEF TracingInv, Tracing!TypeOK
<1>2. Tracing!TypeOK'
  BY <1>1 DEF TracingInv, Tracing!TypeOK
<1>3. /\ Tracing!Made' = Tracing!Made
      /\ Tracing!Expired' = IF code = "TIMEOUT" THEN Tracing!Expired \cup {s} ELSE Tracing!Expired
      /\ s \notin Tracing!Expired
  BY <1>1 DEF Tracing!Made, Tracing!Expired
<1>4. /\ Tracing!Cardinality(spans') = Tracing!Cardinality(spans) - 1
      /\ Tracing!Cardinality(spans) \in Nat /\ Tracing!Cardinality(Tracing!Expired) \in Nat
      /\ code = "TIMEOUT" =>
            Tracing!Cardinality(Tracing!Expired') = Tracing!Cardinality(Tracing!Expired) + 1
  BY <1>1, <1>3, OneSpan, SpanSets
<1>5. spans' \cap Tracing!Expired' = {}
  BY <1>1, <1>3, SpanSets
<1>6. MaxSpansPerTrace \in Nat
  BY ComponentsAssumption DEF Tracing!TraceAssumption
<1>7. Tracing!SpansEndOnce'
  <2>0. health.created \in Nat /\ health.finished \in Nat /\ health.dropped \in Nat
    BY <1>1
  <2>a. Tracing!SpansEndOnce
    BY DEF TracingInv
  <2>1. CASE code = "TIMEOUT"
    <3>1. /\ health'.created = health.created /\ health'.finished = health.finished
          /\ health'.dropped = health.dropped + 1
      BY <1>1, <2>1
    <3>2. /\ Tracing!Made' = Tracing!Made
          /\ Tracing!Cardinality(Tracing!Expired') = Tracing!Cardinality(Tracing!Expired) + 1
      BY <1>3, <1>4, <2>1
    <3> QED
      <4>1. health'.created = Tracing!Cardinality(Tracing!Made')
        BY <2>a, <3>1, <3>2 DEF Tracing!SpansEndOnce
      <4>2. health'.created = health'.finished + Tracing!Cardinality(Tracing!Expired') + Tracing!Cardinality(spans')
        BY <1>4, <2>0, <2>a, <3>1, <3>2 DEF Tracing!SpansEndOnce
      <4>3. health'.dropped >= Tracing!Cardinality(Tracing!Expired')
        BY <1>4, <2>0, <2>a, <3>1, <3>2 DEF Tracing!SpansEndOnce
      <4>4. Tracing!Cardinality(spans') <= MaxSpansPerTrace
        BY <1>4, <1>6, <2>a DEF Tracing!SpansEndOnce
      <4> QED
        BY <1>5, <4>1, <4>2, <4>3, <4>4 DEF Tracing!SpansEndOnce
  <2>2. CASE code # "TIMEOUT"
    <3>1. /\ health'.created = health.created /\ health'.finished = health.finished + 1
          /\ health'.dropped = health.dropped
      BY <1>1, <2>2
    <3>2. Tracing!Made' = Tracing!Made /\ Tracing!Expired' = Tracing!Expired
      BY <1>3, <2>2
    <3> QED
      <4>1. health'.created = Tracing!Cardinality(Tracing!Made')
        BY <2>a, <3>1, <3>2 DEF Tracing!SpansEndOnce
      <4>2. health'.created = health'.finished + Tracing!Cardinality(Tracing!Expired') + Tracing!Cardinality(spans')
        BY <1>4, <2>0, <2>a, <3>1, <3>2 DEF Tracing!SpansEndOnce
      <4>3. health'.dropped >= Tracing!Cardinality(Tracing!Expired')
        BY <1>4, <2>0, <2>a, <3>1, <3>2 DEF Tracing!SpansEndOnce
      <4>4. Tracing!Cardinality(spans') <= MaxSpansPerTrace
        BY <1>4, <1>6, <2>a DEF Tracing!SpansEndOnce
      <4> QED
        BY <1>5, <4>1, <4>2, <4>3, <4>4 DEF Tracing!SpansEndOnce
  <2> QED
    BY <2>1, <2>2
<1>8. \A t \in spans' : spanStatus'[t] = "OK"
  BY <1>1 DEF TracingInv
<1> QED
  BY <1>2, <1>7, <1>8 DEF TracingInv

LEMMA SpanFinished ==
    ASSUME TracingInv, NEW s \in SpanIds \cup {NoSpan}, NEW code \in {"OK", "ERROR"},
           Tracing!Finish(s, code), UNCHANGED listing,
           spanAt' \in [Requests -> {"idle", "handler", "done"}],
           span' \in [Requests -> SpanIds \cup {NoSpan}],
           inner' \in [Requests -> SpanIds \cup {NoSpan}]
    PROVE  TracingInv'
<1>0. health \in [created : Nat, finished : Nat, dropped : Nat]
  BY DEF TracingInv, Tracing!TypeOK
<1>1. CASE s \in spans
  <2>1. /\ spans' = spans \ {s} /\ spanStatus' = [spanStatus EXCEPT ![s] = code]
        /\ health' = [health EXCEPT !.finished = @ + 1] /\ UNCHANGED parent
    BY <1>1 DEF Tracing!Finish
  <2>2. /\ health' \in [created : Nat, finished : Nat, dropped : Nat]
        /\ health'.created = health.created /\ health'.dropped = health.dropped
        /\ health'.finished = health.finished + 1
    BY <1>0, <2>1
  <2> QED
    BY <1>1, <2>1, <2>2, SpanEnded
<1>2. CASE s \notin spans
  <2>1. UNCHANGED <<spans, spanStatus, parent, health>>
    BY <1>2 DEF Tracing!Finish, Tracing!table
  <2> QED
    BY <2>1 DEF TracingInv, Tracing!TypeOK, Tracing!SpansEndOnce, Tracing!Made, Tracing!Expired
<1> QED
  BY <1>1, <1>2

LEMMA TracingStep == TracingInv /\ [Tracing!Next]_spansVars => TracingInv'
<1> SUFFICES ASSUME TracingInv, [Tracing!Next]_spansVars PROVE TracingInv'
  OBVIOUS
<1>0. /\ spanAt \in [Requests -> {"idle", "handler", "done"}]
      /\ span \in [Requests -> SpanIds \cup {NoSpan}]
      /\ inner \in [Requests -> SpanIds \cup {NoSpan}]
  BY DEF TracingInv, Tracing!TypeOK
<1>s. ASSUME UNCHANGED <<spans, spanStatus, parent, health>>,
             spanAt' \in [Requests -> {"idle", "handler", "done"}], UNCHANGED <<span, inner>>
      PROVE  TracingInv'
  BY <1>s DEF TracingInv, Tracing!TypeOK, Tracing!SpansEndOnce, Tracing!Made, Tracing!Expired
<1>1. ASSUME NEW r \in Requests, Tracing!Begin(r) PROVE TracingInv'
  <2>1. spanAt' \in [Requests -> {"idle", "handler", "done"}] /\ UNCHANGED <<inner, listing>>
    BY <1>0, <1>1 DEF Tracing!Begin, Tracing!Goto
  <2>2. CASE Tracing!RefuseSpan /\ UNCHANGED span
    BY <2>1, <2>2, SpanRefused
  <2>3. ASSUME NEW s \in SpanIds, Tracing!Make(s, NoSpan), span' = [span EXCEPT ![r] = s]
        PROVE  TracingInv'
    BY <1>0, <2>1, <2>3, SpanMade
  <2> QED
    BY <1>1, <2>2, <2>3 DEF Tracing!Begin
<1>2. ASSUME NEW r \in Requests, Tracing!CreateInner(r) PROVE TracingInv'
  <2>1. UNCHANGED <<spanAt, span, listing>> /\ span[r] \in SpanIds \cup {NoSpan}
    BY <1>0, <1>2 DEF Tracing!CreateInner
  <2>2. CASE Tracing!RefuseSpan /\ UNCHANGED inner
    BY <1>0, <2>1, <2>2, SpanRefused
  <2>3. ASSUME NEW s \in SpanIds, Tracing!Make(s, span[r]), inner' = [inner EXCEPT ![r] = s]
        PROVE  TracingInv'
    BY <1>0, <2>1, <2>3, SpanMade
  <2> QED
    BY <1>2, <2>2, <2>3 DEF Tracing!CreateInner
<1>3. ASSUME NEW r \in Requests, Tracing!FinishInner(r) PROVE TracingInv'
  <2>1. PICK code \in {"OK", "ERROR"} : Tracing!Finish(inner[r], code)
    BY <1>3 DEF Tracing!FinishInner
  <2>2. UNCHANGED <<spanAt, span, listing>> /\ inner' = [inner EXCEPT ![r] = NoSpan]
    BY <1>3 DEF Tracing!FinishInner
  <2>3. inner[r] \in SpanIds \cup {NoSpan} /\ inner' \in [Requests -> SpanIds \cup {NoSpan}]
    BY <1>0, <2>2
  <2> QED
    BY <1>0, <2>1, <2>2, <2>3, SpanFinished
<1>4. ASSUME NEW r \in Requests, Tracing!End(r) PROVE TracingInv'
  <2>1. spanAt' \in [Requests -> {"idle", "handler", "done"}]
        /\ UNCHANGED <<span, inner, listing>> /\ span[r] \in SpanIds \cup {NoSpan}
    BY <1>0, <1>4 DEF Tracing!End, Tracing!Goto
  <2>2. ASSUME NEW code \in {"OK", "ERROR"}, Tracing!Finish(span[r], code) PROVE TracingInv'
    BY <1>0, <2>1, <2>2, SpanFinished
  <2>3. CASE UNCHANGED Tracing!table
    BY <1>s, <2>1, <2>3 DEF Tracing!table
  <2> QED
    BY <1>4, <2>2, <2>3 DEF Tracing!End
<1>5. ASSUME NEW r \in Requests, Tracing!Panic(r) PROVE TracingInv'
  BY <1>0, <1>5, <1>s DEF Tracing!Panic, Tracing!Goto, Tracing!table
<1>6. ASSUME NEW s \in SpanIds, Tracing!TimeOut(s) PROVE TracingInv'
  <2>1. /\ s \in spans /\ spans' = spans \ {s}
        /\ spanStatus' = [spanStatus EXCEPT ![s] = "TIMEOUT"]
        /\ health' = [health EXCEPT !.dropped = @ + 1]
        /\ UNCHANGED <<parent, listing, spanAt, span, inner>>
    BY <1>6 DEF Tracing!TimeOut
  <2>2. health \in [created : Nat, finished : Nat, dropped : Nat]
    BY DEF TracingInv, Tracing!TypeOK
  <2>3. /\ health' \in [created : Nat, finished : Nat, dropped : Nat]
        /\ health'.created = health.created /\ health'.dropped = health.dropped + 1
        /\ health'.finished = health.finished
    BY <2>1, <2>2
  <2> QED
    BY <1>0, <2>1, <2>3, SpanEnded
<1>7. CASE Tracing!List
  BY <1>0, <1>7, <1>s DEF Tracing!List, Tracing!table
<1>8. CASE UNCHANGED spansVars
  BY <1>0, <1>8, <1>s DEF spansVars
<1> QED
  BY <1>1, <1>2, <1>3, <1>4, <1>5, <1>6, <1>7, <1>8 DEF Tracing!Next, Tracing!RequestStep

(* Every span that was created has ended once, by its request or by its    *)
(* timeout, or is in the table, which never outgrows its limit.            *)
THEOREM SpansEnd == Spec => []SpansEndOnce
<1>1. TracingInv => SpansEndOnce
  BY DEF TracingInv, SpansEndOnce
<1>2. Init => TracingInv
  BY BeginsAll, TracingInit
<1>3. TracingInv /\ [Next]_vars => TracingInv'
  BY StepOfOne, TracingStep
<1> QED
  BY <1>1, <1>2, <1>3, PTL DEF Spec

-----------------------------------------------------------------------------
(* From the file to the server.  What Load accepts has its names in lower  *)
(* case and its numbers at zero or above ...                               *)

OTLPLoaded(o) ==
    /\ o.enabled \in BOOLEAN /\ o.endpoint \in {"", "url", "no url"} /\ o.least \in {0, 1}
    /\ o.enabled => o.endpoint # ""

LoggingLoaded(l) ==
    /\ l.output \in {"", "stdout", "stderr", "file"}
    /\ l.output = "file" => l.filePath # ""
    /\ l.otlp # None => OTLPLoaded(l.otlp)

Loaded(s) ==
    /\ s.transport \in {"stdio", "http"} /\ s.storage \in {"", "sqlite"}
    /\ s.logging # None => LoggingLoaded(s.logging)

(* ... and its log goes where it says, or where the environment does.      *)
Settled(s, e, c) ==
    /\ c.output \in {"stdout", "stderr", "file"}
    /\ c.output = "file" /\ c.filePath = "" => e = [output |-> "file", filePath |-> ""]
    /\ OTLPLoaded(c.otlp)
    /\ s.transport = "stdio" => (c.output = "stdout" <=> e.output = "stdout")

ConfigInv ==
    /\ stage # "unsupported"
    /\ stage \notin {"reading", "refused"} => Loaded(settings)
    /\ stage \notin {"reading", "refused", "loaded"} => Settled(settings, env, log)
    /\ stage = "invalid" => ~Config!ValidConfig(log)

LEMMA LoadNormalizes ==
    ASSUME NEW f \in Config!Files, Config!ValidSettings(f)
    PROVE  Loaded(Config!Normalized(f))
<1> DEFINE l == f.logging
           s == Config!Normalized(f)
<1>1. /\ f.transport \in {"", "STDIO", "http", "other"} /\ f.storage \in {"", "SQLITE"}
      /\ l \in Config!LoggingSections
  BY DEF Config!Files
<1>2. /\ s.transport = IF f.transport = "" THEN "stdio" ELSE Config!ToLower(f.transport)
      /\ s.storage = Config!ToLower(f.storage)
      /\ s.logging = IF l = None THEN None ELSE [l EXCEPT !.output = Config!ToLower(l.output)]
  <2>1. f \in [transport : {"", "STDIO", "http", "other"}, storage : {"", "SQLITE"},
               flaw : Config!Flaws \cup {None}, logging : Config!LoggingSections]
    BY DEF Config!Files
  <2>3. s.transport = IF f.transport = "" THEN "stdio" ELSE Config!ToLower(f.transport)
    BY <2>1 DEF Config!Normalized
  <2>4. s.storage = Config!ToLower(f.storage)
    BY <2>1 DEF Config!Normalized
  <2>5. s.logging = IF l = None THEN None ELSE [l EXCEPT !.output = Config!ToLower(l.output)]
    BY <2>1 DEF Config!Normalized
  <2> QED
    BY <2>3, <2>4, <2>5
<1> HIDE DEF s
<1>3. s.transport \in {"stdio", "http"}
  BY <1>1, <1>2 DEF Config!ValidSettings, Config!ToLower
<1>4. s.storage \in {"", "sqlite"}
  BY <1>1, <1>2 DEF Config!ToLower
<1>5. ASSUME l # None PROVE LoggingLoaded(s.logging)
  <2>1. l \in [output : {"", "STDOUT", "stderr", "File", "other"}, filePath : {"", "path"},
               otlp : Config!OTLPSections]
    BY <1>1, <1>5 DEF Config!LoggingSections
  <2>2. /\ s.logging.output = Config!ToLower(l.output)
        /\ s.logging.filePath = l.filePath /\ s.logging.otlp = l.otlp
    BY <1>2, <1>5, <2>1
  <2>3. Config!ValidLogging(l)
    BY <1>5 DEF Config!ValidSettings
  <2>4. s.logging.output \in {"", "stdout", "stderr", "file"}
        /\ (s.logging.output = "file" => s.logging.filePath # "")
    BY <2>2, <2>3 DEF Config!ValidLogging
  <2>5. ASSUME l.otlp # None PROVE OTLPLoaded(l.otlp)
    <3>1. l.otlp \in [enabled : BOOLEAN, endpoint : {"", "url", "no url"}, least : {-1, 0, 1}]
      BY <2>1, <2>5 DEF Config!OTLPSections
    <3>2. (l.otlp.enabled => l.otlp.endpoint # "") /\ l.otlp.least >= 0
      BY <2>3, <2>5 DEF Config!ValidLogging
    <3>3. l.otlp.enabled \in BOOLEAN /\ l.otlp.endpoint \in {"", "url", "no url"}
      BY <3>1
    <3>4. l.otlp.least \in {-1, 0, 1} /\ l.otlp.least >= 0
      BY <3>1, <3>2, Zenon
    <3>5. l.otlp.least \in {0, 1}
      BY <3>4
    <3> QED
      BY <3>2, <3>3, <3>5, Zenon DEF OTLPLoaded
  <2> QED
    BY <2>2, <2>4, <2>5 DEF LoggingLoaded
<1>6. s.logging # None => l # None
  BY <1>2
<1> QED
  BY <1>3, <1>4, <1>5, <1>6 DEF Loaded, s

LEMMA ConvertSettles ==
    ASSUME NEW s, Loaded(s), NEW e \in Config!Environments
    PROVE  Settled(s, e, Config!Overridden(Config!Converted(s), e))
<1> DEFINE c == Config!Converted(s)
           d == Config!Overridden(c, e)
           named == IF s.logging = None THEN "" ELSE s.logging.output
           otlp == IF s.logging # None /\ s.logging.otlp # None THEN s.logging.otlp
                   ELSE [enabled |-> FALSE, endpoint |-> "", least |-> 1]
<1>1. /\ c.output = CASE named \in {"stderr", "file"} -> named
                      [] s.transport = "stdio" -> "stderr"
                      [] OTHER -> "stdout"
      /\ c.filePath = IF named = "file" THEN s.logging.filePath ELSE ""
      /\ c.otlp = otlp
      /\ c = [output |-> c.output, filePath |-> c.filePath, otlp |-> c.otlp]
  BY DEF Config!Converted
<1>2. OTLPLoaded(otlp)
  BY DEF Loaded, LoggingLoaded, OTLPLoaded
<1>3. named \in {"", "stdout", "stderr", "file"} /\ (named = "file" => s.logging.filePath # "")
  BY DEF Loaded, LoggingLoaded
<1> HIDE DEF c, named, otlp
<1>4. /\ c.output \in {"stdout", "stderr", "file"}
      /\ c.output = "file" => c.filePath # ""
      /\ s.transport = "stdio" => c.output # "stdout"
      /\ OTLPLoaded(c.otlp)
  BY <1>1, <1>2, <1>3
<1>5. /\ e.output \in {"stdout", "stderr"} =>
            d.output = e.output /\ d.filePath = c.filePath /\ d.otlp = c.otlp
      /\ e.output = "file" =>
            /\ d.output = "file" /\ d.otlp = c.otlp
            /\ d.filePath = IF e.filePath = "" THEN c.filePath ELSE e.filePath
      /\ e.output \notin {"stdout", "stderr", "file"} => d = c
  BY <1>1 DEF Config!Overridden
<1>6. /\ e.output \in {"", "stdout", "stderr", "file", "other"} /\ e.filePath \in {"", "path"}
      /\ e = [output |-> e.output, filePath |-> e.filePath]
  BY DEF Config!Environments
<1> HIDE DEF d
<1>7. d.output \in {"stdout", "stderr", "file"} /\ OTLPLoaded(d.otlp)
  BY <1>4, <1>5, <1>6
<1>8. d.output = "file" /\ d.filePath = "" => e = [output |-> "file", filePath |-> ""]
  BY <1>4, <1>5, <1>6
<1>9. s.transport = "stdio" => (d.output = "stdout" <=> e.output = "stdout")
  BY <1>4, <1>5, <1>6
<1> QED
  BY <1>7, <1>8, <1>9 DEF Settled, d, c

LEMMA ConfigStep == ConfigInv /\ [Config!Next]_configVars => ConfigInv'
<1> SUFFICES ASSUME ConfigInv, [Config!Next]_configVars PROVE ConfigInv'
  OBVIOUS
<1>1. CASE Config!Load
  <2>1. PICK f \in Config!Files :
            IF Config!ValidSettings(f)
            THEN stage' = "loaded" /\ settings' = Config!Normalized(f)
            ELSE stage' = "refused" /\ UNCHANGED settings
    BY <1>1 DEF Config!Load
  <2> QED
    BY <2>1, LoadNormalizes DEF ConfigInv
<1>2. CASE Config!Convert
  <2>1. PICK e \in Config!Environments :
            env' = e /\ log' = Config!Overridden(Config!Converted(settings), e)
    BY <1>2 DEF Config!Convert
  <2>2. stage = "loaded" /\ stage' = "converted" /\ settings' = settings
    BY <1>2 DEF Config!Convert
  <2>3. Loaded(settings)
    BY <2>2 DEF ConfigInv
  <2>4. Settled(settings, e, Config!Overridden(Config!Converted(settings), e))
    BY <2>3, ConvertSettles
  <2> QED
    BY <2>1, <2>2, <2>3, <2>4 DEF ConfigInv
<1>3. CASE Config!Initialize
  BY <1>3 DEF ConfigInv, Config!Initialize
<1>4. CASE Config!Build
  BY <1>4 DEF ConfigInv, Config!Build, Loaded
<1>5. CASE UNCHANGED configVars
  BY <1>5 DEF ConfigInv, configVars
<1> QED
  BY <1>1, <1>2, <1>3, <1>4, <1>5 DEF Config!Next

(* A file that Load accepts is not refused later but for the two reasons   *)
(* the second validation has of its own, and under stdio only the          *)
(* environment brings the log to stdout.                                   *)
THEOREM AcceptedFilesStart == Spec => []ConfigurationHolds
<1>1. ConfigInv => ConfigurationHolds
  <2> SUFFICES ASSUME ConfigInv PROVE ConfigurationHolds
    OBVIOUS
  <2>1. Config!LogKeepsOffAnswers
    BY DEF ConfigInv, Settled, Config!LogKeepsOffAnswers
  <2>2. ASSUME stage = "invalid"
        PROVE  \/ log.otlp.enabled /\ (log.otlp.least = 0 \/ log.otlp.endpoint = "no url")
               \/ env = [output |-> "file", filePath |-> ""]
    <3>1. Settled(settings, env, log) /\ ~Config!ValidConfig(log)
      BY <2>2 DEF ConfigInv
    <3>a. OTLPLoaded(log.otlp) /\ log.otlp.least \in {0, 1}
      BY <3>1, Zenon DEF Settled, OTLPLoaded
    <3>2. OTLPLoaded(log.otlp) /\ (log.otlp.least = 0 \/ log.otlp.least > 0)
      BY <3>a
    <3> QED
      BY <3>1, <3>2, Zenon DEF Settled, OTLPLoaded, Config!ValidConfig, Config!ValidOTLP
  <2> QED
    BY <2>1, <2>2 DEF ConfigInv, ConfigurationHolds, Config!AcceptedStarts
<1>2. Init => ConfigInv
  BY BeginsAll DEF Config!Init, ConfigInv
<1>3. ConfigInv /\ [Next]_vars => ConfigInv'
  BY StepOfOne, ConfigStep
<1> QED
  BY <1>1, <1>2, <1>3, PTL DEF Spec

-----------------------------------------------------------------------------
(* The batch.  Entries are handed over under batchMu only, and to a        *)
(* channel that is open; what a producer added later has a higher number.  *)

InOrder(seq) == \A j, k \in DOMAIN seq : j < k /\ seq[j][1] = seq[k][1] => seq[j][2] < seq[k][2]

(* While p waits for batchMu its last number is on its way.                *)
Numbered(e) == e[2] <= count[e[1]] /\ (batchAt[e[1]] = "wait" => e[2] < count[e[1]])

BatchingLocked ==
    /\ cursor > 0 => batchMu # Nobody /\ ~closed
    /\ closed <=> closing \in {"marked", "done"}
    /\ ~closed => channel = "open"
    /\ channel # "panic"

BatchingOrdered ==
    /\ InOrder(sent) /\ InOrder(batch)
    /\ \A j \in DOMAIN sent, k \in DOMAIN batch :
          k > cursor /\ sent[j][1] = batch[k][1] => sent[j][2] < batch[k][2]
    /\ \A k \in DOMAIN sent : Numbered(sent[k])
    /\ \A k \in DOMAIN batch : Numbered(batch[k])

BatchingTyped ==
    /\ Batching!TypeOK
    /\ \A p \in Goroutines : batchAt[p] = "wait" => count[p] >= 1

BatchingInv == BatchingTyped /\ BatchingLocked /\ BatchingOrdered

LEMMA BatchingBounds == BatchSize \in Nat \ {0} /\ MaxRecords \in Nat
  BY ComponentsAssumption DEF Batching!BatchingAssumption

LEMMA BatchingInit == Batching!Init => BatchingInv
<1> SUFFICES ASSUME Batching!Init PROVE BatchingInv
  OBVIOUS
<1>1. batch = <<>> /\ sent = <<>> /\ Len(<<>>) = 0 /\ DOMAIN <<>> = {}
  BY DEF Batching!Init
<1>2. BatchingTyped
  <2>1. 0 \in 0..MaxRecords /\ 0 \in 0..0 /\ <<>> \in Seq(Batching!Entry)
    BY BatchingBounds
  <2>2. /\ batchAt \in [Goroutines -> {"idle", "wait", "in"}]
        /\ count \in [Goroutines -> 0..MaxRecords] /\ cursor \in 0..Len(batch)
        /\ \A p \in Goroutines : batchAt[p] # "wait"
    BY <1>1, <2>1 DEF Batching!Init
  <2> QED
    BY <1>1, <2>1, <2>2 DEF Batching!Init, BatchingTyped, Batching!TypeOK
<1>3. BatchingLocked
  BY DEF Batching!Init, BatchingLocked
<1>4. BatchingOrdered
  BY <1>1 DEF BatchingOrdered, InOrder
<1> QED
  BY <1>2, <1>3, <1>4 DEF BatchingInv

(* A step of a producer that puts nothing anywhere.                        *)
LEMMA NumbersGrow ==
    ASSUME BatchingInv, NEW p \in Goroutines, UNCHANGED <<batch, cursor, sent>>,
           count' \in [Goroutines -> 0..MaxRecords],
           \A q \in Goroutines : IF q = p THEN \/ count'[q] = count[q] /\ batchAt'[q] # "wait"
                                              \/ count'[q] = count[q] + 1
                                 ELSE count'[q] = count[q] /\ batchAt'[q] = batchAt[q]
    PROVE  BatchingOrdered'
<1>1. /\ batch \in Seq(Batching!Entry) /\ sent \in Seq(Batching!Entry)
      /\ count \in [Goroutines -> 0..MaxRecords]
  BY DEF BatchingInv, BatchingTyped, Batching!TypeOK
<1>2. ASSUME NEW e \in Batching!Entry, Numbered(e) PROVE Numbered(e)'
  <2>1. e[1] \in Goroutines /\ e[2] \in 1..MaxRecords
    BY DEF Batching!Entry
  <2> DEFINE q == e[1]
  <2>2. count[q] \in Nat /\ e[2] \in Nat
    BY <1>1, <2>1, BatchingBounds
  <2>3. CASE q = p
    BY <1>2, <2>1, <2>2, <2>3 DEF Numbered
  <2>4. CASE q # p
    BY <1>2, <2>1, <2>2, <2>4 DEF Numbered
  <2> QED
    BY <2>3, <2>4
<1>3. (\A k \in DOMAIN sent : sent[k] \in Batching!Entry)
      /\ (\A k \in DOMAIN batch : batch[k] \in Batching!Entry)
  BY <1>1, LenProperties, ElementOfSeq
<1> QED
  BY <1>2, <1>3 DEF BatchingInv, BatchingOrdered, InOrder

LEMMA EntryAdded ==
    ASSUME BatchingInv, NEW p \in Goroutines, Batching!Add(p)
    PROVE  BatchingInv'
<1> DEFINE e == <<p, count[p]>>
<1>1. /\ batch \in Seq(Batching!Entry) /\ sent \in Seq(Batching!Entry)
      /\ count \in [Goroutines -> 0..MaxRecords] /\ cursor \in 0..Len(batch)
      /\ batchAt \in [Goroutines -> {"idle", "wait", "in"}]
  BY DEF BatchingInv, BatchingTyped, Batching!TypeOK
<1>2. /\ batchAt[p] = "wait" /\ batchMu = Nobody /\ batch' = Append(batch, e)
      /\ UNCHANGED <<count, cursor, fired, closed, channel, sent, closing>>
      /\ \/ batchMu' = p /\ batchAt' = [batchAt EXCEPT ![p] = "in"] /\ UNCHANGED timer
         \/ timer' = TRUE /\ batchAt' = [batchAt EXCEPT ![p] = "idle"] /\ UNCHANGED batchMu
  BY DEF Batching!Add, Batching!Goto
<1>3. e \in Batching!Entry
  BY <1>1, <1>2, BatchingBounds DEF BatchingInv, BatchingTyped, Batching!Entry
<1>4. cursor = 0
  BY <1>1, <1>2, LenProperties DEF BatchingInv, BatchingLocked
<1>5. /\ Append(batch, e) \in Seq(Batching!Entry)
      /\ Len(batch) \in Nat /\ Len(Append(batch, e)) = Len(batch) + 1
      /\ DOMAIN batch = 1..Len(batch) /\ DOMAIN Append(batch, e) = 1..(Len(batch) + 1)
      /\ Append(batch, e)[Len(batch) + 1] = e
      /\ \A k \in DOMAIN batch : Append(batch, e)[k] = batch[k]
  BY <1>1, <1>3, RowsOfAppend
<1>6. BatchingTyped'
  <2>1. batchAt' \in [Goroutines -> {"idle", "wait", "in"}]
    BY <1>1, <1>2
  <2>2. batchMu' \in Goroutines \cup {Nobody, Timer, Closer} /\ timer' \in BOOLEAN
    BY <1>2 DEF BatchingInv, BatchingTyped, Batching!TypeOK
  <2>3. batch' \in Seq(Batching!Entry) /\ cursor' \in 0..Len(batch')
    BY <1>2, <1>4, <1>5
  <2>4. \A q \in Goroutines : batchAt'[q] = "wait" => count'[q] >= 1
    BY <1>1, <1>2 DEF BatchingInv, BatchingTyped
  <2> QED
    BY <1>2, <2>1, <2>2, <2>3, <2>4 DEF BatchingInv, BatchingTyped, Batching!TypeOK
<1>7. BatchingLocked'
  BY <1>2, <1>4 DEF BatchingInv, BatchingLocked
<1>8. (\A k \in DOMAIN sent : sent[k] \in Batching!Entry)
      /\ (\A k \in DOMAIN batch : batch[k] \in Batching!Entry)
  BY <1>1, LenProperties, ElementOfSeq
<1>9. ASSUME NEW f \in Batching!Entry, Numbered(f)
      PROVE  Numbered(f)' /\ (f[1] = p => f[2] < count[p])
  <2>1. f[1] \in Goroutines
    BY DEF Batching!Entry
  <2>2. batchAt'[f[1]] = "wait" => batchAt[f[1]] = "wait"
    BY <1>1, <1>2, <2>1
  <2> QED
    BY <1>2, <1>9, <2>2 DEF Numbered
<1>10. Numbered(e)'
  <2>1. batchAt'[p] # "wait" /\ count'[p] = count[p] /\ count[p] \in Nat
    BY <1>1, <1>2, BatchingBounds
  <2>2. e[1] = p /\ e[2] = count[p]
    OBVIOUS
  <2> QED
    BY <2>1, <2>2 DEF Numbered
<1> HIDE DEF e
<1>11. e[1] = p /\ e[2] = count[p]
  BY DEF e
<1>12. InOrder(batch')
  <2> SUFFICES ASSUME NEW j \in DOMAIN batch', NEW k \in DOMAIN batch', j < k,
                      batch'[j][1] = batch'[k][1]
               PROVE  batch'[j][2] < batch'[k][2]
    BY DEF InOrder
  <2>1. CASE k \in DOMAIN batch
    BY <1>2, <1>5, <2>1 DEF BatchingInv, BatchingOrdered, InOrder
  <2>2. CASE k = Len(batch) + 1
    <3>1. j \in DOMAIN batch
      BY <1>2, <1>5, <2>2
    <3>2. batch'[j] = batch[j] /\ batch'[k] = e
      BY <1>2, <1>5, <2>2, <3>1
    <3> QED
      BY <1>8, <1>9, <1>11, <3>1, <3>2 DEF BatchingInv, BatchingOrdered
  <2> QED
    BY <1>2, <1>5, <2>1, <2>2
<1>13. ASSUME NEW j \in DOMAIN sent', NEW k \in DOMAIN batch', sent'[j][1] = batch'[k][1]
       PROVE  sent'[j][2] < batch'[k][2]
  <2>1. CASE k \in DOMAIN batch
    <3>1. k > cursor /\ batch'[k] = batch[k] /\ sent' = sent
      BY <1>2, <1>4, <1>5, <2>1
    <3> QED
      BY <1>13, <2>1, <3>1 DEF BatchingInv, BatchingOrdered
  <2>2. CASE k = Len(batch) + 1
    <3>1. sent' = sent /\ batch'[k] = e
      BY <1>2, <1>5, <2>2
    <3> QED
      BY <1>8, <1>9, <1>11, <1>13, <3>1 DEF BatchingInv, BatchingOrdered
  <2> QED
    BY <1>2, <1>5, <2>1, <2>2
<1>14. InOrder(sent') /\ \A k \in DOMAIN sent' : Numbered(sent[k])'
  BY <1>2, <1>8, <1>9 DEF BatchingInv, BatchingOrdered
<1>15. \A k \in DOMAIN batch' : Numbered(batch[k])'
  <2> SUFFICES ASSUME NEW k \in DOMAIN batch' PROVE Numbered(batch[k])'
    OBVIOUS
  <2>1. CASE k \in DOMAIN batch
    <3>1. batch'[k] = batch[k] /\ Numbered(batch[k]) /\ batch[k] \in Batching!Entry
      BY <1>2, <1>5, <1>8, <2>1 DEF BatchingInv, BatchingOrdered
    <3> QED
      BY <1>9, <3>1 DEF Numbered
  <2>2. CASE k = Len(batch) + 1
    <3>1. batch'[k] = e
      BY <1>2, <1>5, <2>2
    <3> QED
      BY <1>2, <1>10, <1>11, <3>1 DEF Numbered, e
  <2> QED
    BY <1>2, <1>5, <2>1, <2>2
<1>16. BatchingOrdered'
  BY <1>12, <1>13, <1>14, <1>15 DEF BatchingOrdered, InOrder
<1> QED
  BY <1>6, <1>7, <1>16 DEF BatchingInv

LEMMA EntryHandedOver == ASSUME BatchingInv, Batching!HandOver PROVE BatchingInv'
<1> DEFINE e == batch[cursor + 1]
<1>1. /\ batch \in Seq(Batching!Entry) /\ sent \in Seq(Batching!Entry)
      /\ cursor \in 0..Len(batch) /\ cursor < Len(batch) /\ Len(batch) \in Nat
  BY LenProperties DEF BatchingInv, BatchingTyped, Batching!TypeOK, Batching!HandOver
<1>2. /\ batchMu # Nobody /\ ~closed /\ channel = "open"
      /\ cursor' = cursor + 1 /\ sent' \in {sent, Append(sent, e)}
      /\ UNCHANGED <<batchAt, count, batchMu, batch, timer, fired, closed, channel, closing>>
  BY DEF Batching!HandOver, BatchingInv, BatchingLocked
<1>3. cursor + 1 \in DOMAIN batch /\ e \in Batching!Entry /\ DOMAIN batch = 1..Len(batch)
  BY <1>1, LenProperties, ElementOfSeq
<1>4. /\ Append(sent, e) \in Seq(Batching!Entry)
      /\ Len(sent) \in Nat
      /\ DOMAIN sent = 1..Len(sent) /\ DOMAIN Append(sent, e) = 1..(Len(sent) + 1)
      /\ Append(sent, e)[Len(sent) + 1] = e
      /\ \A k \in DOMAIN sent : Append(sent, e)[k] = sent[k]
  BY <1>1, <1>3, RowsOfAppend
<1>5. BatchingTyped'
  <2>1. sent' \in Seq(Batching!Entry) /\ cursor' \in 0..Len(batch')
    BY <1>1, <1>2, <1>4
  <2> QED
    BY <1>2, <2>1 DEF BatchingInv, BatchingTyped, Batching!TypeOK
<1>6. BatchingLocked'
  BY <1>2 DEF BatchingInv, BatchingLocked
<1> HIDE DEF e
<1>7. \A k \in DOMAIN batch : Numbered(batch[k])' /\ (k > cursor' => k > cursor)
  BY <1>1, <1>2, <1>3 DEF BatchingInv, BatchingOrdered, Numbered
<1>8. \A k \in DOMAIN batch : k > cursor' /\ e[1] = batch[k][1] => e[2] < batch[k][2]
  BY <1>1, <1>2, <1>3 DEF BatchingInv, BatchingOrdered, InOrder, e
<1>9. \A j \in DOMAIN sent : sent[j][1] = e[1] => sent[j][2] < e[2]
  BY <1>1, <1>3 DEF BatchingInv, BatchingOrdered, e
<1>10. Numbered(e) /\ \A k \in DOMAIN sent : Numbered(sent[k])
  BY <1>3 DEF BatchingInv, BatchingOrdered, e
<1>11. BatchingOrdered'
  <2>1. CASE sent' = sent
    BY <1>2, <1>7, <1>10, <2>1 DEF BatchingInv, BatchingOrdered, InOrder, Numbered
  <2>2. CASE sent' = Append(sent, e)
    <3>1. \A j \in DOMAIN sent' : \/ j \in DOMAIN sent /\ sent'[j] = sent[j]
                                  \/ j = Len(sent) + 1 /\ sent'[j] = e
      BY <1>4, <2>2
    <3>2. InOrder(sent')
      <4> SUFFICES ASSUME NEW j \in DOMAIN sent', NEW k \in DOMAIN sent', j < k,
                          sent'[j][1] = sent'[k][1]
                   PROVE  sent'[j][2] < sent'[k][2]
        BY DEF InOrder
      <4>1. j \in DOMAIN sent /\ sent'[j] = sent[j]
        BY <1>4, <2>2
      <4> QED
        BY <1>9, <3>1, <4>1 DEF BatchingInv, BatchingOrdered, InOrder
    <3>3. \A j \in DOMAIN sent', k \in DOMAIN batch :
             k > cursor' /\ sent'[j][1] = batch[k][1] => sent'[j][2] < batch[k][2]
      BY <1>7, <1>8, <3>1 DEF BatchingInv, BatchingOrdered
    <3>4. \A k \in DOMAIN sent' : Numbered(sent[k])'
      <4> SUFFICES ASSUME NEW k \in DOMAIN sent' PROVE Numbered(sent[k])'
        OBVIOUS
      <4>1. CASE k \in DOMAIN sent /\ sent'[k] = sent[k]
        BY <1>2, <1>10, <4>1 DEF Numbered
      <4>2. CASE sent'[k] = e
        BY <1>2, <1>10, <4>2 DEF Numbered
      <4> QED
        BY <3>1, <4>1, <4>2
    <3>5. InOrder(batch)
      BY DEF BatchingInv, BatchingOrdered
    <3> QED
      BY <1>2, <1>7, <3>2, <3>3, <3>4, <3>5 DEF BatchingOrdered, InOrder, Numbered
  <2> QED
    BY <1>2, <2>1, <2>2
<1> QED
  BY <1>5, <1>6, <1>11 DEF BatchingInv

(* processBatch is through, or failed: the batch is empty, or as it was,   *)
(* to be handed over to an AsyncHandler that is closed.                    *)
LEMMA BatchProcessed ==
    ASSUME BatchingInv, Batching!Cleared \/ Batching!Failed,
           UNCHANGED <<count, fired, channel, sent>>,
           \A p \in Goroutines : batchAt'[p] = "wait" => batchAt[p] = "wait"
    PROVE  BatchingOrdered' /\ cursor' = 0 /\ batch' \in Seq(Batching!Entry)
<1>1. /\ batch \in Seq(Batching!Entry) /\ sent \in Seq(Batching!Entry)
      /\ cursor \in 0..Len(batch) /\ Len(batch) \in Nat
  BY LenProperties DEF BatchingInv, BatchingTyped, Batching!TypeOK
<1>2. \A e \in Batching!Entry : Numbered(e) => Numbered(e)'
  BY DEF Numbered, Batching!Entry
<1>3. (\A k \in DOMAIN sent : sent[k] \in Batching!Entry)
      /\ (\A k \in DOMAIN batch : batch[k] \in Batching!Entry)
  BY <1>1, LenProperties, ElementOfSeq
<1>4. CASE Batching!Cleared
  <2>1. batch' = <<>> /\ cursor' = 0 /\ DOMAIN <<>> = {} /\ <<>> \in Seq(Batching!Entry)
    BY <1>4 DEF Batching!Cleared
  <2> QED
    BY <1>2, <1>3, <2>1 DEF BatchingInv, BatchingOrdered, InOrder
<1>5. CASE Batching!Failed
  <2>1. batch' = batch /\ cursor' = 0 /\ cursor = 0
    BY <1>1, <1>5 DEF Batching!Failed, BatchingInv, BatchingLocked
  <2> QED
    BY <1>1, <1>2, <1>3, <2>1 DEF BatchingInv, BatchingOrdered, InOrder
<1> QED
  BY <1>4, <1>5

LEMMA BatchingStep == BatchingInv /\ [Batching!Next]_batchingVars => BatchingInv'
<1> SUFFICES ASSUME BatchingInv, [Batching!Next]_batchingVars PROVE BatchingInv'
  OBVIOUS
<1>a. /\ count \in [Goroutines -> 0..MaxRecords] /\ fired \in Nat
      /\ batchAt \in [Goroutines -> {"idle", "wait", "in"}]
      /\ batch \in Seq(Batching!Entry) /\ cursor \in 0..Len(batch)
  BY DEF BatchingInv, BatchingTyped, Batching!TypeOK
<1>1. ASSUME NEW p \in Goroutines, Batching!Check(p) PROVE BatchingInv'
  <2>1. /\ batchAt[p] = "idle" /\ count[p] < MaxRecords
        /\ count' = [count EXCEPT ![p] = @ + 1]
        /\ batchAt' \in {batchAt, [batchAt EXCEPT ![p] = "wait"]}
        /\ UNCHANGED <<batchMu, batch, cursor, timer, fired, closed, channel, sent, closing>>
    BY <1>1 DEF Batching!Check, Batching!Goto
  <2>2. count' \in [Goroutines -> 0..MaxRecords] /\ count'[p] = count[p] + 1
        /\ batchAt' \in [Goroutines -> {"idle", "wait", "in"}]
        /\ \A q \in Goroutines : q # p => count'[q] = count[q] /\ batchAt'[q] = batchAt[q]
    BY <1>a, <2>1, BatchingBounds
  <2>3. BatchingOrdered'
    BY <2>1, <2>2, NumbersGrow
  <2>4. \A q \in Goroutines : batchAt'[q] = "wait" => count'[q] >= 1
    BY <1>a, <2>2, BatchingBounds DEF BatchingInv, BatchingTyped
  <2> QED
    BY <2>1, <2>2, <2>3, <2>4 DEF BatchingInv, BatchingTyped, BatchingLocked, Batching!TypeOK
<1>2. ASSUME NEW p \in Goroutines, Batching!Add(p) PROVE BatchingInv'
  BY <1>2, EntryAdded
<1>3. CASE Batching!HandOver
  BY <1>3, EntryHandedOver
<1>4. ASSUME Batching!Cleared \/ Batching!Failed,
             batchAt' \in [Goroutines -> {"idle", "wait", "in"}],
             \A p \in Goroutines : batchAt'[p] = "wait" => batchAt[p] = "wait",
             UNCHANGED <<count, fired, channel, sent>>, timer' \in BOOLEAN,
             batchMu' \in Goroutines \cup {Nobody, Timer, Closer},
             \/ UNCHANGED <<closed, closing>>
             \/ closed' = TRUE /\ closing' = "marked" /\ ~closed
      PROVE  BatchingInv'
  <2>1. BatchingOrdered' /\ cursor' = 0 /\ batch' \in Seq(Batching!Entry)
    BY <1>4, BatchProcessed
  <2>2. cursor' \in 0..Len(batch')
    BY <2>1, LenProperties
  <2>3. closed' \in BOOLEAN /\ closing' \in {"no", "process", "marked", "done"}
    BY <1>4 DEF BatchingInv, BatchingTyped, Batching!TypeOK
  <2>4. BatchingTyped'
    BY <1>4, <2>1, <2>2, <2>3 DEF BatchingInv, BatchingTyped, Batching!TypeOK
  <2>5. BatchingLocked'
    BY <1>4, <2>1 DEF BatchingInv, BatchingLocked
  <2> QED
    BY <2>1, <2>4, <2>5 DEF BatchingInv
<1>5. ASSUME NEW p \in Goroutines, Batching!Return(p) PROVE BatchingInv'
  <2>1. /\ batchAt' \in [Goroutines -> {"idle", "wait", "in"}]
        /\ \A q \in Goroutines : batchAt'[q] = "wait" => batchAt[q] = "wait"
    BY <1>a, <1>5 DEF Batching!Return, Batching!Goto
  <2>2. timer \in BOOLEAN
    BY DEF BatchingInv, BatchingTyped, Batching!TypeOK
  <2> QED
    BY <1>4, <1>5, <2>1, <2>2 DEF Batching!Return
<1>6. CASE Batching!TimerReturn
  <2>1. timer \in BOOLEAN
    BY DEF BatchingInv, BatchingTyped, Batching!TypeOK
  <2> QED
    BY <1>a, <1>4, <1>6, <2>1 DEF Batching!TimerReturn
<1>7. CASE Batching!Mark
  <2>1. closing = "process" /\ ~closed /\ Batching!Cleared /\ timer' = FALSE
        /\ closed' = TRUE /\ closing' = "marked"
        /\ UNCHANGED <<batchAt, count, batchMu, fired, channel, sent>>
    BY <1>7 DEF Batching!Mark, BatchingInv, BatchingLocked
  <2>2. batchMu \in Goroutines \cup {Nobody, Timer, Closer}
    BY DEF BatchingInv, BatchingTyped, Batching!TypeOK
  <2> QED
    BY <1>a, <1>4, <2>1, <2>2
<1>8. ASSUME UNCHANGED <<batchAt, count, batch, cursor, sent>>,
             BatchingLocked', timer' \in BOOLEAN, fired' \in Nat, closed' \in BOOLEAN,
             batchMu' \in Goroutines \cup {Nobody, Timer, Closer},
             channel' \in {"open", "closed", "panic"},
             closing' \in {"no", "process", "marked", "done"}
      PROVE  BatchingInv'
  <2>1. BatchingTyped'
    BY <1>8 DEF BatchingInv, BatchingTyped, Batching!TypeOK
  <2>2. BatchingOrdered'
    BY <1>8 DEF BatchingInv, BatchingOrdered, InOrder, Numbered
  <2> QED
    BY <1>8, <2>1, <2>2 DEF BatchingInv
<1> HIDE DEF BatchingInv
<1>b. /\ BatchingLocked /\ timer \in BOOLEAN /\ fired \in Nat /\ closed \in BOOLEAN
      /\ batchMu \in Goroutines \cup {Nobody, Timer, Closer}
      /\ channel \in {"open", "closed", "panic"}
      /\ closing \in {"no", "process", "marked", "done"}
  BY DEF BatchingInv, BatchingTyped, Batching!TypeOK
<1>9. CASE Batching!Fire
  <2>1. BatchingLocked'
    BY <1>9, <1>b DEF Batching!Fire, BatchingLocked
  <2>2. fired' = fired + 1 /\ timer' = FALSE
    BY <1>9, Zenon DEF Batching!Fire
  <2>3. fired' \in Nat
    BY <1>b, <2>2
  <2> QED
    BY <1>8, <1>9, <1>b, <2>1, <2>2, <2>3 DEF Batching!Fire
<1>10. CASE Batching!TimerLock
  <2>1. BatchingLocked'
    BY <1>10, <1>a, <1>b DEF Batching!TimerLock, BatchingLocked
  <2>2. fired' \in Nat
    BY <1>10, <1>b DEF Batching!TimerLock
  <2> QED
    BY <1>8, <1>10, <1>b, <2>1, <2>2 DEF Batching!TimerLock
<1>11. CASE Batching!CloseLock
  <2>1. BatchingLocked'
    BY <1>11, <1>a, <1>b DEF Batching!CloseLock, BatchingLocked
  <2> QED
    BY <1>8, <1>11, <1>b, <2>1 DEF Batching!CloseLock
<1>12. CASE Batching!CloseChannel
  <2>1. BatchingLocked'
    BY <1>12, <1>a, <1>b DEF Batching!CloseChannel, BatchingLocked
  <2> QED
    BY <1>8, <1>12, <1>b, <2>1 DEF Batching!CloseChannel
<1>13. CASE UNCHANGED batchingVars
  <2>1. BatchingLocked'
    BY <1>13, <1>b DEF batchingVars, BatchingLocked
  <2> QED
    BY <1>8, <1>13, <1>b, <2>1 DEF batchingVars
<1> QED
  BY <1>1, <1>2, <1>3, <1>5, <1>6, <1>7, <1>9, <1>10, <1>11, <1>12, <1>13 DEF Batching!Next

(* Each entry is handed over once, in the order of its producer, and none  *)
(* to a channel that is closed.                                            *)
THEOREM BatchesHandedOver == Spec => []HandedOverOnce
<1>1. BatchingInv => HandedOverOnce
  <2> SUFFICES ASSUME BatchingInv PROVE Batching!HandedOverOnce
    BY DEF HandedOverOnce
  <2>1. batch \in Seq(Batching!Entry) /\ sent \in Seq(Batching!Entry)
    BY DEF BatchingInv, BatchingTyped, Batching!TypeOK
  <2>2. ASSUME NEW k \in DOMAIN batch, k > cursor, NEW j \in DOMAIN sent, sent[j] = batch[k]
        PROVE  FALSE
    <3>1. sent[j][2] < batch[k][2] /\ sent[j][2] = batch[k][2]
      BY <2>2 DEF BatchingInv, BatchingOrdered
    <3>2. batch[k] \in Batching!Entry
      BY <2>1, LenProperties, ElementOfSeq
    <3>3. batch[k][2] \in Nat
      BY <3>2, BatchingBounds DEF Batching!Entry
    <3> QED
      BY <3>1, <3>3
  <2> QED
    BY <2>2 DEF Batching!HandedOverOnce, BatchingInv, BatchingLocked, BatchingOrdered, InOrder
<1>2. Init => BatchingInv
  BY BeginsAll, BatchingInit
<1>3. BatchingInv /\ [Next]_vars => BatchingInv'
  BY StepOfOne, BatchingStep
<1> QED
  BY <1>1, <1>2, <1>3, PTL DEF Spec

-----------------------------------------------------------------------------
(* The OTLP queue: what is proved of OTLPHandler holds of it here.         *)

OtlpProofs == INSTANCE OTLPHandlerProofs WITH
    Producers <- Goroutines, passed <- otlpPassed, batch <- otlpBatch

LEMMA OtlpInit == Otlp!Init => OtlpProofs!Inv
<1>1. OtlpProofs!OTLPAssumption
  BY ComponentsAssumption DEF Otlp!OTLPAssumption, OtlpProofs!OTLPAssumption
<1>2. Otlp!Init => OtlpProofs!Init
  BY DEF Otlp!Init, OtlpProofs!Init
<1> QED
  BY <1>1, <1>2, OtlpProofs!InvInit

LEMMA OtlpStep == OtlpProofs!Inv /\ [Otlp!Next]_otlpVars => OtlpProofs!Inv'
<1>1. OtlpProofs!OTLPAssumption
  BY ComponentsAssumption DEF Otlp!OTLPAssumption, OtlpProofs!OTLPAssumption
<1>2. Otlp!Next => OtlpProofs!Next
  BY DEF Otlp!Next, Otlp!Pass, Otlp!Enqueue, Otlp!Drop, Otlp!Receive, Otlp!Tick, Otlp!EndLoop,
         Otlp!Close, Otlp!Export,
         OtlpProofs!Next, OtlpProofs!Pass, OtlpProofs!Enqueue, OtlpProofs!Drop,
         OtlpProofs!Receive, OtlpProofs!Tick, OtlpProofs!EndLoop, OtlpProofs!Close,
         OtlpProofs!Export
<1>3. UNCHANGED otlpVars => UNCHANGED OtlpProofs!vars
  BY DEF otlpVars, OtlpProofs!vars
<1> QED
  BY <1>1, <1>2, <1>3, OtlpProofs!InvStep

LEMMA OtlpAccounts == OtlpProofs!Inv => RecordsAccounted
<1> SUFFICES ASSUME OtlpProofs!Inv PROVE Otlp!RecordsAccounted
  BY DEF RecordsAccounted
<1>1. \A S : Otlp!Cardinality(S) = OtlpProofs!Cardinality(S)
  BY DEF Otlp!Cardinality, OtlpProofs!Cardinality
<1> QED
  BY <1>1 DEF Otlp!RecordsAccounted, OtlpProofs!Inv, OtlpProofs!Accounted, OtlpProofs!Ordered,
              OtlpProofs!Tried, OtlpProofs!Line, OtlpProofs!Of

(* A record is exported once, in order, or counted, or still on its way.   *)
THEOREM RecordsAccountedFor == Spec => []RecordsAccounted
<1>1. Init => OtlpProofs!Inv
  BY BeginsAll, OtlpInit
<1>2. OtlpProofs!Inv /\ [Next]_vars => OtlpProofs!Inv'
  BY StepOfOne, OtlpStep
<1> QED
  BY <1>1, <1>2, OtlpAccounts, PTL DEF Spec

-----------------------------------------------------------------------------
(* The levels.  What GetConfig has read so far is still in force, for no   *)
(* writer gets in while it reads; what a goroutine logs had passed its     *)
(* component's own level by then, if the context named the component.      *)

Passed(l) ==
    /\ l.component \in Components /\ l.level \in LogLevels
    /\ l.since \in 1..Len(past)
    /\ l.named => \E r \in Levels!Required(past[l.since], l.component) : l.level >= r

LevelsTyped ==
    /\ levelConfig \in Levels!Config
    /\ past \in Seq(Levels!Config) /\ Len(past) >= 1 /\ past[Len(past)] = levelConfig
    /\ part \in [Goroutines -> LogLevels \cup {NoLevel}]
    /\ DOMAIN logging = Goroutines /\ logging = [t \in Goroutines |-> logging[t]]

LevelsInv ==
    /\ LevelsTyped
    /\ \A t \in Goroutines : part[t] # NoLevel => part[t] = levelConfig.default
    /\ \A t \in Goroutines : logging[t] # Nobody => Passed(logging[t])
    /\ Levels!LevelsInForce

LEMMA LevelsAreIntegers == LogLevels \subseteq Int /\ Configs \subseteq Levels!Config
  BY ComponentsAssumption DEF Levels!LevelAssumption, Levels!ConfigsAssumption

LEMMA LevelsInit == Levels!Init => LevelsInv
<1> SUFFICES ASSUME Levels!Init PROVE LevelsInv
  OBVIOUS
<1>1. levelConfig \in Levels!Config
  BY DEF Levels!Init, Levels!Config
<1>2. past = <<levelConfig>> /\ past \in Seq(Levels!Config) /\ Len(past) = 1
      /\ past[1] = levelConfig
  BY <1>1 DEF Levels!Init
<1>3. LevelsTyped
  BY <1>1, <1>2 DEF LevelsTyped, Levels!Init
<1> QED
  BY <1>3 DEF LevelsInv, Levels!Init, Levels!LevelsInForce

(* What has passed has passed for good.                                    *)
LEMMA PassedStays ==
    ASSUME NEW l, Passed(l), past \in Seq(Levels!Config), NEW c \in Levels!Config,
           past' = past \/ past' = Append(past, c)
    PROVE  Passed(l)'
<1>1. Len(past) \in Nat
  BY LenProperties
<1>2. CASE past' = past
  BY <1>2 DEF Passed
<1>3. CASE past' = Append(past, c)
  <2>1. Len(past') = Len(past) + 1 /\ \A k \in 1..Len(past) : past'[k] = past[k]
    BY <1>3, AppendProperties
  <2>2. l.since \in 1..Len(past') /\ past'[l.since] = past[l.since]
    BY <1>1, <2>1 DEF Passed
  <2> QED
    BY <2>2 DEF Passed
<1> QED
  BY <1>2, <1>3

(* A writer changes the levels when nobody reads.                          *)
LEMMA LevelsChange ==
    ASSUME LevelsInv, NEW t \in Goroutines, Levels!Change(t)
    PROVE  LevelsInv'
<1>1. /\ \A r \in Goroutines : part[r] = NoLevel
      /\ past' = Append(past, levelConfig') /\ out' = Nobody
      /\ UNCHANGED <<part, logging>>
  BY DEF Levels!Change, Levels!ChangeLevels, Levels!Reading
<1>2. levelConfig' \in Levels!Config
  <2>1. levelConfig \in [default : LogLevels, levels : [Names -> LogLevels \cup {NoLevel}]]
    BY DEF LevelsInv, LevelsTyped, Levels!Config
  <2>2. ASSUME NEW n \in Names, NEW new \in LogLevels \cup {NoLevel},
               levelConfig' = [levelConfig EXCEPT !.levels[n] = new]
        PROVE  levelConfig' \in Levels!Config
    BY <2>1, <2>2 DEF Levels!Config
  <2>3. ASSUME NEW new \in LogLevels,
               levelConfig' = [levelConfig EXCEPT !.default = new]
        PROVE  levelConfig' \in Levels!Config
    BY <2>1, <2>3 DEF Levels!Config
  <2>4. ASSUME NEW cfg \in Configs, levelConfig' = cfg PROVE levelConfig' \in Levels!Config
    BY <2>4, LevelsAreIntegers
  <2> QED
    BY <2>2, <2>3, <2>4 DEF Levels!Change, Levels!ChangeLevels
<1>3. past \in Seq(Levels!Config)
  BY DEF LevelsInv, LevelsTyped
<1>4. past' \in Seq(Levels!Config) /\ Len(past') >= 1 /\ past'[Len(past')] = levelConfig'
  BY <1>1, <1>2, <1>3, AppendProperties, LenProperties
<1>5. LevelsTyped'
  BY <1>1, <1>2, <1>4 DEF LevelsInv, LevelsTyped
<1>6. \A r \in Goroutines : logging[r] # Nobody => Passed(logging[r])'
  BY <1>1, <1>2, <1>3, PassedStays DEF LevelsInv
<1>7. Levels!LevelsInForce'
  BY <1>1 DEF Levels!LevelsInForce
<1> QED
  BY <1>1, <1>5, <1>6, <1>7 DEF LevelsInv, Passed

(* What any other step keeps.                                              *)
LEMMA LevelsKept ==
    ASSUME LevelsInv, UNCHANGED <<levelConfig, past>>,
           part' \in [Goroutines -> LogLevels \cup {NoLevel}],
           \A t \in Goroutines : part'[t] \in {part[t], levelConfig.default, NoLevel},
           logging' = [t \in Goroutines |-> logging'[t]],
           \A t \in Goroutines : logging'[t] \in {logging[t], Nobody} \/ Passed(logging'[t]),
           Levels!LevelsInForce'
    PROVE  LevelsInv'
<1>1. LevelsTyped'
  BY DEF LevelsInv, LevelsTyped
<1>2. \A t \in Goroutines : part'[t] # NoLevel => part'[t] = levelConfig.default
  BY DEF LevelsInv
<1>3. \A t \in Goroutines : logging'[t] # Nobody => Passed(logging'[t])
  BY DEF LevelsInv
<1>4. \A t \in Goroutines : logging'[t] # Nobody => Passed(logging[t])'
  BY <1>3 DEF Passed
<1> QED
  BY <1>1, <1>2, <1>4 DEF LevelsInv

(* GetConfig answers what is in force still.                               *)
LEMMA ConfigAnswered ==
    ASSUME LevelsInv, NEW t \in Goroutines, Levels!CopyLevels(t)
    PROVE  Levels!LevelsInForce'
<1>1. /\ part[t] # NoLevel /\ past' = past
      /\ out' = [default |-> part[t], levels |-> levelConfig.levels]
  BY DEF Levels!CopyLevels, Levels!Reading
<1>2. levelConfig \in [default : LogLevels, levels : [Names -> LogLevels \cup {NoLevel}]]
  BY DEF LevelsInv, LevelsTyped, Levels!Config
<1>3. levelConfig = [default |-> levelConfig.default, levels |-> levelConfig.levels]
  BY <1>2
<1>4. out' = levelConfig
  BY <1>1, <1>3 DEF LevelsInv
<1>5. Len(past) \in DOMAIN past /\ past[Len(past)] = levelConfig
  BY LenProperties DEF LevelsInv, LevelsTyped
<1>6. out' \in Levels!Range(past')
  BY <1>1, <1>4, <1>5 DEF Levels!Range
<1> QED
  BY <1>6 DEF Levels!LevelsInForce

(* What gets through has passed its own level, and one that is in force.   *)
LEMMA RecordLetThrough ==
    ASSUME LevelsInv, NEW t \in Goroutines, Levels!Handle(t)
    PROVE  Levels!LevelsInForce'
<1> DEFINE l == logging[t]
<1>1. PICK judge \in Levels!Kinds, r \in LogLevels :
          /\ r \in Levels!RequiredBy(judge, levelConfig, l.component)
          /\ out' = IF l.level < r THEN Nobody
                    ELSE [record |-> l, by |-> judge, until |-> Len(past)]
  BY DEF Levels!Handle
<1>2. l # Nobody /\ past' = past
  BY DEF Levels!Handle
<1>3. Passed(l)
  BY <1>2 DEF LevelsInv
<1>4. CASE l.level < r
  BY <1>1, <1>4 DEF Levels!LevelsInForce
<1>5. CASE ~(l.level < r)
  <2> DEFINE o == [record |-> l, by |-> judge, until |-> Len(past)]
  <2>1. out' = o
    BY <1>1, <1>5
  <2>2. o.record = l /\ o.by = judge /\ o.until = Len(past) /\ DOMAIN o = {"record", "by", "until"}
    OBVIOUS
  <2>3. o \notin Levels!Config
    <3>1. \A c \in Levels!Config : DOMAIN c = {"default", "levels"}
      BY DEF Levels!Config
    <3>2. "record" \notin {"default", "levels"}
      OBVIOUS
    <3> QED
      BY <2>2, <3>1, <3>2
  <2> HIDE DEF o
  <2>4. l.level >= r
    BY <1>3, <1>5, LevelsAreIntegers DEF Passed
  <2>5. Len(past) \in Nat /\ past[Len(past)] = levelConfig
    BY LenProperties DEF LevelsInv, LevelsTyped
  <2>6. Len(past) \in l.since..Len(past)
    BY <1>3, <2>5 DEF Passed
  <2> HIDE DEF l
  <2>7. \E k \in o.record.since..o.until :
           \E q \in Levels!RequiredBy(o.by, past[k], o.record.component) : o.record.level >= q
    BY <1>1, <2>2, <2>4, <2>5, <2>6
  <2>8. o.record.named =>
           \E q \in Levels!Required(past[o.record.since], o.record.component) : o.record.level >= q
    BY <1>3, <2>2 DEF Passed
  <2> QED
    BY <1>2, <2>1, <2>3, <2>7, <2>8 DEF Levels!LevelsInForce
<1> QED
  BY <1>4, <1>5

LEMMA LevelsStep == LevelsInv /\ [Levels!Next]_levelsVars => LevelsInv'
<1> SUFFICES ASSUME LevelsInv, [Levels!Next]_levelsVars PROVE LevelsInv'
  OBVIOUS
<1>a. /\ part \in [Goroutines -> LogLevels \cup {NoLevel}]
      /\ logging = [t \in Goroutines |-> logging[t]] /\ levelConfig.default \in LogLevels
  BY DEF LevelsInv, LevelsTyped, Levels!Config
<1>b. out' = Nobody => Levels!LevelsInForce'
  BY DEF Levels!LevelsInForce
<1>1. ASSUME NEW t \in Goroutines, Levels!Announce(t) PROVE LevelsInv'
  BY <1>1, <1>a, <1>b, LevelsKept DEF Levels!Announce
<1>2. ASSUME NEW t \in Goroutines, Levels!Change(t) PROVE LevelsInv'
  BY <1>2, LevelsChange
<1>3. ASSUME NEW t \in Goroutines, Levels!ReadDefault(t) PROVE LevelsInv'
  BY <1>3, <1>a, <1>b, LevelsKept DEF Levels!ReadDefault
<1>4. ASSUME NEW t \in Goroutines, Levels!CopyLevels(t) PROVE LevelsInv'
  <2>1. Levels!LevelsInForce'
    BY <1>4, ConfigAnswered
  <2> QED
    BY <1>4, <1>a, <2>1, LevelsKept DEF Levels!CopyLevels
<1>5. ASSUME NEW t \in Goroutines, Levels!Ask(t) PROVE LevelsInv'
  <2>1. PICK c \in Components, named \in BOOLEAN, given \in LogLevels :
            /\ \E r \in Levels!Required(levelConfig, IF named THEN c ELSE Unnamed) : given >= r
            /\ logging' = [logging EXCEPT ![t] = [component |-> c, named |-> named,
                                                  level |-> given, since |-> Len(past)]]
    BY <1>5 DEF Levels!Ask
  <2> DEFINE l == [component |-> c, named |-> named, level |-> given, since |-> Len(past)]
  <2>2. Passed(l)
    <3>1. l.component = c /\ l.named = named /\ l.level = given /\ l.since = Len(past)
      OBVIOUS
    <3>2. Len(past) \in 1..Len(past) /\ past[Len(past)] = levelConfig
      BY LenProperties DEF LevelsInv, LevelsTyped
    <3> HIDE DEF l
    <3>3. l.named => \E r \in Levels!Required(past[l.since], l.component) : l.level >= r
      BY <2>1, <3>1, <3>2
    <3> QED
      BY <3>1, <3>2, <3>3 DEF Passed
  <2>3. logging' = [logging EXCEPT ![t] = l]
    BY <2>1
  <2> HIDE DEF l
  <2>4. /\ logging' = [r \in Goroutines |-> logging'[r]]
        /\ \A r \in Goroutines : logging'[r] \in {logging[r], Nobody} \/ Passed(logging'[r])
    BY <1>a, <2>2, <2>3
  <2>5. out' = Nobody /\ UNCHANGED <<levelConfig, past, part>>
    BY <1>5 DEF Levels!Ask
  <2> QED
    BY <1>a, <1>b, <2>4, <2>5, LevelsKept
<1>6. ASSUME NEW t \in Goroutines, Levels!Handle(t) PROVE LevelsInv'
  <2>1. Levels!LevelsInForce'
    BY <1>6, RecordLetThrough
  <2> QED
    BY <1>6, <1>a, <2>1, LevelsKept DEF Levels!Handle
<1>7. CASE UNCHANGED levelsVars
  BY <1>7 DEF levelsVars, LevelsInv, LevelsTyped, Passed, Levels!LevelsInForce
<1> QED
  BY <1>1, <1>2, <1>3, <1>4, <1>5, <1>6, <1>7 DEF Levels!Next

(* GetConfig answers a configuration that was in force, and nothing is     *)
(* logged below every level in force on its way, nor below its own.        *)
THEOREM LevelsWereInForce == Spec => []LevelsInForce
<1>1. LevelsInv => LevelsInForce
  BY DEF LevelsInv, LevelsInForce
<1>2. Init => LevelsInv
  BY BeginsAll, LevelsInit
<1>3. LevelsInv /\ [Next]_vars => LevelsInv'
  BY StepOfOne, LevelsStep
<1> QED
  BY <1>1, <1>2, <1>3, PTL DEF Spec

-----------------------------------------------------------------------------
(* The server.  What it read and is not answered is in a tool, was blank,  *)
(* or is the line discarded; and while a tool runs the backend is open.    *)

Failing == {"failed", "panicked", "killed"}

Replies ==
    [to : Requests, code : Process!Immediate \cup {Result, "InternalError", "none"},
     status : {"line", "200", "4xx", "500"}]

(* The requests read that are to have an answer.                           *)
Owed == {r \in Requests : kind[r] \notin {"unsent", "blank"} /\ r \notin RowsIn(inbox)}

ProcessTyped ==
    /\ transport \in {"http", "stdio"}
    /\ kind \in [Requests -> Process!Kinds(transport) \cup {"unsent"}]
    /\ answers \in Seq(Replies) /\ IsFiniteSet(Process!Answered)

ProcessQueues ==
    /\ inbox \in Seq(Requests) /\ NoRowTwice(inbox)
    /\ \A r \in RowsIn(inbox) : kind[r] # "unsent"
    /\ busy \subseteq Requests
    /\ \A r \in busy : kind[r] = "tool" /\ r \notin RowsIn(inbox)

ProcessPhases ==
    /\ phase \in {"starting", "returned", "exited", "panicked"} => busy = {}
    /\ phase \in {"starting", "serving", "draining"} => discarded = {}
    /\ phase \in {"serving", "draining"} => backend = "open"
    /\ phase = "failed" => busy = {} \/ backend = "open"
    /\ transport = "stdio" => \A r, s \in busy : r = s
    /\ phase \in Failing \cup {"starting", "serving", "draining", "returned", "exited"}

ProcessAccounts ==
    phase \notin Failing =>
        /\ Process!Answered = Owed \ (discarded \cup busy)
        /\ Len(answers) = Cardinality(Process!Answered)

ProcessInv == ProcessTyped /\ ProcessQueues /\ ProcessPhases /\ ProcessAccounts

(* What may become of a request is none of the words for other states.     *)
LEMMA KindsApart ==
    /\ Process!Immediate \cap {"tool", "blank", "unsent"} = {}
    /\ \A t : "unsent" \notin Process!Kinds(t)
    /\ "blank" \notin Process!Kinds("http")
<1>1. Result \notin {"unsent", "tool", "blank", "long", "unfit"}
  BY ComponentsAssumption DEF Process!ServerAssumption
<1>2. \A f : Process!HandleRequest(f) \in
                 {"InvalidRequest", Result, "tool", "InvalidParams", "MethodNotFound"}
  BY DEF Process!HandleRequest
<1>3. Process!Immediate \subseteq
          {"ParseError", "InvalidRequest", Result, "InvalidParams", "MethodNotFound"}
  BY <1>2 DEF Process!Immediate
<1> QED
  BY <1>1, <1>3 DEF Process!Kinds

LEMMA ProcessInit == Process!Init => ProcessInv
<1> SUFFICES ASSUME Process!Init PROVE ProcessInv
  OBVIOUS
<1>1. answers = <<>> /\ inbox = <<>> /\ DOMAIN <<>> = {} /\ Len(<<>>) = 0
  BY DEF Process!Init
<1>2. Process!Answered = {} /\ RowsIn(inbox) = {} /\ NoRowTwice(inbox)
  BY <1>1 DEF Process!Answered, RowsIn, NoRowTwice
<1>3. IsFiniteSet({}) /\ Cardinality({}) = 0
  BY FS_EmptySet
<1>4. Owed = {}
  BY DEF Owed, Process!Init
<1>5. ProcessTyped
  BY <1>1, <1>2, <1>3 DEF ProcessTyped, Process!Init
<1>6. ProcessQueues
  BY <1>1, <1>2 DEF ProcessQueues, Process!Init
<1>7. ProcessPhases
  BY DEF ProcessPhases, Process!Init
<1>8. ProcessAccounts
  BY <1>1, <1>2, <1>3, <1>4 DEF ProcessAccounts, Process!Init
<1> QED
  BY <1>5, <1>6, <1>7, <1>8 DEF ProcessInv

(* An answer more.                                                         *)
LEMMA AnswerCounts ==
    ASSUME ProcessTyped, NEW r \in Requests,
           NEW code \in Process!Immediate \cup {Result, "InternalError", "none"},
           NEW status \in {"line", "200", "4xx", "500"},
           Process!Answer(r, code, status)
    PROVE  /\ answers' \in Seq(Replies) /\ Len(answers') = Len(answers) + 1
           /\ Process!Answered' = Process!Answered \cup {r}
           /\ IsFiniteSet(Process!Answered')
           /\ r \notin Process!Answered =>
                 Cardinality(Process!Answered') = Cardinality(Process!Answered) + 1
<1> DEFINE a == [to |-> r, code |-> code, status |-> status]
<1>1. a \in Replies /\ a.to = r
  BY DEF Replies
<1>2. answers' = Append(answers, a) /\ answers \in Seq(Replies)
  BY DEF Process!Answer, ProcessTyped
<1> HIDE DEF a
<1>3. /\ answers' \in Seq(Replies) /\ Len(answers') = Len(answers) + 1
      /\ Len(answers) \in Nat
      /\ DOMAIN answers = 1..Len(answers) /\ DOMAIN answers' = 1..(Len(answers) + 1)
      /\ answers'[Len(answers) + 1] = a
      /\ \A k \in DOMAIN answers : answers'[k] = answers[k]
  BY <1>1, <1>2, RowsOfAppend
<1>4. 1..(Len(answers) + 1) = 1..Len(answers) \cup {Len(answers) + 1}
  BY <1>3
<1>5. Process!Answered' = Process!Answered \cup {r}
  BY <1>1, <1>3, <1>4 DEF Process!Answered
<1>6. IsFiniteSet(Process!Answered)
  BY DEF ProcessTyped
<1> QED
  BY <1>3, <1>5, <1>6, FS_AddElement

(* The steps of the process itself.                                        *)
LEMMA ProcessQuiet ==
    ASSUME ProcessInv, UNCHANGED <<transport, kind, inbox, busy, answers, discarded>>,
           phase \in Failing => phase' \in Failing, ProcessPhases'
    PROVE  ProcessInv'
<1>1. ProcessTyped' /\ ProcessQueues'
  BY DEF ProcessInv, ProcessTyped, ProcessQueues, Process!Answered
<1>2. Owed' = Owed /\ Process!Answered' = Process!Answered
  BY DEF Owed, Process!Answered
<1>3. ProcessAccounts'
  BY <1>2 DEF ProcessInv, ProcessAccounts
<1> QED
  BY <1>1, <1>3 DEF ProcessInv

LEMMA MainSteps ==
    ASSUME ProcessInv,
           \/ Process!Start \/ Process!EndOfInput \/ Process!StopListening \/ Process!Drained
           \/ Process!CloseBackend \/ Process!ShutdownLog \/ Process!Exit
           \/ Process!CloseInput \/ Process!Signal \/ Process!ListenFails
           \/ UNCHANGED serverVars
    PROVE  ProcessInv'
<1> USE DEF ProcessPhases, Failing
<1>0. ProcessPhases
  BY DEF ProcessInv
<1>1. CASE Process!Start
  BY <1>0, <1>1, ProcessQuiet DEF Process!Start
<1>2. CASE Process!EndOfInput
  BY <1>0, <1>2, ProcessQuiet DEF Process!EndOfInput
<1>3. CASE Process!StopListening
  BY <1>0, <1>3, ProcessQuiet DEF Process!StopListening
<1>4. CASE Process!Drained
  BY <1>0, <1>4, ProcessQuiet DEF Process!Drained
<1>5. CASE Process!CloseBackend
  BY <1>0, <1>5, ProcessQuiet DEF Process!CloseBackend
<1>6. CASE Process!ShutdownLog
  BY <1>0, <1>6, ProcessQuiet DEF Process!ShutdownLog
<1>7. CASE Process!Exit
  BY <1>0, <1>7, ProcessQuiet DEF Process!Exit
<1>8. CASE Process!CloseInput
  BY <1>0, <1>8, ProcessQuiet DEF Process!CloseInput
<1>9. CASE Process!Signal
  BY <1>0, <1>9, ProcessQuiet DEF Process!Signal
<1>10. CASE Process!ListenFails
  BY <1>0, <1>10, ProcessQuiet DEF Process!ListenFails
<1>11. CASE UNCHANGED serverVars
  BY <1>0, <1>11, ProcessQuiet DEF serverVars
<1> QED
  BY <1>1, <1>2, <1>3, <1>4, <1>5, <1>6, <1>7, <1>8, <1>9, <1>10, <1>11

LEMMA RequestSent ==
    ASSUME ProcessInv, NEW r \in Requests, Process!Send(r)
    PROVE  ProcessInv'
<1>1. PICK k \in Process!Kinds(transport) : kind' = [kind EXCEPT ![r] = k]
  BY DEF Process!Send
<1>2. /\ kind[r] = "unsent" /\ inbox' = Append(inbox, r)
      /\ UNCHANGED <<transport, phase, busy, answers, discarded, backend>>
  BY DEF Process!Send
<1>3. /\ kind \in [Requests -> Process!Kinds(transport) \cup {"unsent"}]
      /\ inbox \in Seq(Requests) /\ NoRowTwice(inbox) /\ r \notin RowsIn(inbox) /\ r \notin busy
      /\ busy \subseteq Requests
  BY <1>2 DEF ProcessInv, ProcessTyped, ProcessQueues
<1>4. k # "unsent"
  BY KindsApart
<1>5. inbox' \in Seq(Requests) /\ NoRowTwice(inbox') /\ RowsIn(inbox') = RowsIn(inbox) \cup {r}
  BY <1>2, <1>3, AppendedRow, AppendProperties
<1>6. RowsIn(inbox) \subseteq Requests
  BY <1>3, LenProperties, ElementOfSeq DEF RowsIn
<1>7. kind'[r] = k /\ \A q \in Requests \ {r} : kind'[q] = kind[q]
  BY <1>1, <1>3
<1>8. ProcessTyped'
  BY <1>1, <1>2, <1>3 DEF ProcessInv, ProcessTyped, Process!Answered
<1>9. ProcessQueues'
  BY <1>2, <1>3, <1>4, <1>5, <1>6, <1>7 DEF ProcessInv, ProcessQueues
<1>10. Owed' = Owed
  BY <1>2, <1>5, <1>7 DEF Owed
<1>11. Process!Answered' = Process!Answered
  BY <1>2 DEF Process!Answered
<1>12. ProcessPhases' /\ ProcessAccounts'
  BY <1>2, <1>10, <1>11 DEF ProcessInv, ProcessPhases, ProcessAccounts
<1> QED
  BY <1>8, <1>9, <1>12 DEF ProcessInv

(* A request is read: it becomes owed an answer, unless it is blank.       *)
LEMMA RequestTaken ==
    ASSUME ProcessInv, NEW r \in RowsIn(inbox), kind' = kind,
           RowsIn(inbox') = RowsIn(inbox) \ {r}
    PROVE  /\ r \in Requests /\ r \notin Owed /\ r \notin busy
           /\ Owed' = IF kind[r] = "blank" THEN Owed ELSE Owed \cup {r}
<1>1. r \in Requests
  BY LenProperties, ElementOfSeq DEF RowsIn, ProcessInv, ProcessQueues
<1> QED
  BY <1>1 DEF Owed, ProcessInv, ProcessQueues

(* ... and what comes of it.                                               *)
LEMMA RequestHandled ==
    ASSUME ProcessInv, NEW r \in RowsIn(inbox), phase = "serving",
           UNCHANGED <<transport, kind>>,
           inbox' \in Seq(Requests), NoRowTwice(inbox'), RowsIn(inbox') = RowsIn(inbox) \ {r},
           ProcessPhases',
           \/ /\ \E code \in Process!Immediate \cup {Result, "InternalError", "none"},
                    status \in {"line", "200", "4xx", "500"} : Process!Answer(r, code, status)
              /\ kind[r] # "blank" /\ UNCHANGED <<busy, discarded, phase>>
           \/ kind[r] = "tool" /\ busy' = busy \cup {r} /\ UNCHANGED <<answers, discarded, phase>>
           \/ kind[r] = "blank" /\ UNCHANGED <<answers, busy, discarded, phase>>
           \/ discarded' = {r} /\ phase' = "returned" /\ busy = {} /\ UNCHANGED <<answers, busy>>
           \/ phase' = "failed" /\ UNCHANGED <<answers, busy>>
    PROVE  ProcessInv'
<1>1. /\ r \in Requests /\ r \notin Owed /\ r \notin busy
      /\ Owed' = IF kind[r] = "blank" THEN Owed ELSE Owed \cup {r}
  BY RequestTaken
<1>2. /\ Process!Answered = Owed \ busy /\ Len(answers) = Cardinality(Process!Answered)
      /\ discarded = {} /\ ProcessTyped /\ ProcessQueues
  BY DEF ProcessInv, ProcessAccounts, ProcessPhases, Failing
<1>3. r \notin Process!Answered
  BY <1>1, <1>2
<1>4. /\ Cardinality(Process!Answered) \in Nat
      /\ UNCHANGED answers => Process!Answered' = Process!Answered
  BY <1>2, FS_CardinalityType DEF ProcessTyped, Process!Answered
<1>5. CASE /\ \E code \in Process!Immediate \cup {Result, "InternalError", "none"},
                 status \in {"line", "200", "4xx", "500"} : Process!Answer(r, code, status)
           /\ kind[r] # "blank" /\ UNCHANGED <<busy, discarded, phase>>
  <2>1. /\ answers' \in Seq(Replies) /\ Len(answers') = Len(answers) + 1
        /\ Process!Answered' = Process!Answered \cup {r}
        /\ IsFiniteSet(Process!Answered')
        /\ Cardinality(Process!Answered') = Cardinality(Process!Answered) + 1
    <3>1. PICK code \in Process!Immediate \cup {Result, "InternalError", "none"},
               status \in {"line", "200", "4xx", "500"} : Process!Answer(r, code, status)
      BY <1>5
    <3>2. ProcessTyped /\ r \in Requests
      BY <1>1, <1>2
    <3>3. /\ answers' \in Seq(Replies) /\ Len(answers') = Len(answers) + 1
          /\ Process!Answered' = Process!Answered \cup {r}
          /\ IsFiniteSet(Process!Answered')
          /\ r \notin Process!Answered =>
                Cardinality(Process!Answered') = Cardinality(Process!Answered) + 1
      BY <3>1, <3>2, AnswerCounts
    <3> QED
      BY <1>3, <3>3
  <2>2. ProcessTyped' /\ ProcessQueues'
    BY <1>2, <1>5, <2>1 DEF ProcessTyped, ProcessQueues
  <2>3. ProcessAccounts'
    BY <1>1, <1>2, <1>5, <2>1 DEF ProcessAccounts
  <2> QED
    BY <2>2, <2>3 DEF ProcessInv
<1>6. CASE kind[r] = "tool" /\ busy' = busy \cup {r} /\ UNCHANGED <<answers, discarded, phase>>
  <2>1. ProcessTyped' /\ ProcessQueues'
    BY <1>1, <1>2, <1>4, <1>6 DEF ProcessTyped, ProcessQueues
  <2>2. ProcessAccounts'
    BY <1>1, <1>2, <1>4, <1>6 DEF ProcessAccounts
  <2> QED
    BY <2>1, <2>2 DEF ProcessInv
<1>7. CASE kind[r] = "blank" /\ UNCHANGED <<answers, busy, discarded, phase>>
  <2>1. ProcessTyped' /\ ProcessQueues'
    BY <1>1, <1>2, <1>4, <1>7 DEF ProcessTyped, ProcessQueues
  <2>2. ProcessAccounts'
    BY <1>1, <1>2, <1>4, <1>7 DEF ProcessAccounts
  <2> QED
    BY <2>1, <2>2 DEF ProcessInv
<1>8. CASE discarded' = {r} /\ phase' = "returned" /\ busy = {} /\ UNCHANGED <<answers, busy>>
  <2>1. ProcessTyped' /\ ProcessQueues'
    BY <1>1, <1>2, <1>4, <1>8 DEF ProcessTyped, ProcessQueues
  <2>2. ProcessAccounts'
    BY <1>1, <1>2, <1>4, <1>8 DEF ProcessAccounts
  <2> QED
    BY <2>1, <2>2 DEF ProcessInv
<1>9. CASE phase' = "failed" /\ UNCHANGED <<answers, busy>>
  <2>1. ProcessTyped' /\ ProcessQueues'
    BY <1>1, <1>2, <1>4, <1>9 DEF ProcessTyped, ProcessQueues
  <2>2. ProcessAccounts'
    BY <1>9 DEF ProcessAccounts, Failing
  <2> QED
    BY <2>1, <2>2 DEF ProcessInv
<1> QED
  BY <1>5, <1>6, <1>7, <1>8, <1>9

LEMMA StatusTyped == \A code : Process!Status(code) \in {"line", "200", "4xx", "500"}
  BY DEF Process!Status

LEMMA LineScanned == ASSUME ProcessInv, Process!Scan PROVE ProcessInv'
<1> DEFINE r == Head(inbox)
<1>1. inbox \in Seq(Requests) /\ inbox # <<>> /\ NoRowTwice(inbox) /\ inbox' = Tail(inbox)
  BY DEF ProcessInv, ProcessQueues, Process!Scan
<1>2. /\ r \in RowsIn(inbox) /\ inbox' \in Seq(Requests) /\ NoRowTwice(inbox')
      /\ RowsIn(inbox') = RowsIn(inbox) \ {r}
  BY <1>1, TailRows
<1>3. /\ transport = "stdio" /\ phase = "serving" /\ busy = {} /\ backend = "open"
      /\ discarded = {} /\ UNCHANGED <<transport, kind, backend>>
  BY DEF Process!Scan, ProcessInv, ProcessPhases
<1>4. \/ phase' = "failed" /\ UNCHANGED <<answers, busy, discarded>>
      \/ phase' = "returned" /\ discarded' = {r} /\ UNCHANGED <<answers, busy>>
      \/ kind[r] = "blank" /\ UNCHANGED <<answers, busy, discarded, phase>>
      \/ kind[r] \in Process!Immediate /\ Process!Reply(r) /\ UNCHANGED <<busy, discarded, phase>>
      \/ kind[r] = "tool" /\ busy' = {r} /\ UNCHANGED <<answers, discarded, phase>>
  BY DEF Process!Scan
<1> HIDE DEF r
<1>5. ProcessPhases'
  BY <1>3, <1>4 DEF ProcessPhases, Failing
<1>6. kind[r] \in Process!Immediate =>
          /\ kind[r] # "blank"
          /\ kind[r] \in Process!Immediate \cup {Result, "InternalError", "none"}
          /\ Process!Status(kind[r]) \in {"line", "200", "4xx", "500"}
  BY KindsApart, StatusTyped
<1> QED
  BY <1>2, <1>3, <1>4, <1>5, <1>6, RequestHandled DEF Process!Reply

LEMMA RequestReceived ==
    ASSUME ProcessInv, NEW r \in Requests, Process!Receive(r)
    PROVE  ProcessInv'
<1>1. PICK i \in DOMAIN inbox : inbox[i] = r /\ inbox' = Process!RemoveAt(inbox, i)
  BY DEF Process!Receive
<1>2. inbox \in Seq(Requests) /\ NoRowTwice(inbox) /\ DOMAIN inbox = 1..Len(inbox)
  BY LenProperties DEF ProcessInv, ProcessQueues
<1>3. inbox' = Without(inbox, i)
  BY <1>1 DEF Process!RemoveAt, Without
<1>4. /\ r \in RowsIn(inbox) /\ inbox' \in Seq(Requests) /\ NoRowTwice(inbox')
      /\ RowsIn(inbox') = RowsIn(inbox) \ {r}
  <2>1. /\ Without(inbox, i) \in Seq(Requests) /\ NoRowTwice(Without(inbox, i))
        /\ RowsIn(Without(inbox, i)) = RowsIn(inbox) \ {inbox[i]}
    BY <1>2, RowRemoved
  <2>2. r \in RowsIn(inbox)
    BY <1>1 DEF RowsIn
  <2> QED
    BY <1>1, <1>3, <2>1, <2>2
<1>5. /\ transport = "http" /\ phase = "serving" /\ backend = "open" /\ discarded = {}
      /\ UNCHANGED <<transport, phase, kind, discarded, backend>>
  BY DEF Process!Receive, ProcessInv, ProcessPhases
<1>6. kind[r] # "blank"
  <2>1. kind[r] \in Process!Kinds("http") \cup {"unsent"}
    BY <1>5 DEF ProcessInv, ProcessTyped
  <2> QED
    BY <2>1, KindsApart
<1>7. ASSUME UNCHANGED busy,
             \E code \in Process!Immediate \cup {Result, "InternalError", "none"},
                status \in {"line", "200", "4xx", "500"} : Process!Answer(r, code, status)
      PROVE  ProcessInv'
  <2>1. ProcessPhases'
    BY <1>5, <1>7 DEF ProcessPhases, Failing
  <2> QED
    BY <1>4, <1>5, <1>6, <1>7, <2>1, RequestHandled
<1>8. CASE kind[r] = "tool" /\ busy' = busy \cup {r} /\ UNCHANGED answers
  <2>1. ProcessPhases'
    BY <1>5, <1>8 DEF ProcessPhases, Failing
  <2> QED
    BY <1>4, <1>5, <1>8, <2>1, RequestHandled
<1>9. \/ Process!Answer(r, "InternalError", "4xx") /\ UNCHANGED busy
      \/ kind[r] \in Process!Immediate /\ Process!Reply(r) /\ UNCHANGED busy
      \/ kind[r] = "tool" /\ busy' = busy \cup {r} /\ UNCHANGED answers
      \/ Process!Answer(r, "InternalError", "200") /\ UNCHANGED busy
  BY DEF Process!Receive
<1> QED
  BY <1>7, <1>8, <1>9, StatusTyped DEF Process!Reply

(* The tool of a request ends, or takes the process with it.               *)
LEMMA ToolEnds ==
    ASSUME ProcessInv, NEW r \in Requests, Process!Tool(r)
    PROVE  ProcessInv'
<1>1. /\ r \in busy /\ busy' = busy \ {r} /\ phase \notin {"exited", "killed"}
      /\ UNCHANGED <<transport, kind, inbox, discarded, backend>>
  BY DEF Process!Tool, Process!ToolReturns, Process!ToolPanics, Process!Alive
<1>2. ProcessTyped /\ ProcessQueues /\ ProcessPhases
  BY DEF ProcessInv
<1>3. Owed' = Owed /\ r \in Owed
  BY <1>1, <1>2 DEF Owed, ProcessQueues
<1>4. ProcessQueues'
  BY <1>1, <1>2 DEF ProcessQueues
<1>5. \/ /\ \E code \in Process!Immediate \cup {Result, "InternalError", "none"},
               status \in {"line", "200", "4xx", "500"} : Process!Answer(r, code, status)
         /\ UNCHANGED phase
      \/ transport = "stdio" /\ phase' = "panicked" /\ UNCHANGED answers
  BY StatusTyped DEF Process!Tool, Process!ToolReturns, Process!ToolPanics
<1>6. CASE /\ \E code \in Process!Immediate \cup {Result, "InternalError", "none"},
                 status \in {"line", "200", "4xx", "500"} : Process!Answer(r, code, status)
           /\ UNCHANGED phase
  <2>1. /\ answers' \in Seq(Replies) /\ Len(answers') = Len(answers) + 1
        /\ Process!Answered' = Process!Answered \cup {r}
        /\ IsFiniteSet(Process!Answered')
        /\ r \notin Process!Answered =>
              Cardinality(Process!Answered') = Cardinality(Process!Answered) + 1
    BY <1>2, <1>6, AnswerCounts
  <2>2. ProcessTyped'
    BY <1>1, <1>2, <2>1 DEF ProcessTyped
  <2>3. ProcessPhases'
    BY <1>1, <1>2, <1>6 DEF ProcessPhases
  <2>4. ProcessAccounts'
    <3> SUFFICES ASSUME phase \notin Failing
                 PROVE  /\ Process!Answered' = Owed \ (discarded \cup (busy \ {r}))
                        /\ Len(answers') = Cardinality(Process!Answered')
      BY <1>1, <1>3, <1>6 DEF ProcessAccounts
    <3>1. discarded = {}
      BY <1>1, <1>2 DEF ProcessPhases, Failing
    <3>2. Process!Answered = Owed \ busy /\ Len(answers) = Cardinality(Process!Answered)
      BY <3>1 DEF ProcessInv, ProcessAccounts
    <3> QED
      BY <1>1, <1>3, <2>1, <3>1, <3>2
  <2> QED
    BY <1>4, <2>2, <2>3, <2>4 DEF ProcessInv
<1>7. CASE transport = "stdio" /\ phase' = "panicked" /\ UNCHANGED answers
  <2>1. busy' = {}
    BY <1>1, <1>2, <1>7 DEF ProcessPhases
  <2>2. ProcessTyped'
    BY <1>1, <1>2, <1>7 DEF ProcessTyped, Process!Answered
  <2>3. ProcessPhases' /\ ProcessAccounts'
    BY <1>1, <1>2, <1>7, <2>1 DEF ProcessPhases, ProcessAccounts, Failing
  <2> QED
    BY <1>4, <2>2, <2>3 DEF ProcessInv
<1> QED
  BY <1>5, <1>6, <1>7

LEMMA ProcessStep == ProcessInv /\ [Process!Next]_serverVars => ProcessInv'
  BY MainSteps, RequestSent, LineScanned, RequestReceived, ToolEnds
  DEF Process!Next, Process!Main

(* A server that ends with exit code 0 has answered, once each, all the    *)
(* requests it read; and no tool runs on a backend that is closed.         *)
THEOREM ServerEndsOrderly == Spec => []OrderlyEnd
<1>1. ProcessInv => OrderlyEnd
  <2> SUFFICES ASSUME ProcessInv PROVE OrderlyEnd
    OBVIOUS
  <2>1. Process!Read = {r \in Requests : kind[r] # "unsent" /\ r \notin RowsIn(inbox)}
    BY DEF Process!Read, Process!Sent, Process!Range, RowsIn
  <2>2. Process!Cardinality(Process!Answered) = Cardinality(Process!Answered)
    BY DEF Process!Cardinality, Cardinality
  <2>3. Process!GracefulExit
    <3> SUFFICES ASSUME phase = "exited"
                 PROVE  /\ Process!Answered = {r \in Process!Read : kind[r] # "blank"} \ discarded
                        /\ Len(answers) = Process!Cardinality(Process!Answered)
      BY DEF Process!GracefulExit
    <3>1. /\ busy = {}
          /\ Process!Answered = Owed \ (discarded \cup busy)
          /\ Len(answers) = Cardinality(Process!Answered)
      BY DEF ProcessInv, ProcessPhases, ProcessAccounts, Failing
    <3>2. {r \in Process!Read : kind[r] # "blank"} = Owed
      BY <2>1 DEF Owed
    <3> QED
      BY <2>2, <3>1, <3>2
  <2>4. Process!BackendOutlivesRequests
    BY DEF ProcessInv, ProcessPhases, Failing, Process!BackendOutlivesRequests, Process!Alive
  <2> QED
    BY <2>3, <2>4 DEF OrderlyEnd
<1>2. Init => ProcessInv
  BY BeginsAll, ProcessInit
<1>3. ProcessInv /\ [Next]_vars => ProcessInv'
  BY StepOfOne, ProcessStep
<1> QED
  BY <1>1, <1>2, <1>3, PTL DEF Spec

-----------------------------------------------------------------------------
(* The sampler of bursts.  Records let through as part of a burst are those*)
(* of the window that runs, at most as many as its counter says; and those *)
(* of the minute before it, at most a burst, because the windows before it *)
(* ended earlier.                                                          *)

Since(w) == {b \in bursts : b.at >= w}
MinuteBefore(w) == {b \in bursts : b.at < w /\ b.at + Minute >= w}

BurstsTyped ==
    /\ Bursts!TypeOK
    /\ IsFiniteSet(bursts) /\ IsFiniteSet(passing)
    /\ window <= samplerNow
    /\ \A b \in bursts : b.n < totals.seen /\ b.at <= samplerNow /\ b.at <= window + Minute

BurstsInv ==
    /\ BurstsTyped
    /\ Cardinality(Since(window)) <= counter
    /\ Cardinality(MinuteBefore(window)) <= BurstSize
    /\ Bursts!BurstsAreLimited

LEMMA BurstBounds ==
    BurstSize \in Nat /\ Minute \in Nat /\ MaxBurstRecords \in Nat /\ MaxBurstTime \in Nat
  BY ComponentsAssumption DEF Bursts!SamplerAssumption

LEMMA CountedAlike == \A S : Bursts!Cardinality(S) = Cardinality(S)
  BY DEF Bursts!Cardinality, Cardinality

(* Of a finite set, what is not in one part is in the other.               *)
LEMMA InTwoParts ==
    ASSUME NEW S, IsFiniteSet(S), NEW A, NEW B, A \subseteq S, B \subseteq S,
           NEW T, T \subseteq A \cup B
    PROVE  /\ Cardinality(T) <= Cardinality(A) + Cardinality(B)
           /\ Cardinality(T) \in Nat /\ Cardinality(A) \in Nat /\ Cardinality(B) \in Nat
<1>1. IsFiniteSet(A) /\ IsFiniteSet(B) /\ T \subseteq S
  BY FS_Subset
<1>2. /\ Cardinality(A \cup B) = Cardinality(A) + Cardinality(B) - Cardinality(A \cap B)
      /\ IsFiniteSet(A \cup B)
  BY <1>1, FS_Union
<1>3. IsFiniteSet(A \cap B) /\ IsFiniteSet(T)
  BY <1>1, FS_Subset
<1>4. Cardinality(T) <= Cardinality(A \cup B)
  BY <1>2, FS_Subset
<1>5. /\ Cardinality(A) \in Nat /\ Cardinality(B) \in Nat /\ Cardinality(A \cap B) \in Nat
      /\ Cardinality(T) \in Nat
  BY <1>1, <1>3, FS_CardinalityType
<1> QED
  BY <1>2, <1>4, <1>5

LEMMA BurstsInit == Bursts!Init => BurstsInv
<1> SUFFICES ASSUME Bursts!Init PROVE BurstsInv
  OBVIOUS
<1>1. /\ samplerNow = 0 /\ window = 0 /\ counter = 0 /\ passed = 0
      /\ totals = [seen |-> 0, sampled |-> 0, dropped |-> 0] /\ passing = {} /\ bursts = {}
      /\ samplerConfig \in [enabled : BOOLEAN, alwaysErrors : BOOLEAN]
  BY DEF Bursts!Init
<1>2. BurstSize \in Nat /\ Minute \in Nat /\ MaxBurstTime \in Nat
  BY BurstBounds
<1>3. IsFiniteSet({}) /\ Cardinality({}) = 0 /\ Bursts!Cardinality({}) = 0
  BY FS_EmptySet, CountedAlike
<1>4. BurstsTyped
  BY <1>1, <1>2, <1>3 DEF BurstsTyped, Bursts!TypeOK
<1>5. Since(window) = {} /\ MinuteBefore(window) = {}
  BY <1>1 DEF Since, MinuteBefore
<1>6. \A t \in 0..MaxBurstTime : {b \in bursts : b.at \in t..(t + Minute)} = {}
  BY <1>1
<1>7. Bursts!BurstsAreLimited
  BY <1>1, <1>2, <1>3, <1>6 DEF Bursts!BurstsAreLimited
<1> QED
  BY <1>1, <1>2, <1>3, <1>4, <1>5, <1>7 DEF BurstsInv

(* The window a record finds: the one there is, or one that begins now,    *)
(* which leaves nothing of the last but one within its minute.             *)
LEMMA WindowFound ==
    ASSUME BurstsInv, NEW over \in BOOLEAN, over <=> samplerNow - window > Minute,
           NEW w, w = IF over THEN samplerNow ELSE window,
           NEW k, k = IF over THEN 0 ELSE counter
    PROVE  /\ w \in 0..MaxBurstTime /\ w <= samplerNow /\ samplerNow <= w + Minute
           /\ k \in 0..BurstSize
           /\ \A b \in bursts : b.at <= w + Minute
           /\ Cardinality(Since(w)) <= k
           /\ Cardinality(MinuteBefore(w)) <= BurstSize
<1>1. /\ samplerNow \in 0..MaxBurstTime /\ window \in 0..MaxBurstTime /\ window <= samplerNow
      /\ counter \in 0..BurstSize
      /\ \A b \in bursts : b.at \in Nat /\ b.at <= samplerNow /\ b.at <= window + Minute
      /\ IsFiniteSet(bursts)
  BY BurstBounds DEF BurstsInv, BurstsTyped, Bursts!TypeOK
<1>2. CASE ~over
  BY <1>1, <1>2, BurstBounds DEF BurstsInv
<1>3. CASE over
  <2>1. w = samplerNow /\ k = 0 /\ samplerNow > window + Minute
    BY <1>1, <1>3, BurstBounds
  <2>2. Since(w) = {}
    BY <1>1, <2>1, BurstBounds DEF Since
  <2>3. Cardinality(Since(w)) = 0
    BY <2>2, FS_EmptySet
  <2>4. MinuteBefore(w) \subseteq Since(window) /\ Since(window) \subseteq bursts
    BY <1>1, <2>1, BurstBounds DEF MinuteBefore, Since
  <2>5. IsFiniteSet(Since(window))
    BY <1>1, <2>4, FS_Subset
  <2>6. /\ Cardinality(MinuteBefore(w)) <= Cardinality(Since(window))
        /\ IsFiniteSet(MinuteBefore(w))
    BY <2>4, <2>5, FS_Subset
  <2>7. Cardinality(MinuteBefore(w)) \in Nat /\ Cardinality(Since(window)) \in Nat
    BY <2>5, <2>6, FS_CardinalityType
  <2>8. Cardinality(Since(window)) <= counter
    BY DEF BurstsInv
  <2> QED
    BY <1>1, <2>1, <2>3, <2>6, <2>7, <2>8, BurstBounds
<1> QED
  BY <1>2, <1>3

(* The minute around a moment t up to now is in the window and the minute  *)
(* before it.                                                              *)
LEMMA TwoBursts ==
    ASSUME NEW B, IsFiniteSet(B), NEW w \in Nat, NEW m \in Nat, m <= w + Minute, w <= m,
           \A b \in B : b.at \in Nat /\ b.at <= m,
           Cardinality({b \in B : b.at >= w}) <= BurstSize,
           Cardinality({b \in B : b.at < w /\ b.at + Minute >= w}) <= BurstSize,
           NEW t \in Nat, t + Minute >= m
    PROVE  Bursts!Cardinality({b \in B : b.at \in t..(t + Minute)}) <= 2 * BurstSize
<1> DEFINE S == {b \in B : b.at >= w}
           M == {b \in B : b.at < w /\ b.at + Minute >= w}
           T == {b \in B : b.at \in t..(t + Minute)}
<1>1. T \subseteq S \cup M /\ S \subseteq B /\ M \subseteq B
  BY BurstBounds
<1>2. Cardinality(S) <= BurstSize /\ Cardinality(M) <= BurstSize
  OBVIOUS
<1> HIDE DEF S, M, T
<1>3. /\ Cardinality(T) <= Cardinality(S) + Cardinality(M)
      /\ Cardinality(T) \in Nat /\ Cardinality(S) \in Nat /\ Cardinality(M) \in Nat
  BY <1>1, InTwoParts
<1>4. Cardinality(T) <= 2 * BurstSize
  BY <1>2, <1>3, BurstBounds
<1> QED
  BY <1>4, CountedAlike DEF T

(* One more record is counted, and passed on or dropped.                   *)
LEMMA RecordCounted ==
    ASSUME BurstsInv, NEW how \in {"sampled", "dropped"}, Bursts!Seen(how),
           NEW l \in Goroutines, l \notin passing, passed' = passed,
           passing' = IF how = "sampled" THEN passing \cup {l} ELSE passing
    PROVE  /\ totals' \in [seen : Nat, sampled : Nat, dropped : Nat]
           /\ totals'.seen = totals.seen + 1
           /\ totals'.seen = totals'.sampled + totals'.dropped
           /\ totals'.sampled = passed' + Bursts!Cardinality(passing')
           /\ passing' \subseteq Goroutines /\ IsFiniteSet(passing')
<1>1. /\ totals \in [seen : Nat, sampled : Nat, dropped : Nat] /\ passed \in Nat
      /\ passing \subseteq Goroutines /\ IsFiniteSet(passing)
      /\ totals.seen = totals.sampled + totals.dropped
      /\ totals.sampled = passed + Cardinality(passing)
  BY CountedAlike DEF BurstsInv, BurstsTyped, Bursts!TypeOK, Bursts!BurstsAreLimited
<1>2. /\ Cardinality(passing) \in Nat
      /\ Cardinality(passing \cup {l}) = Cardinality(passing) + 1 /\ IsFiniteSet(passing \cup {l})
  BY <1>1, FS_CardinalityType, FS_AddElement
<1>3. CASE how = "sampled"
  <2>1. /\ totals' \in [seen : Nat, sampled : Nat, dropped : Nat]
        /\ totals'.seen = totals.seen + 1 /\ totals'.sampled = totals.sampled + 1
        /\ totals'.dropped = totals.dropped /\ passing' = passing \cup {l}
    <3>1. totals' = [totals EXCEPT !.seen = @ + 1, !.sampled = @ + 1]
      BY <1>3 DEF Bursts!Seen
    <3>2. totals \in [seen : Nat, sampled : Nat, dropped : Nat]
      BY <1>1
    <3>3. /\ totals' \in [seen : Nat, sampled : Nat, dropped : Nat]
          /\ totals'.seen = totals.seen + 1 /\ totals'.sampled = totals.sampled + 1
          /\ totals'.dropped = totals.dropped
      <4>1. totals' = [seen |-> totals.seen + 1, sampled |-> totals.sampled + 1, dropped |-> totals.dropped]
        BY <3>1, <3>2
      <4> QED
        BY <3>2, <4>1
    <3> QED
      BY <1>3, <3>3
  <2> QED
    BY <1>1, <1>2, <2>1, CountedAlike
<1>4. CASE how = "dropped"
  <2>1. /\ totals' \in [seen : Nat, sampled : Nat, dropped : Nat]
        /\ totals'.seen = totals.seen + 1 /\ totals'.sampled = totals.sampled
        /\ totals'.dropped = totals.dropped + 1 /\ passing' = passing
    <3>1. totals' = [totals EXCEPT !.seen = @ + 1, !.dropped = @ + 1]
      BY <1>4 DEF Bursts!Seen
    <3>2. totals \in [seen : Nat, sampled : Nat, dropped : Nat]
      BY <1>1
    <3>3. /\ totals' \in [seen : Nat, sampled : Nat, dropped : Nat]
          /\ totals'.seen = totals.seen + 1 /\ totals'.dropped = totals.dropped + 1
          /\ totals'.sampled = totals.sampled
      <4>1. totals' = [seen |-> totals.seen + 1, dropped |-> totals.dropped + 1, sampled |-> totals.sampled]
        BY <3>1, <3>2
      <4> QED
        BY <3>2, <4>1
    <3> QED
      BY <1>4, <3>3
  <2> QED
    BY <1>1, <1>2, <2>1, CountedAlike
<1> QED
  BY <1>3, <1>4

(* What Decide makes of window, counter and bursts for a record that is    *)
(* not exempt.                                                             *)
LEMMA BurstCounted ==
    ASSUME BurstsInv, NEW over \in BOOLEAN, over <=> samplerNow - window > Minute,
           NEW k, k = IF over THEN 0 ELSE counter,
           window' = IF over THEN samplerNow ELSE window,
           counter' = IF k < BurstSize THEN k + 1 ELSE k,
           bursts' = IF k < BurstSize
                     THEN bursts \cup {[n |-> totals.seen, at |-> samplerNow]} ELSE bursts,
           totals'.seen = totals.seen + 1, samplerNow' = samplerNow
    PROVE  /\ window' \in 0..MaxBurstTime /\ window' <= samplerNow' /\ counter' \in 0..BurstSize
           /\ bursts' \subseteq [n : Nat, at : 0..MaxBurstTime] /\ IsFiniteSet(bursts')
           /\ \A b \in bursts' : b.n < totals'.seen /\ b.at <= samplerNow'
                                 /\ b.at <= window' + Minute
           /\ Cardinality(Since(window)') <= counter'
           /\ Cardinality(MinuteBefore(window)') <= BurstSize
           /\ \A t \in 0..MaxBurstTime :
                 Bursts!Cardinality({b \in bursts' : b.at \in t..(t + Minute)}) <= 2 * BurstSize
<1> DEFINE new == [n |-> totals.seen, at |-> samplerNow]
           w == window'
<1>1. /\ w \in 0..MaxBurstTime /\ w <= samplerNow /\ samplerNow <= w + Minute
      /\ k \in 0..BurstSize
      /\ \A b \in bursts : b.at <= w + Minute
      /\ Cardinality(Since(w)) <= k
      /\ Cardinality(MinuteBefore(w)) <= BurstSize
  BY WindowFound
<1>2. /\ totals.seen \in Nat /\ samplerNow \in 0..MaxBurstTime
      /\ bursts \subseteq [n : Nat, at : 0..MaxBurstTime] /\ IsFiniteSet(bursts)
      /\ \A b \in bursts : b.n < totals.seen /\ b.at <= samplerNow
  BY DEF BurstsInv, BurstsTyped, Bursts!TypeOK
<1>3. new \in [n : Nat, at : 0..MaxBurstTime] /\ new.n = totals.seen /\ new.at = samplerNow
  BY <1>2
<1>4. new \notin bursts
  BY <1>2, <1>3
<1> HIDE DEF new, w
<1>5. /\ bursts' \subseteq [n : Nat, at : 0..MaxBurstTime]
      /\ \A b \in bursts' : b.n < totals'.seen /\ b.at <= samplerNow /\ b.at <= w + Minute
  BY <1>1, <1>2, <1>3 DEF new
<1>6. IsFiniteSet(bursts')
  BY <1>2, FS_AddElement DEF new
<1>7. /\ IsFiniteSet(Since(w)) /\ IsFiniteSet(MinuteBefore(w))
      /\ Cardinality(Since(w)) \in Nat
  <2>1. Since(w) \subseteq bursts /\ MinuteBefore(w) \subseteq bursts
    BY DEF Since, MinuteBefore
  <2> QED
    BY <1>2, <2>1, FS_Subset, FS_CardinalityType
<1>8. /\ Cardinality({b \in bursts' : b.at >= w}) <= counter'
      /\ Cardinality({b \in bursts' : b.at < w /\ b.at + Minute >= w}) <= BurstSize
      /\ counter' \in 0..BurstSize
  <2>1. CASE k < BurstSize
    <3>1. bursts' = bursts \cup {new} /\ counter' = k + 1
      BY <2>1 DEF new
    <3>2. /\ {b \in bursts' : b.at >= w} = Since(w) \cup {new}
          /\ {b \in bursts' : b.at < w /\ b.at + Minute >= w} = MinuteBefore(w)
          /\ new \notin Since(w)
      BY <1>1, <1>2, <1>3, <1>4, <3>1, BurstBounds DEF Since, MinuteBefore
    <3>3. Cardinality(Since(w) \cup {new}) = Cardinality(Since(w)) + 1
      BY <1>7, <3>2, FS_AddElement
    <3> QED
      <4>1. /\ Cardinality({b \in bursts' : b.at >= w}) = Cardinality(Since(w)) + 1
            /\ Cardinality({b \in bursts' : b.at < w /\ b.at + Minute >= w}) <= BurstSize
        BY <1>1, <3>2, <3>3
      <4>2. Cardinality(Since(w)) \in Nat /\ Cardinality(Since(w)) <= k
            /\ k \in 0..BurstSize /\ k < BurstSize
        BY <1>1, <1>7, <2>1
      <4> HIDE DEF Since
      <4>3. Cardinality(Since(w)) + 1 <= k + 1 /\ k + 1 \in 0..BurstSize
        BY <4>2, BurstBounds
      <4> QED
        BY <3>1, <4>1, <4>3
  <2>2. CASE ~(k < BurstSize)
    <3>1. bursts' = bursts /\ counter' = k
      BY <2>2
    <3> QED
      BY <1>1, <3>1 DEF Since, MinuteBefore
  <2> QED
    BY <2>1, <2>2
<1>9. ASSUME NEW t \in 0..MaxBurstTime
      PROVE  Bursts!Cardinality({b \in bursts' : b.at \in t..(t + Minute)}) <= 2 * BurstSize
  <2>1. CASE t + Minute >= samplerNow
    <3>1. \A b \in bursts' : b.at \in Nat /\ b.at <= samplerNow
      BY <1>5, BurstBounds
    <3>2. t \in Nat /\ w \in Nat /\ samplerNow \in Nat
      BY <1>1, <1>2, BurstBounds
    <3>3. Cardinality({b \in bursts' : b.at >= w}) <= BurstSize
      <4>1. {b \in bursts' : b.at >= w} \subseteq bursts'
        OBVIOUS
      <4>2. Cardinality({b \in bursts' : b.at >= w}) \in Nat
        BY <1>6, <4>1, FS_Subset, FS_CardinalityType
      <4> QED
        BY <1>8, <4>2, BurstBounds
    <3> QED
      BY <1>1, <1>6, <1>8, <2>1, <3>1, <3>2, <3>3, TwoBursts
  <2>2. CASE ~(t + Minute >= samplerNow)
    <3>1. {b \in bursts' : b.at \in t..(t + Minute)} = {b \in bursts : b.at \in t..(t + Minute)}
      BY <1>2, <1>3, <2>2, BurstBounds DEF new
    <3> QED
      BY <1>9, <3>1 DEF BurstsInv, Bursts!BurstsAreLimited
  <2> QED
    BY <2>1, <2>2
<1>10. /\ Since(window)' = {b \in bursts' : b.at >= w}
       /\ MinuteBefore(window)' = {b \in bursts' : b.at < w /\ b.at + Minute >= w}
  BY DEF Since, MinuteBefore, w
<1>11. w = window' /\ samplerNow' = samplerNow
  BY DEF w
<1> QED
  BY <1>1, <1>5, <1>6, <1>8, <1>9, <1>10, <1>11

(* What does not touch the window and the bursts keeps what is said of     *)
(* them.                                                                   *)
LEMMA WindowKept ==
    ASSUME BurstsInv, UNCHANGED <<window, counter, bursts, samplerConfig>>,
           samplerNow' \in 0..MaxBurstTime, samplerNow <= samplerNow',
           totals' \in [seen : Nat, sampled : Nat, dropped : Nat], totals.seen <= totals'.seen,
           totals'.seen = totals'.sampled + totals'.dropped,
           totals'.sampled = passed' + Bursts!Cardinality(passing'), passed' \in Nat,
           passing' \subseteq Goroutines, IsFiniteSet(passing')
    PROVE  BurstsInv'
<1>1. /\ samplerNow \in Nat /\ window \in Nat /\ totals.seen \in Nat
      /\ \A b \in bursts : b.n \in Nat /\ b.at \in Nat
  BY BurstBounds DEF BurstsInv, BurstsTyped, Bursts!TypeOK
<1>2. BurstsTyped'
  BY <1>1, BurstBounds DEF BurstsInv, BurstsTyped, Bursts!TypeOK
<1>3. Bursts!BurstsAreLimited'
  BY DEF BurstsInv, Bursts!BurstsAreLimited
<1> QED
  BY <1>2, <1>3 DEF BurstsInv, Since, MinuteBefore

LEMMA RecordDecided ==
    ASSUME BurstsInv, NEW l \in Goroutines, Bursts!Decide(l)
    PROVE  BurstsInv'
<1> DEFINE over == samplerNow - window > Minute
           k == IF over THEN 0 ELSE counter
<1>1. /\ l \notin passing /\ passed' = passed /\ samplerConfig' = samplerConfig
      /\ samplerNow' = samplerNow
  BY DEF Bursts!Decide
<1>2. /\ passed \in Nat /\ samplerNow \in 0..MaxBurstTime /\ totals.seen \in Nat
      /\ samplerConfig \in [enabled : BOOLEAN, alwaysErrors : BOOLEAN]
  BY DEF BurstsInv, BurstsTyped, Bursts!TypeOK
<1>3. PICK how \in {"sampled", "dropped"} :
          /\ Bursts!Seen(how)
          /\ passing' = IF how = "sampled" THEN passing \cup {l} ELSE passing
          /\ \/ UNCHANGED <<window, counter, bursts>>
             \/ /\ window' = IF over THEN samplerNow ELSE window
                /\ counter' = IF k < BurstSize THEN k + 1 ELSE k
                /\ bursts' = IF k < BurstSize
                             THEN bursts \cup {[n |-> totals.seen, at |-> samplerNow]} ELSE bursts
  BY DEF Bursts!Decide
<1>4. /\ totals' \in [seen : Nat, sampled : Nat, dropped : Nat]
      /\ totals'.seen = totals.seen + 1
      /\ totals'.seen = totals'.sampled + totals'.dropped
      /\ totals'.sampled = passed' + Bursts!Cardinality(passing')
      /\ passing' \subseteq Goroutines /\ IsFiniteSet(passing')
  BY <1>1, <1>3, RecordCounted
<1>5. CASE UNCHANGED <<window, counter, bursts>>
  BY <1>1, <1>2, <1>4, <1>5, WindowKept, BurstBounds
<1>6. CASE /\ window' = IF over THEN samplerNow ELSE window
           /\ counter' = IF k < BurstSize THEN k + 1 ELSE k
           /\ bursts' = IF k < BurstSize
                        THEN bursts \cup {[n |-> totals.seen, at |-> samplerNow]} ELSE bursts
  <2>1. over \in BOOLEAN
    OBVIOUS
  <2>2. /\ window' \in 0..MaxBurstTime /\ window' <= samplerNow' /\ counter' \in 0..BurstSize
        /\ bursts' \subseteq [n : Nat, at : 0..MaxBurstTime] /\ IsFiniteSet(bursts')
        /\ \A b \in bursts' : b.n < totals'.seen /\ b.at <= samplerNow'
                              /\ b.at <= window' + Minute
        /\ Cardinality(Since(window)') <= counter'
        /\ Cardinality(MinuteBefore(window)') <= BurstSize
        /\ \A t \in 0..MaxBurstTime :
              Bursts!Cardinality({b \in bursts' : b.at \in t..(t + Minute)}) <= 2 * BurstSize
    BY <1>1, <1>4, <1>6, <2>1, BurstCounted
  <2>3. BurstsTyped'
    BY <1>1, <1>2, <1>4, <2>2 DEF BurstsTyped, Bursts!TypeOK
  <2>4. Bursts!BurstsAreLimited'
    BY <1>4, <2>2 DEF Bursts!BurstsAreLimited
  <2> QED
    BY <2>2, <2>3, <2>4 DEF BurstsInv
<1> QED
  BY <1>3, <1>5, <1>6

LEMMA BurstsStep == BurstsInv /\ [Bursts!Next]_samplerVars => BurstsInv'
<1> SUFFICES ASSUME BurstsInv, [Bursts!Next]_samplerVars PROVE BurstsInv'
  OBVIOUS
<1>1. /\ passed \in Nat /\ samplerNow \in 0..MaxBurstTime
      /\ totals \in [seen : Nat, sampled : Nat, dropped : Nat]
      /\ passing \subseteq Goroutines /\ IsFiniteSet(passing)
      /\ totals.seen = totals.sampled + totals.dropped
      /\ totals.sampled = passed + Bursts!Cardinality(passing)
  BY DEF BurstsInv, BurstsTyped, Bursts!TypeOK, Bursts!BurstsAreLimited
<1>2. ASSUME NEW l \in Goroutines, Bursts!Decide(l) PROVE BurstsInv'
  BY <1>2, RecordDecided
<1>3. ASSUME NEW l \in Goroutines, Bursts!Pass(l) PROVE BurstsInv'
  <2>1. /\ l \in passing /\ passing' = passing \ {l} /\ passed' = passed + 1
        /\ UNCHANGED <<samplerConfig, samplerNow, window, counter, totals, bursts>>
    BY <1>3 DEF Bursts!Pass
  <2>2. /\ Cardinality(passing') = Cardinality(passing) - 1 /\ IsFiniteSet(passing')
        /\ Cardinality(passing) \in Nat
    BY <1>1, <2>1, FS_RemoveElement, FS_CardinalityType
  <2>3. totals'.sampled = passed' + Bursts!Cardinality(passing')
    <3>1. totals.sampled = passed + Cardinality(passing) /\ totals'.sampled = totals.sampled
      BY <1>1, <2>1, CountedAlike
    <3>2. passed + Cardinality(passing) = (passed + 1) + (Cardinality(passing) - 1)
      BY <1>1, <2>2
    <3> QED
      BY <2>1, <2>2, <3>1, <3>2, CountedAlike
  <2>4. totals.seen <= totals'.seen /\ samplerNow <= samplerNow' /\ passed' \in Nat
    BY <1>1, <2>1
  <2> QED
    BY <1>1, <2>1, <2>2, <2>3, <2>4, WindowKept
<1>4. CASE Bursts!Tick
  <2>1. /\ samplerNow < MaxBurstTime /\ samplerNow' = samplerNow + 1
        /\ UNCHANGED <<samplerConfig, window, counter, totals, passing, passed, bursts>>
    BY <1>4 DEF Bursts!Tick
  <2>2. samplerNow' \in 0..MaxBurstTime /\ samplerNow <= samplerNow' /\ totals.seen <= totals'.seen
    BY <1>1, <2>1, BurstBounds
  <2> QED
    BY <1>1, <2>1, <2>2, WindowKept
<1>5. CASE UNCHANGED samplerVars
  <2>1. totals.seen <= totals'.seen /\ samplerNow <= samplerNow'
    BY <1>1, <1>5 DEF samplerVars
  <2> QED
    BY <1>1, <1>5, <2>1, WindowKept DEF samplerVars
<1> QED
  BY <1>2, <1>3, <1>4, <1>5 DEF Bursts!Next

-----------------------------------------------------------------------------
(* The advanced sampler.  What a caller has still to do is in order: each  *)
(* step once, the adaptive strategy right after it has read its rate.      *)

Steps == Strategy!Strategies \cup {"rate", "load", "store"}

InCall == {c \in Goroutines : sampleAt[c] # <<>>}
Before(s) == {c \in Goroutines : s \in RowsIn(sampleAt[c])}

(* A rate is read before it is used, by a caller that has not yet.         *)
Paired(q) == \A k \in DOMAIN q : q[k] = "adaptive" => k > 1 /\ q[k - 1] = "rate"
PairedOn(q) == \A k \in DOMAIN q : k > 1 /\ q[k] = "adaptive" => q[k - 1] = "rate"

StrategyInv ==
    /\ Strategy!TypeOK
    /\ IsFiniteSet(InCall)
    /\ \A c \in Goroutines :
          /\ NoRowTwice(sampleAt[c]) /\ PairedOn(sampleAt[c])
          /\ sampleAt[c] = <<>> => sampled[c]
          /\ sampleAt[c] # <<>> => RowsIn(sampleAt[c]) \cap {"load", "store"} # {}
          /\ read[c] <= calls.counted
    /\ calls.counted = calls.made - Cardinality(InCall)
    /\ Strategy!SamplingAccounted

LEMMA SamplingBounds ==
    One \in Nat /\ MinRate \in 0..One /\ MaxRecords \in Nat /\ MaxAdjusts \in Nat
  BY ComponentsAssumption DEF Strategy!SamplingAssumption

LEMMA CallersCounted ==
    /\ \A S : Strategy!Cardinality(S) = Cardinality(S)
    /\ \A q : Strategy!Range(q) = RowsIn(q)
  BY DEF Strategy!Cardinality, Cardinality, Strategy!Range, RowsIn

LEMMA StrategyInit == Strategy!Init => StrategyInv
<1> SUFFICES ASSUME Strategy!Init PROVE StrategyInv
  OBVIOUS
<1>1. /\ rate = One /\ recent = FALSE /\ adjusts = 0 /\ overall = 0
      /\ sampleAt = [c \in Goroutines |-> <<>>] /\ record = [c \in Goroutines |-> "plain"]
      /\ seen = [c \in Goroutines |-> One] /\ sampled = [c \in Goroutines |-> TRUE]
      /\ read = [c \in Goroutines |-> 0] /\ stats = [s \in Strategy!Strategies |-> Strategy!Zero]
      /\ calls = [made |-> 0, counted |-> 0]
      /\ strategies \subseteq Strategy!Strategies /\ default \in strategies
  BY DEF Strategy!Init, Strategy!Strategies
<1>2. <<>> \in Seq(Steps) /\ RowsIn(<<>>) = {} /\ NoRowTwice(<<>>) /\ PairedOn(<<>>)
  BY DEF RowsIn, NoRowTwice, PairedOn
<1>3. Strategy!TypeOK
  <2>1. Strategy!Zero \in [evaluated : Nat, sampled : Nat, dropped : Nat]
    BY DEF Strategy!Zero
  <2>2. stats \in [Strategy!Strategies -> [evaluated : Nat, sampled : Nat, dropped : Nat]]
    BY <1>1, <2>1
  <2>3. sampleAt \in [Goroutines -> Seq(Steps)]
    BY <1>1, <1>2
  <2>4. /\ rate \in MinRate..One /\ adjusts \in 0..MaxAdjusts /\ seen \in [Goroutines -> MinRate..One]
        /\ calls \in [made : 0..MaxRecords, counted : 0..MaxRecords]
        /\ record \in [Goroutines -> Strategy!RecordKinds]
    BY <1>1, SamplingBounds DEF Strategy!RecordKinds
  <2> QED
    BY <1>1, <2>2, <2>3, <2>4 DEF Strategy!TypeOK, Steps
<1>4. InCall = {} /\ \A s : Before(s) = {}
  BY <1>1, <1>2 DEF InCall, Before
<1>5. IsFiniteSet({}) /\ Cardinality({}) = 0
  BY FS_EmptySet
<1>6. Strategy!SamplingAccounted
  <2>1. \A s \in strategies : {c \in Goroutines : s \in Strategy!Range(sampleAt[c])} = {}
    BY <1>4, CallersCounted DEF Before
  <2>2. \A c \in Goroutines : Strategy!Idle(c)
    BY <1>1 DEF Strategy!Idle
  <2> QED
    <3>1. ASSUME NEW s \in strategies
          PROVE  /\ stats[s].evaluated = stats[s].sampled + stats[s].dropped
                 /\ stats[s].evaluated = calls.made - Strategy!Cardinality(
                                      {c \in Goroutines : s \in Strategy!Range(sampleAt[c])})
      <4>1. Strategy!Cardinality({c \in Goroutines : s \in Strategy!Range(sampleAt[c])}) = 0
        BY <1>5, <2>1, CallersCounted
      <4>2. stats[s] = [evaluated |-> 0, sampled |-> 0, dropped |-> 0]
        BY <1>1 DEF Strategy!Zero
      <4>3. stats[s].evaluated = 0 /\ stats[s].sampled = 0 /\ stats[s].dropped = 0
        BY <4>2
      <4>4. calls.made = 0
        BY <1>1
      <4> QED
        BY <4>1, <4>3, <4>4
    <3>2. \A c \in Goroutines : sampled[c]
      BY <1>1
    <3>4. overall <= calls.counted /\ ~(calls.counted > 0)
      <4>1. overall = 0 /\ calls.counted = 0
        BY <1>1
      <4> QED
        BY <4>1
    <3> QED
      BY <2>2, <3>1, <3>2, <3>4 DEF Strategy!SamplingAccounted
<1>7. calls.counted = calls.made - Cardinality(InCall)
  BY <1>1, <1>4, <1>5
<1>8. \A c \in Goroutines : /\ NoRowTwice(sampleAt[c]) /\ PairedOn(sampleAt[c])
                            /\ sampleAt[c] = <<>> /\ sampled[c] /\ read[c] <= calls.counted
  <2>1. \A c \in Goroutines : sampleAt[c] = <<>> /\ sampled[c] = TRUE /\ read[c] = 0
    BY <1>1
  <2>2. \A c \in Goroutines : NoRowTwice(sampleAt[c]) /\ PairedOn(sampleAt[c])
    BY <1>2, <2>1
  <2>3. \A c \in Goroutines : sampled[c]
    BY <2>1
  <2>4. \A c \in Goroutines : read[c] <= calls.counted
    <3>1. calls.counted = 0
      BY <1>1
    <3>2. ASSUME NEW c \in Goroutines PROVE read[c] <= 0
      <4>1. read[c] = 0
        BY <2>1
      <4> QED
        BY <4>1
    <3> QED
      BY <3>1, <3>2
  <2> QED
    BY <2>1, <2>2, <2>3, <2>4
<1> QED
  BY <1>3, <1>4, <1>5, <1>6, <1>7, <1>8 DEF StrategyInv

(* What Call gives a caller to do.                                         *)
LEMMA PairedJoined ==
    ASSUME NEW p \in Seq(Steps), NEW q \in Seq(Steps), Paired(p), Paired(q)
    PROVE  Paired(p \o q)
<1> DEFINE t == p \o q
<1>1. /\ t \in Seq(Steps) /\ Len(p) \in Nat /\ Len(q) \in Nat
      /\ DOMAIN p = 1..Len(p) /\ DOMAIN q = 1..Len(q) /\ DOMAIN t = 1..(Len(p) + Len(q))
      /\ \A k \in DOMAIN t : t[k] = IF k <= Len(p) THEN p[k] ELSE q[k - Len(p)]
  BY ConcatProperties, LenProperties
<1> HIDE DEF t
<1> SUFFICES ASSUME NEW k \in DOMAIN t, t[k] = "adaptive" PROVE k > 1 /\ t[k - 1] = "rate"
  BY DEF Paired, t
<1>2. CASE k <= Len(p)
  <2>1. k \in DOMAIN p /\ p[k] = "adaptive"
    BY <1>1, <1>2
  <2>2. k > 1 /\ p[k - 1] = "rate"
    BY <2>1 DEF Paired
  <2> QED
    BY <1>1, <1>2, <2>2
<1>3. CASE ~(k <= Len(p))
  <2>1. k - Len(p) \in DOMAIN q /\ q[k - Len(p)] = "adaptive"
    BY <1>1, <1>3
  <2>2. k - Len(p) > 1 /\ q[(k - Len(p)) - 1] = "rate"
    BY <2>1 DEF Paired
  <2>3. k - 1 \in DOMAIN t /\ ~(k - 1 <= Len(p)) /\ (k - 1) - Len(p) = (k - Len(p)) - 1
    BY <1>1, <2>1, <2>2
  <2> QED
    BY <1>1, <2>2, <2>3
<1> QED
  BY <1>2, <1>3

(* The steps of one strategy.                                              *)
LEMMA StepsOfOne ==
    ASSUME NEW s \in Strategy!Strategies
    PROVE  /\ Strategy!StepsOf(s) \in Seq(Steps) /\ Paired(Strategy!StepsOf(s))
           /\ NoRowTwice(Strategy!StepsOf(s))
           /\ RowsIn(Strategy!StepsOf(s)) = IF s = "adaptive" THEN {"rate", "adaptive"} ELSE {s}
<1>1. CASE s = "adaptive"
  <2>1. Strategy!StepsOf(s) = <<"rate", "adaptive">>
    BY <1>1 DEF Strategy!StepsOf
  <2> QED
    <3> DEFINE q == <<"rate", "adaptive">>
    <3>1. q \in Seq(Steps) /\ DOMAIN q = {1, 2} /\ q[1] = "rate" /\ q[2] = "adaptive"
      BY DEF Steps, Strategy!Strategies
    <3> HIDE DEF q
    <3>2. Paired(q) /\ NoRowTwice(q)
      BY <3>1 DEF Paired, NoRowTwice
    <3>3. RowsIn(q) = {"rate", "adaptive"}
      BY <3>1 DEF RowsIn
    <3> QED
      BY <1>1, <2>1, <3>1, <3>2, <3>3 DEF q
<1>2. CASE s # "adaptive"
  <2>1. Strategy!StepsOf(s) = <<s>>
    BY <1>2 DEF Strategy!StepsOf
  <2> QED
    <3> DEFINE q == <<s>>
    <3>1. q \in Seq(Steps) /\ DOMAIN q = {1} /\ q[1] = s
      BY DEF Steps
    <3> HIDE DEF q
    <3>2. Paired(q) /\ NoRowTwice(q)
      BY <1>2, <3>1 DEF Paired, NoRowTwice
    <3>3. RowsIn(q) = {s}
      BY <3>1 DEF RowsIn
    <3> QED
      BY <1>2, <2>1, <3>1, <3>2, <3>3 DEF q
<1> QED
  BY <1>1, <1>2

(* What a strategy's steps are about, and what a turn of the loop adds.    *)
Own(s) == IF s = "adaptive" THEN {"rate", "adaptive"} ELSE {s}

InTurn(q) == q \in Seq(Steps) /\ Paired(q) /\ NoRowTwice(q)

LEMMA TurnOfOne ==
    ASSUME NEW s \in Strategy!Strategies
    PROVE  /\ InTurn(Strategy!Turn(s))
           /\ RowsIn(Strategy!Turn(s)) = IF s \in strategies \ {default} THEN Own(s) ELSE {}
<1>1. CASE s \in strategies \ {default}
  BY <1>1, StepsOfOne DEF Strategy!Turn, InTurn, Own
<1>2. CASE s \notin strategies \ {default}
  <2>1. Strategy!Turn(s) = <<>>
    BY <1>2 DEF Strategy!Turn
  <2>2. <<>> \in Seq(Steps) /\ Paired(<<>>) /\ NoRowTwice(<<>>) /\ RowsIn(<<>>) = {}
    BY DEF Paired, NoRowTwice, RowsIn
  <2> QED
    BY <1>2, <2>1, <2>2 DEF InTurn
<1> QED
  BY <1>1, <1>2

LEMMA OneAfterTheOther ==
    ASSUME NEW p, NEW q, InTurn(p), InTurn(q), RowsIn(p) \cap RowsIn(q) = {}
    PROVE  InTurn(p \o q) /\ RowsIn(p \o q) = RowsIn(p) \cup RowsIn(q)
  BY JoinedRows, PairedJoined DEF InTurn

LEMMA CallOrder ==
    ASSUME strategies \subseteq Strategy!Strategies, default \in strategies,
           NEW q, q = Strategy!StepsOf(default)
                      \o (Strategy!Turn("fixed") \o (Strategy!Turn("adaptive")
                          \o (Strategy!Turn("priority") \o Strategy!Turn("tail"))))
                      \o <<"load">>
    PROVE  /\ InTurn(q) /\ q # <<>> /\ "load" \in RowsIn(q)
           /\ \A s \in strategies : s \in RowsIn(q)
<1> DEFINE asked(s) == RowsIn(Strategy!Turn(s))
           p1 == Strategy!Turn("priority") \o Strategy!Turn("tail")
           p2 == Strategy!Turn("adaptive") \o p1
           p3 == Strategy!Turn("fixed") \o p2
           p4 == Strategy!StepsOf(default) \o p3
           l == <<"load">>
<1>1. Strategy!Strategies = {"fixed", "adaptive", "priority", "tail"}
  BY DEF Strategy!Strategies
<1>2. /\ InTurn(Strategy!Turn("fixed")) /\ InTurn(Strategy!Turn("adaptive"))
      /\ InTurn(Strategy!Turn("priority")) /\ InTurn(Strategy!Turn("tail"))
      /\ \A s \in Strategy!Strategies : asked(s) = IF s \in strategies \ {default} THEN Own(s) ELSE {}
  BY <1>1, TurnOfOne
<1>3. InTurn(Strategy!StepsOf(default)) /\ RowsIn(Strategy!StepsOf(default)) = Own(default)
  BY StepsOfOne DEF InTurn, Own
<1>4. InTurn(l) /\ RowsIn(l) = {"load"}
  <2>1. l \in Seq(Steps) /\ DOMAIN l = {1} /\ l[1] = "load"
    BY DEF Steps
  <2> HIDE DEF l
  <2>2. Paired(l) /\ NoRowTwice(l) /\ RowsIn(l) = {"load"}
    BY <2>1 DEF Paired, NoRowTwice, RowsIn
  <2> QED
    BY <2>1, <2>2 DEF InTurn
<1>5. /\ asked("fixed") \subseteq {"fixed"} /\ asked("adaptive") \subseteq {"rate", "adaptive"}
      /\ asked("priority") \subseteq {"priority"} /\ asked("tail") \subseteq {"tail"}
  BY <1>1, <1>2 DEF Own
<1> HIDE DEF asked
<1>6. InTurn(p1) /\ RowsIn(p1) = asked("priority") \cup asked("tail")
  BY <1>2, <1>5, OneAfterTheOther DEF asked
<1> HIDE DEF p1
<1>7. InTurn(p2) /\ RowsIn(p2) = asked("adaptive") \cup RowsIn(p1)
  <2>1. RowsIn(Strategy!Turn("adaptive")) \cap RowsIn(p1) = {}
    BY <1>5, <1>6 DEF asked
  <2> QED
    BY <1>2, <1>6, <2>1, OneAfterTheOther DEF asked
<1> HIDE DEF p2
<1>8. InTurn(p3) /\ RowsIn(p3) = asked("fixed") \cup RowsIn(p2)
  <2>1. RowsIn(Strategy!Turn("fixed")) \cap RowsIn(p2) = {}
    BY <1>5, <1>6, <1>7 DEF asked
  <2> QED
    BY <1>2, <1>7, <2>1, OneAfterTheOther DEF asked
<1> HIDE DEF p3
<1>9. Own(default) \cap RowsIn(p3) = {}
  <2>1. asked(default) = {}
    BY <1>2
  <2>2. RowsIn(p3) = asked("fixed") \cup asked("adaptive") \cup asked("priority") \cup asked("tail")
    BY <1>6, <1>7, <1>8
  <2> QED
    BY <1>1, <1>5, <2>1, <2>2 DEF Own
<1>10. InTurn(p4) /\ RowsIn(p4) = Own(default) \cup RowsIn(p3)
  BY <1>3, <1>8, <1>9, OneAfterTheOther
<1> HIDE DEF p4
<1>11. q = p4 \o l
  BY DEF p4, p3, p2, p1
<1> HIDE DEF l
<1>12. "load" \notin RowsIn(p4)
  BY <1>1, <1>5, <1>6, <1>7, <1>8, <1>10 DEF Own
<1>13. InTurn(q) /\ RowsIn(q) = RowsIn(p4) \cup {"load"}
  <2>1. RowsIn(p4) \cap RowsIn(l) = {}
    BY <1>4, <1>12
  <2>2. InTurn(p4) /\ InTurn(l)
    BY <1>4, <1>10
  <2>3. InTurn(p4 \o l) /\ RowsIn(p4 \o l) = RowsIn(p4) \cup RowsIn(l)
    BY <2>1, <2>2, OneAfterTheOther
  <2> QED
    BY <1>4, <1>11, <2>3
<1>14. q # <<>>
  <2>1. RowsIn(<<>>) = {}
    BY DEF RowsIn
  <2> QED
    BY <1>13, <2>1
<1>15. ASSUME NEW s \in strategies PROVE s \in RowsIn(q)
  <2>1. s \in Own(s)
    BY DEF Own
  <2>2. s = default \/ asked(s) = Own(s)
    BY <1>2
  <2> QED
    BY <1>1, <1>6, <1>7, <1>8, <1>10, <1>13, <2>1, <2>2
<1> QED
  BY <1>4, <1>13, <1>14, <1>15

(* What a step of c changes of who is in a call and who has yet to ask s.  *)
LEMMA PlaceMoves ==
    ASSUME StrategyInv, NEW c \in Goroutines, NEW q \in Seq(Steps),
           sampleAt' = [sampleAt EXCEPT ![c] = q]
    PROVE  /\ sampleAt' \in [Goroutines -> Seq(Steps)] /\ sampleAt'[c] = q
           /\ \A d \in Goroutines \ {c} : sampleAt'[d] = sampleAt[d]
           /\ InCall' = IF q = <<>> THEN InCall \ {c} ELSE InCall \cup {c}
           /\ IsFiniteSet(InCall') /\ Cardinality(InCall) \in Nat /\ Cardinality(InCall') \in Nat
           /\ Cardinality(InCall') = IF q = <<>> /\ c \in InCall THEN Cardinality(InCall) - 1
                                     ELSE IF q # <<>> /\ c \notin InCall THEN Cardinality(InCall) + 1
                                     ELSE Cardinality(InCall)
           /\ \A s : LET was == s \in RowsIn(sampleAt[c])
                         is  == s \in RowsIn(q)
                     IN  /\ Cardinality(Before(s)) \in Nat
                         /\ Cardinality(Before(s)') = IF was /\ ~is THEN Cardinality(Before(s)) - 1
                                                      ELSE IF ~was /\ is THEN Cardinality(Before(s)) + 1
                                                      ELSE Cardinality(Before(s))
<1>1. sampleAt \in [Goroutines -> Seq(Steps)] /\ IsFiniteSet(InCall)
  BY DEF StrategyInv, Strategy!TypeOK, Steps
<1>2. /\ sampleAt' \in [Goroutines -> Seq(Steps)] /\ sampleAt'[c] = q
      /\ \A d \in Goroutines \ {c} : sampleAt'[d] = sampleAt[d]
  BY <1>1
<1>3. InCall' = IF q = <<>> THEN InCall \ {c} ELSE InCall \cup {c}
  BY <1>2 DEF InCall
<1>4. /\ IsFiniteSet(InCall \ {c}) /\ IsFiniteSet(InCall \cup {c})
      /\ Cardinality(InCall) \in Nat
      /\ Cardinality(InCall \ {c}) = IF c \in InCall THEN Cardinality(InCall) - 1 ELSE Cardinality(InCall)
      /\ Cardinality(InCall \cup {c}) = IF c \in InCall THEN Cardinality(InCall) ELSE Cardinality(InCall) + 1
  BY <1>1, FS_AddElement, FS_RemoveElement, FS_CardinalityType
<1>5. IsFiniteSet(InCall') /\ Cardinality(InCall') \in Nat
  BY <1>3, <1>4, FS_CardinalityType
<1>6. ASSUME NEW s
      PROVE  LET was == s \in RowsIn(sampleAt[c])
                 is  == s \in RowsIn(q)
             IN  /\ Cardinality(Before(s)) \in Nat
                 /\ Cardinality(Before(s)') = IF was /\ ~is THEN Cardinality(Before(s)) - 1
                                              ELSE IF ~was /\ is THEN Cardinality(Before(s)) + 1
                                              ELSE Cardinality(Before(s))
  <2>1. RowsIn(<<>>) = {}
    BY DEF RowsIn
  <2>2. Before(s) \subseteq InCall
    BY <2>1 DEF Before, InCall
  <2>3. IsFiniteSet(Before(s)) /\ Cardinality(Before(s)) \in Nat
    BY <1>1, <2>2, FS_Subset, FS_CardinalityType
  <2>4. c \in Before(s) <=> s \in RowsIn(sampleAt[c])
    BY DEF Before
  <2>5. Before(s)' = IF s \in RowsIn(q) THEN Before(s) \cup {c} ELSE Before(s) \ {c}
    BY <1>2 DEF Before
  <2>6. /\ Cardinality(Before(s) \ {c}) = IF c \in Before(s) THEN Cardinality(Before(s)) - 1 ELSE Cardinality(Before(s))
        /\ Cardinality(Before(s) \cup {c}) = IF c \in Before(s) THEN Cardinality(Before(s)) ELSE Cardinality(Before(s)) + 1
    BY <2>3, FS_AddElement, FS_RemoveElement
  <2> HIDE DEF Before
  <2> QED
    BY <2>3, <2>4, <2>5, <2>6
<1> HIDE DEF InCall, Before
<1>7. Cardinality(InCall') = IF q = <<>> /\ c \in InCall THEN Cardinality(InCall) - 1
                             ELSE IF q # <<>> /\ c \notin InCall THEN Cardinality(InCall) + 1
                             ELSE Cardinality(InCall)
  BY <1>3, <1>4
<1> QED
  BY <1>2, <1>3, <1>4, <1>5, <1>6, <1>7

(* A strategy that is asked is one that was to be asked.                   *)
LEMMA FewerToAsk ==
    ASSUME StrategyInv, NEW c \in Goroutines, NEW q \in Seq(Steps),
           sampleAt' = [sampleAt EXCEPT ![c] = q], NEW s
    PROVE  /\ Cardinality(Before(s)) \in Nat
           /\ s \in RowsIn(sampleAt[c]) /\ s \notin RowsIn(q) =>
                 Cardinality(Before(s)') = Cardinality(Before(s)) - 1
           /\ (s \in RowsIn(sampleAt[c]) <=> s \in RowsIn(q)) =>
                 Cardinality(Before(s)') = Cardinality(Before(s))
  BY PlaceMoves

(* What has been done is done in order: a tail of what was to do.          *)
LEMMA TailPaired ==
    ASSUME NEW q \in Seq(Steps), q # <<>>, NoRowTwice(q), PairedOn(q)
    PROVE  /\ Tail(q) \in Seq(Steps) /\ NoRowTwice(Tail(q)) /\ PairedOn(Tail(q))
           /\ RowsIn(Tail(q)) = RowsIn(q) \ {Head(q)} /\ Head(q) \in RowsIn(q)
           /\ Tail(q) # <<>> /\ Head(Tail(q)) = "adaptive" => Head(q) = "rate"
<1>1. /\ Tail(q) \in Seq(Steps) /\ NoRowTwice(Tail(q))
      /\ RowsIn(Tail(q)) = RowsIn(q) \ {Head(q)} /\ Head(q) \in RowsIn(q)
  BY TailRows
<1>2. /\ DOMAIN q = 1..Len(q) /\ Len(q) \in Nat \ {0} /\ Head(q) = q[1]
      /\ Len(Tail(q)) = Len(q) - 1 /\ DOMAIN Tail(q) = 1..(Len(q) - 1)
      /\ \A k \in 1..(Len(q) - 1) : Tail(q)[k] = q[k + 1]
  BY <1>1, EmptySeq, LenProperties, HeadTailProperties
<1>3. PairedOn(Tail(q))
  <2> SUFFICES ASSUME NEW k \in DOMAIN Tail(q), k > 1, Tail(q)[k] = "adaptive"
               PROVE  Tail(q)[k - 1] = "rate"
    BY DEF PairedOn
  <2>1. k + 1 \in DOMAIN q /\ q[k + 1] = "adaptive" /\ k + 1 > 1 /\ (k + 1) - 1 = k
    BY <1>2
  <2>2. q[k] = "rate"
    BY <2>1 DEF PairedOn
  <2>3. k - 1 \in 1..(Len(q) - 1) /\ (k - 1) + 1 = k
    BY <1>2
  <2> QED
    BY <1>2, <2>2, <2>3
<1>4. ASSUME Tail(q) # <<>>, Head(Tail(q)) = "adaptive" PROVE Head(q) = "rate"
  <2>1. Len(Tail(q)) \in Nat \ {0} /\ Head(Tail(q)) = Tail(q)[1]
    BY <1>1, <1>4, EmptySeq, LenProperties
  <2>2. 2 \in DOMAIN q /\ q[2] = "adaptive"
    BY <1>2, <1>4, <2>1
  <2> QED
    <3>1. q[2 - 1] = "rate"
      BY <2>2 DEF PairedOn
    <3> QED
      BY <1>2, <3>1
<1> QED
  BY <1>1, <1>3, <1>4

(* What SamplingAccounted says, of the names the proof uses.               *)
LEMMA AccountedMeans ==
    Strategy!SamplingAccounted <=>
        /\ \A s \in strategies :
              /\ stats[s].evaluated = stats[s].sampled + stats[s].dropped
              /\ stats[s].evaluated = calls.made - Cardinality(Before(s))
        /\ \A c \in Goroutines :
              sampleAt[c] # <<>> /\ Head(sampleAt[c]) = "adaptive" => seen[c] = rate
        /\ \A c \in Goroutines : default = "priority" /\ record[c] = "error" => sampled[c]
        /\ overall <= calls.counted
        /\ calls.counted > 0 => overall > 0
  BY CallersCounted DEF Strategy!SamplingAccounted, Strategy!Idle, Before

LEMMA AccountedMeansNext ==
    Strategy!SamplingAccounted' <=>
        /\ \A s \in strategies' :
              /\ stats'[s].evaluated = stats'[s].sampled + stats'[s].dropped
              /\ stats'[s].evaluated = calls'.made - Cardinality(Before(s)')
        /\ \A c \in Goroutines :
              sampleAt'[c] # <<>> /\ Head(sampleAt'[c]) = "adaptive" => seen'[c] = rate'
        /\ \A c \in Goroutines : default' = "priority" /\ record'[c] = "error" => sampled'[c]
        /\ overall' <= calls'.counted
        /\ calls'.counted > 0 => overall' > 0
  BY CallersCounted DEF Strategy!SamplingAccounted, Strategy!Idle, Before

(* What the types are, by name.                                            *)
LEMMA StrategyTypes ==
    ASSUME StrategyInv
    PROVE  /\ strategies \subseteq Strategy!Strategies /\ default \in strategies
           /\ rate \in MinRate..One /\ recent \in BOOLEAN /\ adjusts \in 0..MaxAdjusts
           /\ sampleAt \in [Goroutines -> Seq(Steps)]
           /\ record \in [Goroutines -> Strategy!RecordKinds]
           /\ seen \in [Goroutines -> MinRate..One]
           /\ sampled \in [Goroutines -> BOOLEAN]
           /\ read \in [Goroutines -> Nat] /\ overall \in Nat
           /\ stats \in [Strategy!Strategies -> [evaluated : Nat, sampled : Nat, dropped : Nat]]
           /\ calls \in [made : 0..MaxRecords, counted : 0..MaxRecords]
  BY DEF StrategyInv, Strategy!TypeOK, Steps

LEMMA CallMade ==
    ASSUME StrategyInv, NEW c \in Goroutines, Strategy!Call(c)
    PROVE  StrategyInv'
<1> DEFINE q == Strategy!StepsOf(default)
                \o (Strategy!Turn("fixed") \o (Strategy!Turn("adaptive")
                    \o (Strategy!Turn("priority") \o Strategy!Turn("tail"))))
                \o <<"load">>
<1>1. /\ sampleAt[c] = <<>> /\ calls.made < MaxRecords
      /\ calls' = [calls EXCEPT !.made = @ + 1]
      /\ sampleAt' = [sampleAt EXCEPT ![c] = q]
      /\ record' \in [Goroutines -> Strategy!RecordKinds]
      /\ \A d \in Goroutines \ {c} : record'[d] = record[d]
      /\ UNCHANGED <<strategies, default, rate, recent, adjusts, seen, sampled, read, stats, overall>>
  BY StrategyTypes DEF Strategy!Call, Strategy!Idle
<1>2. /\ InTurn(q) /\ q # <<>> /\ "load" \in RowsIn(q) /\ \A s \in strategies : s \in RowsIn(q)
  BY StrategyTypes, CallOrder
<1> HIDE DEF q
<1>3. q \in Seq(Steps) /\ NoRowTwice(q) /\ Paired(q) /\ PairedOn(q)
  BY <1>2 DEF InTurn, Paired, PairedOn
<1>4. Head(q) # "adaptive"
  <2>1. Len(q) \in Nat \ {0} /\ DOMAIN q = 1..Len(q) /\ Head(q) = q[1]
    BY <1>2, <1>3, EmptySeq, LenProperties
  <2> QED
    BY <1>3, <2>1 DEF Paired
<1>5. /\ sampleAt' \in [Goroutines -> Seq(Steps)] /\ sampleAt'[c] = q
      /\ \A d \in Goroutines \ {c} : sampleAt'[d] = sampleAt[d]
      /\ IsFiniteSet(InCall') /\ Cardinality(InCall) \in Nat
      /\ Cardinality(InCall') = Cardinality(InCall) + 1
  <2>1. c \notin InCall
    BY <1>1 DEF InCall
  <2> QED
    BY <1>1, <1>2, <1>3, <2>1, PlaceMoves
<1>6. ASSUME NEW s \in strategies
      PROVE  Cardinality(Before(s)') = Cardinality(Before(s)) + 1 /\ Cardinality(Before(s)) \in Nat
  <2>1. s \in RowsIn(q) /\ s \notin RowsIn(sampleAt[c])
    BY <1>1, <1>2 DEF RowsIn
  <2> QED
    BY <1>1, <1>3, <2>1, PlaceMoves
<1>7. /\ calls.made \in 0..MaxRecords /\ calls.counted \in 0..MaxRecords
      /\ calls'.made = calls.made + 1 /\ calls'.counted = calls.counted
      /\ calls' \in [made : 0..MaxRecords, counted : 0..MaxRecords]
  <2>1. calls \in [made : 0..MaxRecords, counted : 0..MaxRecords]
    BY StrategyTypes
  <2>2. calls.made + 1 \in 0..MaxRecords
    BY <1>1, <2>1, SamplingBounds
  <2> QED
    BY <1>1, <2>1, <2>2
<1>8. Strategy!TypeOK'
  BY <1>1, <1>5, <1>7, StrategyTypes DEF Strategy!TypeOK, Steps
<1>9. Strategy!SamplingAccounted
  BY DEF StrategyInv
<1>10. \A s \in strategies' :
          /\ stats'[s].evaluated = stats'[s].sampled + stats'[s].dropped
          /\ stats'[s].evaluated = calls'.made - Cardinality(Before(s)')
  <2> SUFFICES ASSUME NEW s \in strategies
               PROVE  /\ stats[s].evaluated = stats[s].sampled + stats[s].dropped
                      /\ stats[s].evaluated = calls'.made - Cardinality(Before(s)')
    BY <1>1
  <2>1. /\ stats[s].evaluated = stats[s].sampled + stats[s].dropped
        /\ stats[s].evaluated = calls.made - Cardinality(Before(s))
    BY <1>9, AccountedMeans
  <2> QED
    BY <1>6, <1>7, <2>1
<1>11. \A d \in Goroutines :
          sampleAt'[d] # <<>> /\ Head(sampleAt'[d]) = "adaptive" => seen'[d] = rate'
  BY <1>1, <1>4, <1>5, <1>9, AccountedMeans
<1>12. \A d \in Goroutines : default' = "priority" /\ record'[d] = "error" => sampled'[d]
  BY <1>1, <1>9, AccountedMeans DEF StrategyInv
<1>13. Strategy!SamplingAccounted'
  BY <1>1, <1>7, <1>9, <1>10, <1>11, <1>12, AccountedMeans, AccountedMeansNext
<1>14. calls'.counted = calls'.made - Cardinality(InCall')
  <2>1. calls.counted = calls.made - Cardinality(InCall)
    BY DEF StrategyInv
  <2> QED
    BY <1>5, <1>7, <2>1
<1>15. ASSUME NEW d \in Goroutines
       PROVE  /\ NoRowTwice(sampleAt'[d]) /\ PairedOn(sampleAt'[d])
              /\ sampleAt'[d] = <<>> => sampled'[d]
              /\ sampleAt'[d] # <<>> => RowsIn(sampleAt'[d]) \cap {"load", "store"} # {}
              /\ read'[d] <= calls'.counted
  BY <1>1, <1>2, <1>3, <1>5, <1>7 DEF StrategyInv
<1> QED
  BY <1>5, <1>8, <1>13, <1>14, <1>15 DEF StrategyInv

(* The first of what c has to do is done, and is not the end of its call.  *)
LEMMA TailTaken ==
    ASSUME StrategyInv, NEW c \in Goroutines, sampleAt[c] # <<>>, Head(sampleAt[c]) \notin {"load", "store"},
           sampleAt' = [sampleAt EXCEPT ![c] = Tail(@)]
    PROVE  /\ sampleAt' \in [Goroutines -> Seq(Steps)] /\ sampleAt'[c] = Tail(sampleAt[c])
           /\ \A d \in Goroutines \ {c} : sampleAt'[d] = sampleAt[d]
           /\ NoRowTwice(sampleAt'[c]) /\ PairedOn(sampleAt'[c]) /\ sampleAt'[c] # <<>>
           /\ RowsIn(sampleAt'[c]) \cap {"load", "store"} # {}
           /\ Head(sampleAt'[c]) = "adaptive" => Head(sampleAt[c]) = "rate"
           /\ IsFiniteSet(InCall') /\ Cardinality(InCall') = Cardinality(InCall)
           /\ \A s : /\ Cardinality(Before(s)) \in Nat
                     /\ Cardinality(Before(s)') = IF s = Head(sampleAt[c]) THEN Cardinality(Before(s)) - 1
                                                  ELSE Cardinality(Before(s))
<1> DEFINE q == sampleAt[c]
           t == Tail(q)
<1>1. q \in Seq(Steps) /\ NoRowTwice(q) /\ PairedOn(q) /\ q # <<>>
  BY StrategyTypes DEF StrategyInv
<1>2. /\ t \in Seq(Steps) /\ NoRowTwice(t) /\ PairedOn(t)
      /\ RowsIn(t) = RowsIn(q) \ {Head(q)} /\ Head(q) \in RowsIn(q)
      /\ t # <<>> /\ Head(t) = "adaptive" => Head(q) = "rate"
  BY <1>1, TailPaired
<1>3. sampleAt' = [sampleAt EXCEPT ![c] = t]
  OBVIOUS
<1>4. c \in InCall /\ RowsIn(t) \cap {"load", "store"} # {} /\ t # <<>>
  <2>1. RowsIn(q) \cap {"load", "store"} # {} /\ Head(q) \notin {"load", "store"}
    BY DEF StrategyInv
  <2>2. RowsIn(<<>>) = {}
    BY DEF RowsIn
  <2> QED
    BY <1>1, <1>2, <2>1, <2>2 DEF InCall
<1> HIDE DEF t
<1>5. /\ sampleAt' \in [Goroutines -> Seq(Steps)] /\ sampleAt'[c] = t
      /\ \A d \in Goroutines \ {c} : sampleAt'[d] = sampleAt[d]
      /\ IsFiniteSet(InCall') /\ Cardinality(InCall') = Cardinality(InCall)
  BY <1>2, <1>3, <1>4, PlaceMoves
<1>6. ASSUME NEW s
      PROVE  /\ Cardinality(Before(s)) \in Nat
             /\ Cardinality(Before(s)') = IF s = Head(q) THEN Cardinality(Before(s)) - 1
                                          ELSE Cardinality(Before(s))
  <2>1. /\ Cardinality(Before(s)) \in Nat
        /\ s \in RowsIn(q) /\ s \notin RowsIn(t) =>
               Cardinality(Before(s)') = Cardinality(Before(s)) - 1
        /\ (s \in RowsIn(q) <=> s \in RowsIn(t)) =>
               Cardinality(Before(s)') = Cardinality(Before(s))
    BY <1>2, <1>3, FewerToAsk
  <2> QED
    BY <1>2, <2>1
<1>7. q = sampleAt[c] /\ t = Tail(sampleAt[c])
  BY DEF t
<1> QED
  BY <1>2, <1>4, <1>5, <1>6, <1>7

(* One step of a caller is done, and what is counted is counted for it     *)
(* alone.                                                                  *)
LEMMA StepDone ==
    ASSUME StrategyInv, NEW c \in Goroutines, sampleAt[c] # <<>>, Head(sampleAt[c]) \notin {"load", "store"},
           sampleAt' = [sampleAt EXCEPT ![c] = Tail(@)],
           UNCHANGED <<strategies, default, rate, recent, adjusts, record, read, overall, calls>>,
           seen' \in [Goroutines -> MinRate..One],
           \A d \in Goroutines \ {c} : seen'[d] = seen[d],
           Head(Tail(sampleAt[c])) = "adaptive" => seen'[c] = rate,
           sampled' \in [Goroutines -> BOOLEAN],
           \A d \in Goroutines : default = "priority" /\ record[d] = "error" => sampled'[d],
           \A d \in Goroutines \ {c} : sampled'[d] = sampled[d],
           stats' \in [Strategy!Strategies -> [evaluated : Nat, sampled : Nat, dropped : Nat]],
           \A s \in strategies :
              IF s = Head(sampleAt[c])
              THEN /\ stats'[s].evaluated = stats[s].evaluated + 1
                   /\ stats'[s].sampled + stats'[s].dropped = stats[s].sampled + stats[s].dropped + 1
              ELSE stats'[s] = stats[s]
    PROVE  StrategyInv'
<1> DEFINE q == sampleAt[c]
<1>5. /\ sampleAt' \in [Goroutines -> Seq(Steps)] /\ sampleAt'[c] = Tail(q)
      /\ \A d \in Goroutines \ {c} : sampleAt'[d] = sampleAt[d]
      /\ NoRowTwice(sampleAt'[c]) /\ PairedOn(sampleAt'[c]) /\ sampleAt'[c] # <<>>
      /\ RowsIn(sampleAt'[c]) \cap {"load", "store"} # {}
      /\ IsFiniteSet(InCall') /\ Cardinality(InCall') = Cardinality(InCall)
  BY TailTaken
<1>6. ASSUME NEW s \in strategies
      PROVE  /\ Cardinality(Before(s)) \in Nat
             /\ Cardinality(Before(s)') = IF s = Head(q) THEN Cardinality(Before(s)) - 1
                                          ELSE Cardinality(Before(s))
  BY TailTaken
<1> HIDE DEF q
<1>7. Strategy!SamplingAccounted
  BY DEF StrategyInv
<1>8. \A s \in strategies' :
          /\ stats'[s].evaluated = stats'[s].sampled + stats'[s].dropped
          /\ stats'[s].evaluated = calls'.made - Cardinality(Before(s)')
  <2> SUFFICES ASSUME NEW s \in strategies
               PROVE  /\ stats'[s].evaluated = stats'[s].sampled + stats'[s].dropped
                      /\ stats'[s].evaluated = calls.made - Cardinality(Before(s)')
    OBVIOUS
  <2>1. /\ stats[s].evaluated = stats[s].sampled + stats[s].dropped
        /\ stats[s].evaluated = calls.made - Cardinality(Before(s))
    BY <1>7, AccountedMeans
  <2>2. calls.made \in Nat /\ stats[s].sampled \in Nat /\ stats[s].dropped \in Nat
    <3>1. stats[s] \in [evaluated : Nat, sampled : Nat, dropped : Nat]
      BY StrategyTypes
    <3>2. calls.made \in 0..MaxRecords
      BY StrategyTypes
    <3> QED
      BY <3>1, <3>2, SamplingBounds
  <2>3. CASE s = Head(q)
    <3>1. /\ stats'[s].evaluated = stats[s].evaluated + 1
          /\ stats'[s].sampled + stats'[s].dropped = stats[s].sampled + stats[s].dropped + 1
      BY <2>3 DEF q
    <3>2. Cardinality(Before(s)) \in Nat /\ Cardinality(Before(s)') = Cardinality(Before(s)) - 1
      BY <1>6, <2>3
    <3> QED
      <4>1. stats'[s].evaluated = stats'[s].sampled + stats'[s].dropped
        BY <2>1, <3>1
      <4>2. stats[s].evaluated = calls.made - Cardinality(Before(s))
        BY <2>1
      <4>3. stats[s].evaluated + 1 = calls.made - (Cardinality(Before(s)) - 1)
        BY <2>2, <3>2, <4>2
      <4> QED
        BY <3>1, <3>2, <4>1, <4>3
  <2>4. CASE s # Head(q)
    BY <1>6, <2>1, <2>4 DEF q
  <2> QED
    BY <2>3, <2>4
<1>9. \A d \in Goroutines :
          sampleAt'[d] # <<>> /\ Head(sampleAt'[d]) = "adaptive" => seen'[d] = rate'
  BY <1>5, <1>7, AccountedMeans DEF q
<1>10. Strategy!SamplingAccounted'
  BY <1>7, <1>8, <1>9, AccountedMeans, AccountedMeansNext
<1>11. Strategy!TypeOK'
  BY <1>5, StrategyTypes DEF Strategy!TypeOK, Steps
<1>12. ASSUME NEW d \in Goroutines
       PROVE  /\ NoRowTwice(sampleAt'[d]) /\ PairedOn(sampleAt'[d])
              /\ sampleAt'[d] = <<>> => sampled'[d]
              /\ sampleAt'[d] # <<>> => RowsIn(sampleAt'[d]) \cap {"load", "store"} # {}
              /\ read'[d] <= calls'.counted
  BY <1>5 DEF StrategyInv
<1>13. calls'.counted = calls'.made - Cardinality(InCall')
  BY <1>5 DEF StrategyInv
<1> QED
  BY <1>5, <1>10, <1>11, <1>12, <1>13 DEF StrategyInv

LEMMA RateRead ==
    ASSUME StrategyInv, NEW c \in Goroutines, Strategy!ReadRate(c)
    PROVE  StrategyInv'
<1>1. /\ sampleAt[c] # <<>> /\ Head(sampleAt[c]) = "rate"
      /\ seen' = [seen EXCEPT ![c] = rate]
      /\ sampleAt' = [sampleAt EXCEPT ![c] = Tail(@)]
      /\ UNCHANGED <<strategies, default, rate, recent, adjusts, record, sampled, read, stats,
                     overall, calls>>
  BY DEF Strategy!ReadRate, Strategy!Idle
<1>2. /\ seen' \in [Goroutines -> MinRate..One] /\ seen'[c] = rate
      /\ \A d \in Goroutines \ {c} : seen'[d] = seen[d]
  BY <1>1, StrategyTypes
<1>3. \A s \in strategies : s # Head(sampleAt[c])
  BY <1>1, StrategyTypes DEF Strategy!Strategies
<1>4. \A d \in Goroutines : default = "priority" /\ record[d] = "error" => sampled'[d]
  BY <1>1, AccountedMeans DEF StrategyInv
<1>5. /\ sampled' \in [Goroutines -> BOOLEAN]
      /\ stats' \in [Strategy!Strategies -> [evaluated : Nat, sampled : Nat, dropped : Nat]]
  BY <1>1, StrategyTypes
<1> QED
  BY <1>1, <1>2, <1>3, <1>4, <1>5, StepDone

(* A strategy counts a record it has decided about, as one or the other.   *)
LEMMA Counted ==
    ASSUME NEW n \in [evaluated : Nat, sampled : Nat, dropped : Nat], NEW s, NEW sort,
           NEW yes \in BOOLEAN
    PROVE  LET m == Strategy!Count(n, s, sort, yes)
           IN  /\ m \in [evaluated : Nat, sampled : Nat, dropped : Nat]
               /\ m.evaluated = n.evaluated + 1
               /\ m.sampled + m.dropped = n.sampled + n.dropped + 1
<1> DEFINE one == IF yes THEN 1 ELSE 0
           other == IF yes THEN 0 ELSE 1
<1>1. Strategy!Count(n, s, sort, yes)
         = [n EXCEPT !.evaluated = @ + 1, !.sampled = @ + one, !.dropped = @ + other]
  BY DEF Strategy!Count
<1>2. one \in Nat /\ other \in Nat /\ one + other = 1
  OBVIOUS
<1> HIDE DEF one, other
<1>3. Strategy!Count(n, s, sort, yes)
         = [evaluated |-> n.evaluated + 1, sampled |-> n.sampled + one, dropped |-> n.dropped + other]
  BY <1>1
<1> QED
  BY <1>2, <1>3

(* The rule about errors lets them through.                                *)
LEMMA ErrorsPass ==
    ASSUME NEW s, NEW sort
    PROVE  /\ Strategy!Verdicts(s, sort) \subseteq BOOLEAN
           /\ \A yes \in Strategy!Verdicts("priority", "error") : yes = TRUE
<1>1. Strategy!HashBelowRate = {TRUE, FALSE}
  BY DEF Strategy!HashBelowRate
<1>2. /\ DOMAIN Strategy!DefaultRules = {"error", "slow"}
      /\ Strategy!DefaultRules["error"] = {TRUE} /\ Strategy!DefaultRules["slow"] = {TRUE, FALSE}
  BY <1>1 DEF Strategy!DefaultRules
<1>3. Strategy!PriorityBased(sort) \subseteq {TRUE, FALSE} /\ Strategy!PriorityBased("error") = {TRUE}
  BY <1>2 DEF Strategy!PriorityBased
<1>4. Strategy!TailBased(sort) \subseteq {TRUE, FALSE}
  BY <1>1 DEF Strategy!TailBased
<1> QED
  BY <1>1, <1>3, <1>4 DEF Strategy!Verdicts

LEMMA StrategyAsked ==
    ASSUME StrategyInv, NEW c \in Goroutines, Strategy!Ask(c)
    PROVE  StrategyInv'
<1> DEFINE s == Head(sampleAt[c])
<1>1. /\ sampleAt[c] # <<>> /\ s \in Strategy!Strategies
      /\ sampleAt' = [sampleAt EXCEPT ![c] = Tail(@)]
      /\ UNCHANGED <<strategies, default, rate, recent, adjusts, record, seen, read, overall, calls>>
  BY DEF Strategy!Ask, Strategy!Idle
<1>2. PICK yes \in Strategy!Verdicts(s, record[c]) :
         /\ sampled' = [sampled EXCEPT ![c] = IF s \in {default, "priority"} THEN yes ELSE @]
         /\ stats' = [stats EXCEPT ![s] = Strategy!Count(@, s, record[c], yes)]
  BY DEF Strategy!Ask
<1> HIDE DEF s
<1>3. yes \in BOOLEAN
  BY <1>2, ErrorsPass
<1>4. s \notin {"rate", "load", "store"}
  BY <1>1 DEF Strategy!Strategies
<1>5. Head(Tail(sampleAt[c])) = "adaptive" => seen'[c] = rate
  <2>1. Head(Tail(sampleAt[c])) # "adaptive"
    BY <1>1, <1>4, TailTaken DEF s
  <2> QED
    BY <2>1
<1>6. /\ sampled' \in [Goroutines -> BOOLEAN]
      /\ \A d \in Goroutines \ {c} : sampled'[d] = sampled[d]
      /\ sampled'[c] = IF s \in {default, "priority"} THEN yes ELSE sampled[c]
  <2>1. sampled \in [Goroutines -> BOOLEAN]
    BY StrategyTypes
  <2> QED
    BY <1>2, <1>3, <2>1, Zenon
<1>7. \A d \in Goroutines : default = "priority" /\ record[d] = "error" => sampled'[d]
  <2>1. \A d \in Goroutines : default = "priority" /\ record[d] = "error" => sampled[d]
    BY AccountedMeans DEF StrategyInv
  <2>2. default = "priority" /\ record[c] = "error" /\ s \in {default, "priority"} => yes
    BY <1>2, ErrorsPass
  <2> QED
    BY <1>6, <2>1, <2>2
<1>8. /\ stats' \in [Strategy!Strategies -> [evaluated : Nat, sampled : Nat, dropped : Nat]]
      /\ \A r \in strategies :
            IF r = s
            THEN /\ stats'[r].evaluated = stats[r].evaluated + 1
                 /\ stats'[r].sampled + stats'[r].dropped = stats[r].sampled + stats[r].dropped + 1
            ELSE stats'[r] = stats[r]
  <2> DEFINE n == stats[s]
             m == Strategy!Count(n, s, record[c], yes)
  <2>1. n \in [evaluated : Nat, sampled : Nat, dropped : Nat]
    BY <1>1, StrategyTypes
  <2>2. /\ m \in [evaluated : Nat, sampled : Nat, dropped : Nat]
        /\ m.evaluated = n.evaluated + 1 /\ m.sampled + m.dropped = n.sampled + n.dropped + 1
    BY <1>3, <2>1, Counted
  <2>3. stats' = [stats EXCEPT ![s] = m]
    BY <1>2
  <2> HIDE DEF m
  <2>4. /\ stats' \in [Strategy!Strategies -> [evaluated : Nat, sampled : Nat, dropped : Nat]]
        /\ stats'[s] = m /\ \A r \in Strategy!Strategies \ {s} : stats'[r] = stats[r]
    BY <1>1, <2>2, <2>3, StrategyTypes
  <2> QED
    BY <2>2, <2>4, StrategyTypes
<1>9. seen' \in [Goroutines -> MinRate..One] /\ \A d \in Goroutines \ {c} : seen'[d] = seen[d]
  BY <1>1, StrategyTypes
<1> QED
  BY <1>1, <1>4, <1>5, <1>6, <1>7, <1>8, <1>9, StepDone DEF s

(* The two last steps of a call, which are about no strategy.              *)
LEMMA LastSteps ==
    /\ <<"load">> \in Seq(Steps) /\ <<"store">> \in Seq(Steps) /\ <<>> \in Seq(Steps)
    /\ RowsIn(<<"load">>) = {"load"} /\ RowsIn(<<"store">>) = {"store"} /\ RowsIn(<<>>) = {}
    /\ NoRowTwice(<<"store">>) /\ PairedOn(<<"store">>) /\ NoRowTwice(<<>>) /\ PairedOn(<<>>)
    /\ <<"load">> # <<>> /\ <<"store">> # <<>> /\ Head(<<"store">>) = "store"
    /\ {"load", "store"} \cap Strategy!Strategies = {}
<1> DEFINE l == <<"load">>
           w == <<"store">>
<1>1. /\ l \in Seq(Steps) /\ DOMAIN l = {1} /\ l[1] = "load" /\ l # <<>>
      /\ w \in Seq(Steps) /\ DOMAIN w = {1} /\ w[1] = "store" /\ w # <<>> /\ Head(w) = "store"
  BY DEF Steps
<1>2. /\ <<>> \in Seq(Steps) /\ RowsIn(<<>>) = {} /\ NoRowTwice(<<>>) /\ PairedOn(<<>>)
  BY DEF RowsIn, NoRowTwice, PairedOn
<1>3. {"load", "store"} \cap Strategy!Strategies = {}
  BY DEF Strategy!Strategies
<1> HIDE DEF l, w
<1>4. RowsIn(l) = {"load"} /\ RowsIn(w) = {"store"} /\ NoRowTwice(w) /\ PairedOn(w)
  BY <1>1 DEF RowsIn, NoRowTwice, PairedOn
<1> QED
  BY <1>1, <1>2, <1>3, <1>4 DEF l, w

LEMMA TotalLoaded ==
    ASSUME StrategyInv, NEW c \in Goroutines, Strategy!Load(c)
    PROVE  StrategyInv'
<1> DEFINE w == <<"store">>
<1>1. /\ sampleAt[c] = <<"load">>
      /\ read' = [read EXCEPT ![c] = overall]
      /\ sampleAt' = [sampleAt EXCEPT ![c] = w]
      /\ UNCHANGED <<strategies, default, rate, recent, adjusts, record, seen, sampled, stats,
                     overall, calls>>
  BY DEF Strategy!Load
<1>2. /\ w \in Seq(Steps) /\ RowsIn(w) = {"store"} /\ NoRowTwice(w) /\ PairedOn(w)
      /\ w # <<>> /\ Head(w) # "adaptive"
      /\ RowsIn(sampleAt[c]) = {"load"} /\ sampleAt[c] # <<>>
  BY <1>1, LastSteps
<1> HIDE DEF w
<1>3. /\ sampleAt' \in [Goroutines -> Seq(Steps)] /\ sampleAt'[c] = w
      /\ \A d \in Goroutines \ {c} : sampleAt'[d] = sampleAt[d]
      /\ IsFiniteSet(InCall') /\ Cardinality(InCall') = Cardinality(InCall)
  <2>1. c \in InCall
    BY <1>2 DEF InCall
  <2> QED
    BY <1>1, <1>2, <2>1, PlaceMoves
<1>4. ASSUME NEW s \in strategies PROVE Cardinality(Before(s)') = Cardinality(Before(s))
  <2>1. s \notin {"load", "store"}
    BY LastSteps, StrategyTypes
  <2> QED
    BY <1>1, <1>2, <2>1, FewerToAsk
<1>5. overall \in Nat /\ overall <= calls.counted
  BY StrategyTypes, AccountedMeans DEF StrategyInv
<1>6. read' \in [Goroutines -> Nat] /\ \A d \in Goroutines : read'[d] <= calls.counted
  <2>1. read \in [Goroutines -> Nat] /\ \A d \in Goroutines : read[d] <= calls.counted
    BY StrategyTypes DEF StrategyInv
  <2> QED
    BY <1>1, <1>5, <2>1
<1>7. Strategy!TypeOK'
  BY <1>1, <1>3, <1>6, StrategyTypes DEF Strategy!TypeOK, Steps
<1>8. Strategy!SamplingAccounted'
  <2>1. Strategy!SamplingAccounted
    BY DEF StrategyInv
  <2>2. \A d \in Goroutines :
           sampleAt'[d] # <<>> /\ Head(sampleAt'[d]) = "adaptive" => seen'[d] = rate'
    BY <1>1, <1>2, <1>3, <2>1, AccountedMeans
  <2> QED
    BY <1>1, <1>4, <2>1, <2>2, AccountedMeans, AccountedMeansNext
<1>9. ASSUME NEW d \in Goroutines
      PROVE  /\ NoRowTwice(sampleAt'[d]) /\ PairedOn(sampleAt'[d])
             /\ sampleAt'[d] = <<>> => sampled'[d]
             /\ sampleAt'[d] # <<>> => RowsIn(sampleAt'[d]) \cap {"load", "store"} # {}
             /\ read'[d] <= calls'.counted
  BY <1>1, <1>2, <1>3, <1>6 DEF StrategyInv
<1>10. calls'.counted = calls'.made - Cardinality(InCall')
  BY <1>1, <1>3 DEF StrategyInv
<1> QED
  BY <1>3, <1>7, <1>8, <1>9, <1>10 DEF StrategyInv

(* The end of a call: one call fewer is under way, and one more counted.   *)
LEMMA TotalStored ==
    ASSUME StrategyInv, NEW c \in Goroutines, Strategy!Store(c)
    PROVE  StrategyInv'
<1> DEFINE e == <<>>
<1>1. /\ sampleAt[c] = <<"store">>
      /\ overall' = read[c] + 1
      /\ calls' = [calls EXCEPT !.counted = @ + 1]
      /\ sampleAt' = [sampleAt EXCEPT ![c] = e]
      /\ record' = [record EXCEPT ![c] = "plain"]
      /\ seen' = [seen EXCEPT ![c] = One]
      /\ sampled' = [sampled EXCEPT ![c] = TRUE]
      /\ read' = [read EXCEPT ![c] = 0]
      /\ UNCHANGED <<strategies, default, rate, recent, adjusts, stats>>
  BY DEF Strategy!Store
<1>2. /\ e \in Seq(Steps) /\ RowsIn(e) = {} /\ NoRowTwice(e) /\ PairedOn(e) /\ e = <<>>
      /\ RowsIn(sampleAt[c]) = {"store"} /\ sampleAt[c] # <<>>
  BY <1>1, LastSteps
<1> HIDE DEF e
<1>3. /\ sampleAt' \in [Goroutines -> Seq(Steps)] /\ sampleAt'[c] = e
      /\ \A d \in Goroutines \ {c} : sampleAt'[d] = sampleAt[d]
      /\ IsFiniteSet(InCall') /\ Cardinality(InCall) \in Nat /\ Cardinality(InCall') \in Nat
      /\ Cardinality(InCall') = Cardinality(InCall) - 1
  <2>1. c \in InCall
    BY <1>2 DEF InCall
  <2> QED
    BY <1>1, <1>2, <2>1, PlaceMoves
<1>4. ASSUME NEW s \in strategies PROVE Cardinality(Before(s)') = Cardinality(Before(s))
  <2>1. s \notin {"load", "store"}
    BY LastSteps, StrategyTypes
  <2> QED
    BY <1>1, <1>2, <2>1, FewerToAsk
<1>5. /\ calls \in [made : 0..MaxRecords, counted : 0..MaxRecords]
      /\ calls.counted = calls.made - Cardinality(InCall)
  BY StrategyTypes DEF StrategyInv
<1>6. /\ calls' \in [made : 0..MaxRecords, counted : 0..MaxRecords]
      /\ calls'.made = calls.made /\ calls'.counted = calls.counted + 1
      /\ calls.counted \in Nat
  <2>1. calls.counted + 1 \in 0..MaxRecords
    BY <1>3, <1>5, SamplingBounds
  <2> QED
    BY <1>1, <1>5, <2>1, SamplingBounds
<1>7. /\ read \in [Goroutines -> Nat] /\ \A d \in Goroutines : read[d] <= calls.counted
  BY StrategyTypes DEF StrategyInv
<1>8. /\ overall' \in Nat /\ overall' > 0 /\ overall' <= calls'.counted
  <2>1. read[c] \in Nat /\ read[c] <= calls.counted
    BY <1>7
  <2> QED
    BY <1>1, <1>6, <2>1
<1>9. read' \in [Goroutines -> Nat] /\ \A d \in Goroutines : read'[d] <= calls'.counted
  <2>1. ASSUME NEW d \in Goroutines PROVE read'[d] \in Nat /\ read'[d] <= calls'.counted
    <3>1. read'[d] = IF d = c THEN 0 ELSE read[d]
      BY <1>1, <1>7
    <3>2. read[d] \in Nat /\ read[d] <= calls.counted
      BY <1>7
    <3> QED
      BY <1>6, <3>1, <3>2
  <2> QED
    BY <1>1, <1>7, <2>1
<1>10. /\ seen' \in [Goroutines -> MinRate..One] /\ \A d \in Goroutines \ {c} : seen'[d] = seen[d]
       /\ record' \in [Goroutines -> Strategy!RecordKinds]
       /\ record'[c] = "plain" /\ \A d \in Goroutines \ {c} : record'[d] = record[d]
       /\ sampled' \in [Goroutines -> BOOLEAN]
       /\ sampled'[c] = TRUE /\ \A d \in Goroutines \ {c} : sampled'[d] = sampled[d]
  <2>1. One \in MinRate..One /\ "plain" \in Strategy!RecordKinds
    BY SamplingBounds DEF Strategy!RecordKinds
  <2> QED
    BY <1>1, <2>1, StrategyTypes
<1>11. Strategy!TypeOK'
  BY <1>1, <1>3, <1>6, <1>8, <1>9, <1>10, StrategyTypes DEF Strategy!TypeOK, Steps
<1>12. Strategy!SamplingAccounted
  BY DEF StrategyInv
<1>13. \A s \in strategies' :
          /\ stats'[s].evaluated = stats'[s].sampled + stats'[s].dropped
          /\ stats'[s].evaluated = calls'.made - Cardinality(Before(s)')
  BY <1>1, <1>4, <1>6, <1>12, AccountedMeans
<1>14. \A d \in Goroutines :
          sampleAt'[d] # <<>> /\ Head(sampleAt'[d]) = "adaptive" => seen'[d] = rate'
  BY <1>1, <1>2, <1>3, <1>10, <1>12, AccountedMeans
<1>15. \A d \in Goroutines : default' = "priority" /\ record'[d] = "error" => sampled'[d]
  BY <1>1, <1>10, <1>12, AccountedMeans
<1>16. Strategy!SamplingAccounted'
  BY <1>8, <1>13, <1>14, <1>15, AccountedMeansNext
<1>17. ASSUME NEW d \in Goroutines
       PROVE  /\ NoRowTwice(sampleAt'[d]) /\ PairedOn(sampleAt'[d])
              /\ sampleAt'[d] = <<>> => sampled'[d]
              /\ sampleAt'[d] # <<>> => RowsIn(sampleAt'[d]) \cap {"load", "store"} # {}
              /\ read'[d] <= calls'.counted
  BY <1>2, <1>3, <1>9, <1>10 DEF StrategyInv
<1>18. calls'.counted = calls'.made - Cardinality(InCall')
  BY <1>3, <1>5, <1>6
<1> QED
  BY <1>3, <1>11, <1>16, <1>17, <1>18 DEF StrategyInv

(* An adjusted rate stays within its bounds.                               *)
LEMMA RateAdjusted ==
    ASSUME rate \in MinRate..One, Strategy!AdjustRate
    PROVE  rate' \in MinRate..One
<1>1. /\ rate \in Nat /\ MinRate \in Nat /\ One \in Nat /\ MinRate <= rate /\ rate <= One
  BY SamplingBounds
<1> DEFINE down == (rate * 8) \div 10
           up == (rate * 11) \div 10
<1>2. down \in Int /\ down <= rate /\ up \in Int /\ rate <= up
  BY <1>1
<1>3. rate' \in {Strategy!Larger(down, MinRate), Strategy!Smaller(up, One)}
  BY DEF Strategy!AdjustRate
<1> HIDE DEF down, up
<1>4. /\ Strategy!Larger(down, MinRate) \in MinRate..One
      /\ Strategy!Smaller(up, One) \in MinRate..One
  BY <1>1, <1>2 DEF Strategy!Larger, Strategy!Smaller
<1> QED
  BY <1>3, <1>4

(* A step in which no call goes on.                                        *)
LEMMA RateMoves ==
    ASSUME StrategyInv, rate' \in MinRate..One, recent' \in BOOLEAN, adjusts' \in 0..MaxAdjusts,
           rate' = rate \/ \A c \in Goroutines : sampleAt[c] = <<>>,
           UNCHANGED <<strategies, default, sampleAt, record, seen, sampled, read, stats,
                       overall, calls>>
    PROVE  StrategyInv'
<1>1. Strategy!TypeOK'
  BY StrategyTypes DEF Strategy!TypeOK, Steps
<1>2. InCall' = InCall /\ \A s : Before(s)' = Before(s)
  BY DEF InCall, Before
<1>3. Strategy!SamplingAccounted
  BY DEF StrategyInv
<1>4. \A c \in Goroutines :
         sampleAt'[c] # <<>> /\ Head(sampleAt'[c]) = "adaptive" => seen'[c] = rate'
  BY <1>3, AccountedMeans
<1>5. \A s \in strategies' :
         /\ stats'[s].evaluated = stats'[s].sampled + stats'[s].dropped
         /\ stats'[s].evaluated = calls'.made - Cardinality(Before(s)')
  BY <1>2, <1>3, AccountedMeans
<1>6. Strategy!SamplingAccounted'
  BY <1>3, <1>4, <1>5, AccountedMeans, AccountedMeansNext
<1> QED
  BY <1>1, <1>2, <1>6 DEF StrategyInv

LEMMA StrategyStep == StrategyInv /\ [Strategy!Next]_samplingVars => StrategyInv'
<1> SUFFICES ASSUME StrategyInv, [Strategy!Next]_samplingVars PROVE StrategyInv'
  OBVIOUS
<1>1. ASSUME NEW c \in Goroutines, Strategy!Call(c) PROVE StrategyInv'
  BY <1>1, CallMade
<1>2. ASSUME NEW c \in Goroutines, Strategy!ReadRate(c) PROVE StrategyInv'
  BY <1>2, RateRead
<1>3. ASSUME NEW c \in Goroutines, Strategy!Ask(c) PROVE StrategyInv'
  BY <1>3, StrategyAsked
<1>4. ASSUME NEW c \in Goroutines, Strategy!Load(c) PROVE StrategyInv'
  BY <1>4, TotalLoaded
<1>5. ASSUME NEW c \in Goroutines, Strategy!Store(c) PROVE StrategyInv'
  BY <1>5, TotalStored
<1>6. CASE Strategy!Adjust
  <2>1. rate' \in MinRate..One
    BY <1>6, RateAdjusted, StrategyTypes DEF Strategy!Adjust
  <2>2. recent' \in BOOLEAN /\ adjusts' \in 0..MaxAdjusts
    <3>1. /\ adjusts < MaxAdjusts /\ adjusts' = adjusts + 1 /\ recent' = (rate' # rate)
          /\ adjusts \in 0..MaxAdjusts
      BY <1>6, StrategyTypes DEF Strategy!Adjust, Strategy!AdjustRate
    <3>2. adjusts' \in 0..MaxAdjusts
      BY <3>1, SamplingBounds
    <3> QED
      BY <3>1, <3>2
  <2> QED
    BY <1>6, <2>1, <2>2, RateMoves DEF Strategy!Adjust, Strategy!Idle
<1>7. CASE Strategy!IntervalPasses
  BY <1>7, RateMoves, StrategyTypes DEF Strategy!IntervalPasses
<1>8. CASE UNCHANGED samplingVars
  BY <1>8, RateMoves, StrategyTypes DEF samplingVars
<1> QED
  BY <1>1, <1>2, <1>3, <1>4, <1>5, <1>6, <1>7, <1>8 DEF Strategy!Next

(* Every strategy counts every record once and decides with the rate in    *)
(* force; the sampler's own total only falls behind; and of a minute no    *)
(* more than two bursts are let through.                                   *)
THEOREM SamplingKept == Spec => []SamplingAccounted
<1>1. BurstsInv /\ StrategyInv => SamplingAccounted
  BY DEF BurstsInv, StrategyInv, SamplingAccounted
<1>2. Init => BurstsInv /\ StrategyInv
  BY BeginsAll, BurstsInit, StrategyInit
<1>3. BurstsInv /\ StrategyInv /\ [Next]_vars => BurstsInv' /\ StrategyInv'
  BY StepOfOne, BurstsStep, StrategyStep
<1> QED
  BY <1>1, <1>2, <1>3, PTL DEF Spec

-----------------------------------------------------------------------------
(* The audit log.  Who holds its mutex is in the middle of Log, and what   *)
(* it is doing says which of the files are there.                          *)

EventsIn(f) == IF f = Absent THEN {} ELSE RowsIn(f) \ {Torn}

Rising(f) == f # Absent => \A p, q \in DOMAIN f :
                              p < q /\ f[p] # Torn /\ f[q] # Torn => f[p] < f[q]

Doing == IF auditMu = Nobody THEN "idle" ELSE auditAt[auditMu]

(* While the files move up, the place below the one that moved last.       *)
Hole == IF Doing = "shift" THEN shift + 1 ELSE 0

FilledUp(i) == files[i] # Absent /\ Len(files[i]) >= MaxFileSize

AuditTyped ==
    /\ Audit!TypeOK
    /\ shift < MaxFiles
    /\ written \in Seq(Nat) /\ Len(written) <= MaxEvents
    /\ files[MaxFiles] = Absent \/ MaxFiles = 1
    /\ \A i \in 1..MaxFiles : files[i] # Absent => FilledUp(i)

AuditLocked ==
    /\ \A l \in Goroutines : auditAt[l] \in {"write", "stat", "shift", "create"} => auditMu = l
    /\ Doing \in {"idle", "write", "stat", "shift", "create"} /\ (Doing = "idle" => auditMu = Nobody)
    /\ handle = "down" => Doing = "idle"
    /\ handle = "open" => files[0] # Absent
    /\ Doing = "write" => Len(written) < MaxEvents
    /\ Doing = "stat" => handle = "open"
    /\ Doing = "shift" => handle # "open" /\ FilledUp(0)
    /\ Doing = "create" => handle # "open" /\ files[0] = Absent /\ FilledUp(1)

FilesOrdered ==
    /\ \A i \in Audit!Files : Rising(files[i]) /\ EventsIn(files[i]) \subseteq 1..Len(written)
    /\ \A i, j \in Audit!Files : i > j =>
          \A a \in EventsIn(files[i]), b \in EventsIn(files[j]) : a < b

Kept == UNION {EventsIn(files[i]) : i \in Audit!Files}
Lost == Kept # 1..Len(written)

FilesKept ==
    "rename" \notin damage =>
        /\ \A e \in Kept : e..Len(written) \subseteq Kept
        /\ Hole \in 1..(MaxFiles - 1) => files[Hole] = Absent
        /\ Lost => \E i \in Audit!Files : FilledUp(i)
        /\ "gap" \notin damage =>
              /\ \A i, j \in 1..MaxFiles : i > j /\ files[i] # Absent /\ j # Hole => files[j] # Absent
              /\ Lost => \A i \in 1..(MaxFiles - 1) : i # Hole => files[i] # Absent

AuditInv == AuditTyped /\ AuditLocked /\ FilesOrdered /\ FilesKept

LEMMA AuditBounds ==
    /\ MaxFiles \in Nat \ {0} /\ MaxFileSize \in Nat \ {0} /\ MaxEvents \in Nat
    /\ Nobody \notin Goroutines
    /\ Torn \notin Nat /\ Absent \notin Seq(Nat \cup {Torn})
  BY ComponentsAssumption DEF Audit!AuditAssumption

(* The types, by name.                                                     *)
LogFile == Seq((1..MaxEvents) \cup {Torn})

LEMMA AuditTypes ==
    ASSUME AuditTyped
    PROVE  /\ files \in [0..MaxFiles -> LogFile \cup {Absent}]
           /\ auditMu \in Goroutines \cup {Nobody}
           /\ auditAt \in [Goroutines -> {"idle", "write", "stat", "shift", "create", "ok", "error"}]
           /\ shift \in 0..(MaxFiles - 1) /\ written \in Seq(Nat) /\ Len(written) \in 0..MaxEvents
           /\ handle \in {"open", "closed", "nil", "down"} /\ encoder \in {"ok", "failed"}
           /\ damage \subseteq {"rename", "rotation", "write", "gap"}
<1>1. Len(written) \in Nat
  BY LenProperties DEF AuditTyped
<1> QED
  BY <1>1, AuditBounds DEF AuditTyped, Audit!TypeOK, Audit!Files, LogFile

LEMMA AbsentIsNoFile == \A f \in LogFile : f # Absent /\ Len(f) \in Nat
<1>1. LogFile \subseteq Seq(Nat \cup {Torn})
  BY AuditBounds DEF LogFile
<1> QED
  BY <1>1, AuditBounds, LenProperties

(* A line more in a file: an event of the next number, or half of one.     *)
LEMMA LineWritten ==
    ASSUME NEW f \in LogFile, NEW e \in (1..MaxEvents) \cup {Torn}, Rising(f),
           \A a \in EventsIn(f) : e # Torn => a < e
    PROVE  /\ Append(f, e) \in LogFile /\ Append(f, e) # Absent /\ f # Absent
           /\ Len(Append(f, e)) = Len(f) + 1 /\ Len(f) \in Nat
           /\ Rising(Append(f, e)) /\ EventsIn(Append(f, e)) = EventsIn(f) \cup ({e} \ {Torn})
<1> DEFINE g == Append(f, e)
<1>1. /\ g \in LogFile /\ Len(g) = Len(f) + 1 /\ Len(f) \in Nat
      /\ DOMAIN f = 1..Len(f) /\ DOMAIN g = 1..(Len(f) + 1)
      /\ \A k \in 1..Len(f) : g[k] = f[k]
      /\ g[Len(f) + 1] = e
  BY AppendProperties, LenProperties DEF LogFile
<1> HIDE DEF g
<1>2. f # Absent /\ g # Absent
  BY <1>1, AbsentIsNoFile
<1>3. EventsIn(g) = EventsIn(f) \cup ({e} \ {Torn})
  <2>1. RowsIn(g) = RowsIn(f) \cup {e}
    BY <1>1 DEF RowsIn
  <2> QED
    BY <1>2, <2>1 DEF EventsIn
<1>4. Rising(g)
  <2> SUFFICES ASSUME NEW p \in DOMAIN g, NEW q \in DOMAIN g, p < q, g[p] # Torn, g[q] # Torn
               PROVE  g[p] < g[q]
    BY DEF Rising
  <2>1. p \in DOMAIN f /\ g[p] = f[p]
    BY <1>1
  <2>2. CASE q \in DOMAIN f
    BY <1>1, <1>2, <2>1, <2>2 DEF Rising
  <2>3. CASE q \notin DOMAIN f
    <3>1. q = Len(f) + 1 /\ g[q] = e
      BY <1>1, <2>3
    <3>2. f[p] \in EventsIn(f)
      BY <1>2, <2>1 DEF EventsIn, RowsIn
    <3> QED
      BY <2>1, <3>1, <3>2
  <2> QED
    BY <2>2, <2>3
<1> QED
  BY <1>1, <1>2, <1>3, <1>4 DEF g

LEMMA AuditInit == Audit!Init => AuditInv
<1> SUFFICES ASSUME Audit!Init PROVE AuditInv
  OBVIOUS
<1>1. /\ files = [i \in 0..MaxFiles |-> IF i = 0 THEN <<>> ELSE Absent]
      /\ handle = "open" /\ encoder = "ok" /\ auditMu = Nobody
      /\ auditAt = [l \in Goroutines |-> "idle"] /\ shift = 0 /\ written = <<>>
      /\ damage = {}
  BY DEF Audit!Init, Audit!Files
<1>2. /\ <<>> \in LogFile /\ <<>> # Absent /\ RowsIn(<<>>) = {} /\ Len(<<>>) = 0
      /\ <<>> \in Seq(Nat) /\ Rising(<<>>)
  <2>1. <<>> \in LogFile /\ RowsIn(<<>>) = {} /\ <<>> \in Seq(Nat) /\ Rising(<<>>) /\ Len(<<>>) = 0
    BY DEF LogFile, RowsIn, Rising
  <2> QED
    BY <2>1, AbsentIsNoFile
<1> DEFINE e == <<>>
<1>3. /\ files = [i \in 0..MaxFiles |-> IF i = 0 THEN e ELSE Absent]
      /\ e \in LogFile /\ e # Absent /\ EventsIn(e) = {} /\ EventsIn(Absent) = {}
      /\ written = e /\ Len(e) = 0 /\ e \in Seq(Nat) /\ Rising(e) /\ Rising(Absent)
  BY <1>1, <1>2 DEF EventsIn, Rising
<1> HIDE DEF e
<1>4. AuditTyped
  <2>1. Audit!TypeOK
    BY <1>1, <1>3, AuditBounds DEF Audit!TypeOK, Audit!Files, LogFile
  <2> QED
    BY <1>1, <1>3, <2>1, AuditBounds DEF AuditTyped
<1>5. AuditLocked
  <2>1. Doing = "idle"
    BY <1>1 DEF Doing
  <2> QED
    BY <1>1, <1>3, <2>1, AuditBounds DEF AuditLocked
<1>6. \A i \in Audit!Files : EventsIn(files[i]) = {} /\ Rising(files[i])
  BY <1>3, AuditBounds DEF Audit!Files
<1>7. FilesOrdered
  BY <1>6 DEF FilesOrdered
<1>8. Kept = {} /\ ~Lost
  <2>1. Kept = {}
    BY <1>6 DEF Kept
  <2>2. 1..Len(written) = {}
    BY <1>3
  <2> QED
    BY <2>1, <2>2 DEF Lost
<1>9. FilesKept
  <2>1. Hole = 0
    BY <1>1 DEF Hole, Doing
  <2>2. \A i \in 1..MaxFiles : files[i] = Absent
    BY <1>3, AuditBounds
  <2> QED
    BY <1>8, <2>1, <2>2 DEF FilesKept
<1> QED
  BY <1>4, <1>5, <1>7, <1>9 DEF AuditInv

(* The files do not change, and nothing is forgotten of what went wrong.   *)
LEMMA FilesStay ==
    ASSUME AuditInv, files' = files, Len(written') = Len(written),
           "rename" \in damage => "rename" \in damage', "gap" \in damage => "gap" \in damage',
           \/ Hole' = Hole
           \/ Hole' = 0 /\ "gap" \in damage'
           \/ Hole' = MaxFiles /\ Hole = 0
           \/ "rename" \in damage'
    PROVE  FilesOrdered' /\ FilesKept'
<1>1. FilesOrdered'
  BY DEF AuditInv, FilesOrdered, Audit!Files
<1>2. Kept' = Kept /\ Lost' = Lost /\ \A i : FilledUp(i)' = FilledUp(i)
  BY DEF Kept, Lost, Audit!Files, FilledUp
<1>3. FilesKept'
  <2> SUFFICES ASSUME "rename" \notin damage' PROVE FilesKept'
    BY DEF FilesKept
  <2>1. FilesKept /\ "rename" \notin damage /\ MaxFiles \in Nat \ {0}
    BY AuditBounds DEF AuditInv
  <2>2. Hole' \in 1..(MaxFiles - 1) => files[Hole'] = Absent
    BY <2>1 DEF FilesKept
  <2>3. Lost' => \E i \in Audit!Files : FilledUp(i)'
    BY <1>2, <2>1 DEF FilesKept
  <2>4. \A e \in Kept' : e..Len(written') \subseteq Kept'
    BY <1>2, <2>1 DEF FilesKept
  <2>5. ASSUME "gap" \notin damage'
        PROVE  /\ \A i, j \in 1..MaxFiles : i > j /\ files[i] # Absent /\ j # Hole' => files[j] # Absent
               /\ Lost => \A i \in 1..(MaxFiles - 1) : i # Hole' => files[i] # Absent
    <3>1. Hole' = Hole \/ (Hole' = MaxFiles /\ Hole = 0)
      BY <2>5
    <3>2. /\ \A i, j \in 1..MaxFiles : i > j /\ files[i] # Absent /\ j # Hole => files[j] # Absent
          /\ Lost => \A i \in 1..(MaxFiles - 1) : i # Hole => files[i] # Absent
      BY <2>1, <2>5 DEF FilesKept
    <3> QED
      BY <2>1, <3>1, <3>2
  <2> HIDE DEF Hole, Lost, Kept, FilledUp
  <2> QED
    BY <1>2, <2>2, <2>3, <2>4, <2>5 DEF FilesKept, Audit!Files
<1> QED
  BY <1>1, <1>3

(* A line is added to the current file.                                    *)
LEMMA LineAdded ==
    ASSUME AuditInv, files[0] # Absent, NEW e \in (1..MaxEvents) \cup {Torn},
           files' = [files EXCEPT ![0] = Append(@, e)],
           \/ e = Torn /\ Len(written') = Len(written)
           \/ e = Len(written) + 1 /\ Len(written') = Len(written) + 1,
           "rename" \in damage => "rename" \in damage', "gap" \in damage => "gap" \in damage',
           Hole' = Hole \/ (Hole' = 0 /\ "gap" \in damage')
    PROVE  /\ files' \in [0..MaxFiles -> LogFile \cup {Absent}]
           /\ \A i \in 1..MaxFiles : files'[i] = files[i]
           /\ files'[0] # Absent
           /\ FilesOrdered' /\ FilesKept'
<1>1. /\ files \in [0..MaxFiles -> LogFile \cup {Absent}] /\ Len(written) \in Nat
      /\ MaxFiles \in Nat \ {0} /\ Torn \notin Nat
      /\ FilesOrdered /\ FilesKept /\ AuditTyped
  BY AuditTypes, AuditBounds DEF AuditInv
<1> DEFINE f == files[0]
           n == Len(written)
<1>2. f \in LogFile /\ Rising(f) /\ EventsIn(f) \subseteq 1..n /\ files' = [files EXCEPT ![0] = Append(f, e)]
  BY <1>1 DEF FilesOrdered, Audit!Files
<1>3. \A a \in EventsIn(f) : e # Torn => a < e
  BY <1>1, <1>2
<1>4. /\ Append(f, e) \in LogFile /\ Append(f, e) # Absent
      /\ Len(Append(f, e)) = Len(f) + 1 /\ Len(f) \in Nat
      /\ Rising(Append(f, e)) /\ EventsIn(Append(f, e)) = EventsIn(f) \cup ({e} \ {Torn})
  BY <1>2, <1>3, LineWritten
<1> DEFINE g == Append(f, e)
<1> HIDE DEF g
<1>5. /\ files' \in [0..MaxFiles -> LogFile \cup {Absent}] /\ files'[0] = g
      /\ \A i \in 1..MaxFiles : files'[i] = files[i]
      /\ g # Absent
  BY <1>1, <1>2, <1>4 DEF g
<1>6. /\ Rising(g) /\ EventsIn(g) = EventsIn(files[0]) \cup ({e} \ {Torn}) /\ Len(g) = Len(files[0]) + 1
      /\ Len(files[0]) \in Nat
  BY <1>4 DEF g
<1> HIDE DEF f
<1>7. Len(written') \in Nat /\ n <= Len(written')
  BY <1>1
<1>8. /\ 0 \in Audit!Files /\ \A i \in Audit!Files : i = 0 \/ (i \in 1..MaxFiles /\ i > 0)
      /\ \A i \in 1..MaxFiles : i \in Audit!Files
      /\ \A i, j \in Audit!Files : i > j => i \in 1..MaxFiles
  BY <1>1 DEF Audit!Files
<1>9. FilesOrdered'
  <2>1. ASSUME NEW i \in Audit!Files
        PROVE  Rising(files'[i]) /\ EventsIn(files'[i]) \subseteq 1..Len(written')
    <3>1. Rising(files[i]) /\ EventsIn(files[i]) \subseteq 1..n
      BY <1>1 DEF FilesOrdered
    <3>2. CASE i = 0
      <4>1. \A a \in EventsIn(g) : a \in EventsIn(files[0]) \/ (a = e /\ e # Torn)
        BY <1>6
      <4>2. EventsIn(files[0]) \subseteq 1..n /\ files'[i] = g
        BY <1>5, <3>1, <3>2
      <4>3. e # Torn => e \in 1..Len(written')
        BY <1>1
      <4>4. \A a \in EventsIn(g) : a \in 1..Len(written')
        BY <1>7, <4>1, <4>2, <4>3
      <4> QED
        BY <1>6, <4>2, <4>4
    <3>3. CASE i # 0
      BY <1>1, <1>5, <1>7, <1>8, <3>1, <3>3
    <3> QED
      BY <3>2, <3>3
  <2>2. ASSUME NEW i \in Audit!Files, NEW j \in Audit!Files, i > j,
               NEW a \in EventsIn(files'[i]), NEW b \in EventsIn(files'[j])
        PROVE  a < b
    <3>1. i \in 1..MaxFiles /\ files'[i] = files[i] /\ a \in 1..n
      BY <1>1, <1>5, <1>8, <2>2 DEF FilesOrdered
    <3>2. b \in EventsIn(files[j]) \/ b = n + 1
      BY <1>1, <1>5, <1>6, <1>8, <2>2
    <3> QED
      BY <1>1, <2>2, <3>1, <3>2 DEF FilesOrdered
  <2> QED
    BY <2>1, <2>2 DEF FilesOrdered, Audit!Files
<1>10. Kept' = Kept \cup ({e} \ {Torn})
  <2>1. Kept' = UNION {EventsIn(files'[i]) : i \in Audit!Files}
    BY DEF Kept, Audit!Files
  <2>2. \A i \in Audit!Files : EventsIn(files'[i]) = IF i = 0 THEN EventsIn(files[0]) \cup ({e} \ {Torn})
                                                     ELSE EventsIn(files[i])
    <3>1. ASSUME NEW i \in Audit!Files, i # 0 PROVE EventsIn(files'[i]) = EventsIn(files[i])
      BY <1>5, <1>8, <3>1
    <3>2. EventsIn(files'[0]) = EventsIn(files[0]) \cup ({e} \ {Torn})
      BY <1>5, <1>6
    <3> QED
      BY <3>1, <3>2
  <2> QED
    BY <1>8, <2>1, <2>2 DEF Kept
<1>11. Lost' = Lost
  <2>1. Kept \subseteq 1..n
    BY <1>1 DEF Kept, FilesOrdered
  <2>2. CASE e = Torn
    BY <1>10, <2>2, <1>1 DEF Lost
  <2>3. CASE e = n + 1 /\ e # Torn
    <3>1. Len(written') = n + 1
      BY <1>1, <2>3
    <3>2. Kept' = Kept \cup {n + 1} /\ 1..(n + 1) = (1..n) \cup {n + 1} /\ n + 1 \notin 1..n
      BY <1>1, <1>10, <2>3
    <3>3. Kept' = 1..(n + 1) <=> Kept = 1..n
      BY <2>1, <3>2
    <3> QED
      BY <3>1, <3>3 DEF Lost
  <2> QED
    BY <1>1, <2>2, <2>3
<1>12. \A i \in Audit!Files : FilledUp(i) => FilledUp(i)'
  <2>1. ASSUME NEW i \in Audit!Files, FilledUp(i) PROVE FilledUp(i)'
    <3>1. files[i] # Absent /\ Len(files[i]) >= MaxFileSize
      BY <2>1 DEF FilledUp
    <3>2. files'[i] # Absent /\ Len(files'[i]) >= MaxFileSize
      <4>1. CASE i = 0
        <5>1. files'[i] = g /\ Len(files[0]) >= MaxFileSize
          BY <1>5, <3>1, <4>1
        <5>2. Len(g) >= MaxFileSize
          BY <1>6, <5>1, AuditBounds
        <5> QED
          BY <1>5, <5>1, <5>2
      <4>2. CASE i # 0
        BY <1>5, <1>8, <3>1, <4>2
      <4> QED
        BY <4>1, <4>2
    <3> QED
      BY <3>2 DEF FilledUp
  <2> QED
    BY <2>1
<1>13. FilesKept'
  <2> SUFFICES ASSUME "rename" \notin damage' PROVE FilesKept'
    BY DEF FilesKept
  <2>1. "rename" \notin damage
    OBVIOUS
  <2>2. \A d \in Kept' : d..Len(written') \subseteq Kept'
    <3> SUFFICES ASSUME NEW d \in Kept', NEW c \in d..Len(written') PROVE c \in Kept'
      OBVIOUS
    <3>1. Kept \subseteq 1..n /\ \A x \in Kept : x..n \subseteq Kept
      BY <1>1, <2>1 DEF Kept, FilesOrdered, FilesKept
    <3>2. CASE e = Torn
      BY <1>1, <1>10, <3>1, <3>2
    <3>3. CASE e # Torn /\ e = n + 1 /\ Len(written') = n + 1
      BY <1>1, <1>10, <3>1, <3>3
    <3> QED
      BY <1>1, <3>2, <3>3
  <2>3. Hole' \in 1..(MaxFiles - 1) => files'[Hole'] = Absent
    <3>1. Hole' \in 1..(MaxFiles - 1) => Hole' = Hole /\ Hole' \in 1..MaxFiles
      BY <1>1
    <3> QED
      BY <1>1, <1>5, <2>1, <3>1 DEF FilesKept
  <2>4. Lost' => \E i \in Audit!Files : FilledUp(i)'
    BY <1>1, <1>11, <1>12, <2>1 DEF FilesKept
  <2>5. ASSUME "gap" \notin damage'
        PROVE  /\ \A i, j \in 1..MaxFiles : i > j /\ files'[i] # Absent /\ j # Hole' => files'[j] # Absent
               /\ Lost => \A i \in 1..(MaxFiles - 1) : i # Hole' => files'[i] # Absent
    <3>1. Hole' = Hole /\ "gap" \notin damage
      BY <2>5
    <3>2. /\ \A i, j \in 1..MaxFiles : i > j /\ files[i] # Absent /\ j # Hole => files[j] # Absent
          /\ Lost => \A i \in 1..(MaxFiles - 1) : i # Hole => files[i] # Absent
      BY <1>1, <2>1, <3>1 DEF FilesKept
    <3>3. \A i \in 1..(MaxFiles - 1) : i \in 1..MaxFiles
      BY <1>1
    <3> QED
      BY <1>5, <3>1, <3>2, <3>3
  <2> HIDE DEF Hole, Lost, Kept, FilledUp
  <2> QED
    BY <1>11, <2>2, <2>3, <2>4, <2>5 DEF FilesKept, Audit!Files
<1> QED
  BY <1>5, <1>9, <1>13

(* Files that are emptied, or that move up into the next place, stay in    *)
(* order.                                                                  *)
LEMMA Rearranged ==
    ASSUME FilesOrdered, Len(written') = Len(written), NEW s \in Nat,
           \A i \in Audit!Files :
              \/ EventsIn(files'[i]) = {} /\ Rising(files'[i])
              \/ i # s /\ files'[i] = files[i]
              \/ i = s + 1 /\ s \in Audit!Files /\ files'[i] = files[s]
    PROVE  FilesOrdered'
<1>1. \A i \in Audit!Files : i \in Nat
  BY AuditBounds DEF Audit!Files
<1>2. ASSUME NEW i \in Audit!Files
      PROVE  Rising(files'[i]) /\ EventsIn(files'[i]) \subseteq 1..Len(written')
  BY DEF FilesOrdered
<1>3. ASSUME NEW i \in Audit!Files, NEW j \in Audit!Files, i > j,
             NEW a \in EventsIn(files'[i]), NEW b \in EventsIn(files'[j])
      PROVE  a < b
  <2>1. \/ i # s /\ files'[i] = files[i]
        \/ i = s + 1 /\ s \in Audit!Files /\ files'[i] = files[s]
    BY <1>3
  <2>2. \/ j # s /\ files'[j] = files[j]
        \/ j = s + 1 /\ s \in Audit!Files /\ files'[j] = files[s]
    BY <1>3
  <2>3. CASE i # s /\ files'[i] = files[i] /\ j # s /\ files'[j] = files[j]
    BY <1>3, <2>3 DEF FilesOrdered
  <2>4. CASE i # s /\ files'[i] = files[i] /\ j = s + 1 /\ s \in Audit!Files /\ files'[j] = files[s]
    <3>1. i > s
      <4>1. i \in Nat /\ j \in Nat /\ i > j /\ j = s + 1
        BY <1>1, <1>3, <2>4
      <4> QED
        BY <4>1
    <3> QED
      BY <1>3, <2>4, <3>1 DEF FilesOrdered
  <2>5. CASE i = s + 1 /\ s \in Audit!Files /\ files'[i] = files[s] /\ j # s /\ files'[j] = files[j]
    <3>1. s > j
      BY <1>1, <1>3, <2>5
    <3> QED
      BY <1>3, <2>5, <3>1 DEF FilesOrdered
  <2>6. i = s + 1 => j # s + 1
    BY <1>1, <1>3
  <2> QED
    BY <2>1, <2>2, <2>3, <2>4, <2>5, <2>6
<1> QED
  BY <1>2, <1>3 DEF FilesOrdered, Audit!Files

(* What is forgotten is older than what stays.                             *)
LEMMA OldestForgotten ==
    ASSUME "rename" \notin damage, FilesKept, Len(written') = Len(written), Kept' \subseteq Kept,
           \A e \in Kept', d \in Kept \ Kept' : ~(d \in e..Len(written))
    PROVE  \A e \in Kept' : e..Len(written') \subseteq Kept'
  BY DEF FilesKept

LEMMA FileMade ==
    ASSUME AuditInv, files[0] = Absent, files' = [files EXCEPT ![0] = <<>>],
           Len(written') = Len(written), Hole' = 0, Hole = 0,
           "rename" \in damage => "rename" \in damage', "gap" \in damage => "gap" \in damage'
    PROVE  /\ files' \in [0..MaxFiles -> LogFile \cup {Absent}]
           /\ \A i \in 1..MaxFiles : files'[i] = files[i]
           /\ files'[0] # Absent
           /\ FilesOrdered' /\ FilesKept'
<1> DEFINE e == <<>>
<1>1. /\ files \in [0..MaxFiles -> LogFile \cup {Absent}] /\ Len(written) \in Nat
      /\ MaxFiles \in Nat \ {0} /\ FilesOrdered /\ FilesKept
  BY AuditTypes, AuditBounds DEF AuditInv
<1>2. e \in LogFile /\ e # Absent /\ EventsIn(e) = {} /\ Rising(e)
  <2>1. e \in LogFile /\ RowsIn(e) = {} /\ Rising(e)
    BY DEF LogFile, RowsIn, Rising
  <2> QED
    BY <2>1, AbsentIsNoFile DEF EventsIn
<1>3. files' = [files EXCEPT ![0] = e]
  OBVIOUS
<1> HIDE DEF e
<1>4. /\ files' \in [0..MaxFiles -> LogFile \cup {Absent}] /\ files'[0] = e
      /\ \A i \in 1..MaxFiles : files'[i] = files[i]
      /\ \A i \in Audit!Files : i = 0 \/ i \in 1..MaxFiles
      /\ 1..MaxFiles \subseteq Audit!Files
  BY <1>1, <1>2, <1>3 DEF Audit!Files
<1>5. FilesOrdered'
  <2>1. \A i \in Audit!Files :
           \/ EventsIn(files'[i]) = {} /\ Rising(files'[i])
           \/ i # 0 /\ files'[i] = files[i]
    BY <1>2, <1>4
  <2> QED
    BY <1>1, <2>1, Rearranged
<1>6. Kept' = Kept
  <2>1. Kept' = UNION {EventsIn(files'[i]) : i \in Audit!Files}
    BY DEF Kept, Audit!Files
  <2>2. EventsIn(files[0]) = {}
    BY DEF EventsIn
  <2>3. \A i \in Audit!Files : EventsIn(files'[i]) = EventsIn(files[i])
    BY <1>2, <1>4, <2>2
  <2> QED
    BY <2>1, <2>3 DEF Kept
<1>7. \A i \in Audit!Files : FilledUp(i) => FilledUp(i)'
  BY <1>4 DEF FilledUp
<1>8. FilesKept'
  <2> SUFFICES ASSUME "rename" \notin damage' PROVE FilesKept'
    BY DEF FilesKept
  <2>1. /\ \A d \in Kept' : d..Len(written') \subseteq Kept'
        /\ Lost' = Lost
        /\ Lost' => \E i \in Audit!Files : FilledUp(i)'
    BY <1>1, <1>6, <1>7 DEF FilesKept, Lost
  <2>2. ASSUME "gap" \notin damage'
        PROVE  /\ \A i, j \in 1..MaxFiles : i > j /\ files'[i] # Absent /\ j # 0 => files'[j] # Absent
               /\ Lost => \A i \in 1..(MaxFiles - 1) : i # 0 => files'[i] # Absent
    <3>1. /\ \A i, j \in 1..MaxFiles : i > j /\ files[i] # Absent /\ j # 0 => files[j] # Absent
          /\ Lost => \A i \in 1..(MaxFiles - 1) : i # 0 => files[i] # Absent
      BY <1>1, <2>2 DEF FilesKept
    <3>2. \A i \in 1..(MaxFiles - 1) : i \in 1..MaxFiles
      BY <1>1
    <3> QED
      BY <1>4, <3>1, <3>2
  <2>3. ~(Hole' \in 1..(MaxFiles - 1))
    OBVIOUS
  <2> HIDE DEF Hole, Lost, Kept, FilledUp
  <2> QED
    BY <2>1, <2>2, <2>3 DEF FilesKept, Audit!Files
<1> QED
  BY <1>2, <1>4, <1>5, <1>8

(* A file moves up into the place that is free, the oldest only if it is   *)
(* the one that is overwritten.                                            *)
LEMMA FileMovedUp ==
    ASSUME AuditInv, Doing = "shift", files[shift] # Absent, shift + 1 < MaxFiles \/ shift = 0,
           files' = [files EXCEPT ![shift + 1] = files[shift], ![shift] = Absent],
           Len(written') = Len(written), UNCHANGED damage, Hole' = shift
    PROVE  /\ files' \in [0..MaxFiles -> LogFile \cup {Absent}]
           /\ files'[shift + 1] = files[shift] /\ files'[shift] = Absent
           /\ \A i \in 0..MaxFiles : i \notin {shift, shift + 1} => files'[i] = files[i]
           /\ FilesOrdered' /\ FilesKept'
<1> DEFINE s == shift
<1>1. /\ files \in [0..MaxFiles -> LogFile \cup {Absent}] /\ Len(written) \in Nat
      /\ MaxFiles \in Nat \ {0} /\ s \in 0..(MaxFiles - 1) /\ Hole = s + 1
      /\ FilesOrdered /\ FilesKept /\ FilledUp(0)
      /\ files[MaxFiles] = Absent \/ MaxFiles = 1
  BY AuditTypes, AuditBounds DEF AuditInv, AuditTyped, AuditLocked, Hole
<1>2. /\ files' \in [0..MaxFiles -> LogFile \cup {Absent}]
      /\ files'[s + 1] = files[s] /\ files'[s] = Absent
      /\ \A i \in 0..MaxFiles : i \notin {s, s + 1} => files'[i] = files[i]
      /\ s + 1 \in 0..MaxFiles /\ s \in 0..MaxFiles /\ s \in Nat
  BY <1>1
<1>3. files[s] # Absent /\ Hole' = s /\ (s + 1 < MaxFiles \/ s = 0)
  OBVIOUS
<1> HIDE DEF s
<1>4. EventsIn(Absent) = {} /\ Rising(Absent) /\ Audit!Files = 0..MaxFiles
  BY DEF EventsIn, Rising, Audit!Files
<1>5. FilesOrdered'
  <2>1. \A i \in Audit!Files :
           \/ EventsIn(files'[i]) = {} /\ Rising(files'[i])
           \/ i # s /\ files'[i] = files[i]
           \/ i = s + 1 /\ s \in Audit!Files /\ files'[i] = files[s]
    BY <1>2, <1>4
  <2> QED
    BY <1>1, <1>2, <2>1, Rearranged
<1>6. Kept' = UNION {EventsIn(files'[i]) : i \in 0..MaxFiles} /\ Kept = UNION {EventsIn(files[i]) : i \in 0..MaxFiles}
  BY DEF Kept, Audit!Files
<1>7. FilesKept'
  <2> SUFFICES ASSUME "rename" \notin damage PROVE FilesKept'
    BY DEF FilesKept
  <2>1. files[s + 1] = Absent \/ (MaxFiles = 1 /\ s = 0)
    <3>1. s + 1 \in 1..(MaxFiles - 1) => files[s + 1] = Absent
      BY <1>1 DEF FilesKept
    <3> QED
      BY <1>1, <3>1
  <2>2. ASSUME files[s + 1] = Absent PROVE Kept' = Kept
    <3>1. \A i \in 0..MaxFiles : i \notin {s, s + 1} => EventsIn(files'[i]) = EventsIn(files[i])
      BY <1>2
    <3>2. /\ EventsIn(files'[s]) = {} /\ EventsIn(files[s + 1]) = {}
          /\ EventsIn(files'[s + 1]) = EventsIn(files[s])
      BY <1>2, <1>4, <2>2
    <3>3. ASSUME NEW e \in Kept PROVE e \in Kept'
      <4>1. PICK i \in 0..MaxFiles : e \in EventsIn(files[i])
        BY <1>6
      <4>2. e \in EventsIn(files'[IF i = s THEN s + 1 ELSE i])
        BY <3>1, <3>2, <4>1
      <4> QED
        BY <1>2, <1>6, <4>2
    <3>4. ASSUME NEW e \in Kept' PROVE e \in Kept
      <4>1. PICK i \in 0..MaxFiles : e \in EventsIn(files'[i])
        BY <1>6
      <4>2. e \in EventsIn(files[IF i = s + 1 THEN s ELSE i])
        BY <3>1, <3>2, <4>1
      <4> QED
        BY <1>2, <1>6, <4>2
    <3> QED
      BY <3>3, <3>4
  <2>3. /\ Kept' \subseteq Kept
        /\ \A e \in Kept', d \in Kept \ Kept' : ~(d \in e..Len(written))
    <3>1. CASE files[s + 1] = Absent
      BY <2>2, <3>1
    <3>2. CASE MaxFiles = 1 /\ s = 0
      <4>1. 0..MaxFiles = {0, 1} /\ 1 > 0
        BY <3>2
      <4>2. Kept = EventsIn(files[0]) \cup EventsIn(files[1]) /\ Kept' = EventsIn(files[0])
        BY <1>2, <1>4, <1>6, <3>2, <4>1
      <4>3. \A a \in EventsIn(files[1]), b \in EventsIn(files[0]) : a < b
        BY <1>1, <1>4, <4>1 DEF FilesOrdered
      <4>4. EventsIn(files[1]) \subseteq 1..Len(written) /\ EventsIn(files[0]) \subseteq 1..Len(written)
        BY <1>1, <1>4, <4>1 DEF FilesOrdered
      <4> QED
        BY <1>1, <4>2, <4>3, <4>4
    <3> QED
      BY <2>1, <3>1, <3>2
  <2>4. \A e \in Kept' : e..Len(written') \subseteq Kept'
    BY <1>1, <2>3, OldestForgotten
  <2>5. \E i \in Audit!Files : FilledUp(i)'
    <3>1. CASE s = 0
      BY <1>1, <1>2, <1>4, <3>1 DEF FilledUp
    <3>2. CASE s # 0
      BY <1>1, <1>2, <1>4, <3>2 DEF FilledUp
    <3> QED
      BY <3>1, <3>2
  <2>6. ASSUME "gap" \notin damage
        PROVE  /\ \A i, j \in 1..MaxFiles : i > j /\ files'[i] # Absent /\ j # s => files'[j] # Absent
               /\ Lost' => \A i \in 1..(MaxFiles - 1) : i # s => files'[i] # Absent
    <3>1. /\ \A i, j \in 1..MaxFiles : i > j /\ files[i] # Absent /\ j # s + 1 => files[j] # Absent
          /\ Lost => \A i \in 1..(MaxFiles - 1) : i # s + 1 => files[i] # Absent
      BY <1>1, <2>6 DEF FilesKept
    <3>2. ASSUME NEW i \in 1..MaxFiles, NEW j \in 1..MaxFiles, i > j, files'[i] # Absent, j # s
          PROVE  files'[j] # Absent
      <4>1. CASE j = s + 1
        BY <1>2, <1>3, <4>1
      <4>2. CASE j # s + 1
        <5>1. files'[j] = files[j] /\ i # s
          BY <1>1, <1>2, <3>2, <4>2
        <5>2. CASE i = s + 1
          <6>1. s \in 1..MaxFiles /\ s > j
            BY <1>1, <3>2, <5>2
          <6> QED
            BY <1>3, <3>1, <4>2, <5>1, <6>1
        <5>3. CASE i # s + 1
          <6>1. files'[i] = files[i]
            BY <1>1, <1>2, <5>1, <5>3
          <6> QED
            BY <3>1, <3>2, <4>2, <5>1, <6>1
        <5> QED
          BY <5>2, <5>3
      <4> QED
        BY <4>1, <4>2
    <3>3. ASSUME Lost', NEW i \in 1..(MaxFiles - 1), i # s PROVE files'[i] # Absent
      <4>1. files[s + 1] = Absent
        BY <1>1, <2>1, <3>3
      <4>2. Lost
        <5>1. Kept' = Kept
          BY <2>2, <4>1
        <5> QED
          BY <3>3, <5>1 DEF Lost
      <4>3. CASE i = s + 1
        BY <1>2, <1>3, <4>3
      <4>4. CASE i # s + 1
        BY <1>1, <1>2, <3>1, <3>3, <4>2, <4>4
      <4> QED
        BY <4>3, <4>4
    <3> QED
      BY <3>2, <3>3
  <2>7. Hole' \in 1..(MaxFiles - 1) => files'[Hole'] = Absent
    BY <1>2, <1>3
  <2> HIDE DEF Hole, Lost, Kept, FilledUp
  <2> QED
    BY <1>3, <2>4, <2>5, <2>6, <2>7 DEF FilesKept, Audit!Files
<1> QED
  BY <1>2, <1>5, <1>7 DEF s

(* The oldest file is removed; those below it are all there.               *)
LEMMA OldestRemoved ==
    ASSUME AuditInv, Doing = "shift", files[shift] # Absent, shift = MaxFiles - 1, shift > 0,
           files' = [files EXCEPT ![shift] = Absent],
           Len(written') = Len(written), UNCHANGED damage, Hole' = shift
    PROVE  /\ files' \in [0..MaxFiles -> LogFile \cup {Absent}]
           /\ files'[shift] = Absent
           /\ \A i \in 0..MaxFiles : i # shift => files'[i] = files[i]
           /\ FilesOrdered' /\ FilesKept'
<1> DEFINE s == shift
<1>1. /\ files \in [0..MaxFiles -> LogFile \cup {Absent}] /\ Len(written) \in Nat
      /\ MaxFiles \in Nat \ {0} /\ s \in 0..(MaxFiles - 1) /\ Hole = s + 1
      /\ FilesOrdered /\ FilesKept /\ FilledUp(0)
      /\ files[MaxFiles] = Absent
  BY AuditTypes, AuditBounds DEF AuditInv, AuditTyped, AuditLocked, Hole
<1>2. /\ files' \in [0..MaxFiles -> LogFile \cup {Absent}]
      /\ files'[s] = Absent
      /\ \A i \in 0..MaxFiles : i # s => files'[i] = files[i]
      /\ s \in 0..MaxFiles /\ s \in Nat /\ s > 0 /\ MaxFiles = s + 1
  BY <1>1
<1>3. Hole' = s /\ files[s] # Absent
  OBVIOUS
<1> HIDE DEF s
<1>4. EventsIn(Absent) = {} /\ Rising(Absent) /\ Audit!Files = 0..MaxFiles
  BY DEF EventsIn, Rising, Audit!Files
<1>5. FilesOrdered'
  <2>1. \A i \in Audit!Files :
           \/ EventsIn(files'[i]) = {} /\ Rising(files'[i])
           \/ i # s /\ files'[i] = files[i]
    BY <1>2, <1>4
  <2> QED
    BY <1>1, <1>2, <2>1, Rearranged
<1>6. Kept' = UNION {EventsIn(files'[i]) : i \in 0..MaxFiles} /\ Kept = UNION {EventsIn(files[i]) : i \in 0..MaxFiles}
  BY DEF Kept, Audit!Files
<1>7. FilesKept'
  <2> SUFFICES ASSUME "rename" \notin damage PROVE FilesKept'
    BY DEF FilesKept
  <2>1. \A e \in Kept' : \E i \in 0..MaxFiles : i # s /\ e \in EventsIn(files[i])
    <3> SUFFICES ASSUME NEW e \in Kept' PROVE \E i \in 0..MaxFiles : i # s /\ e \in EventsIn(files[i])
      OBVIOUS
    <3>1. PICK i \in 0..MaxFiles : e \in EventsIn(files'[i])
      BY <1>6
    <3>2. i # s
      BY <1>2, <1>4, <3>1
    <3> QED
      BY <1>2, <3>1, <3>2
  <2>2. Kept' \subseteq Kept
    BY <1>6, <2>1
  <2>3. \A d \in Kept \ Kept' : d \in EventsIn(files[s])
    <3> SUFFICES ASSUME NEW d \in Kept, d \notin Kept' PROVE d \in EventsIn(files[s])
      OBVIOUS
    <3>1. PICK i \in 0..MaxFiles : d \in EventsIn(files[i])
      BY <1>6
    <3>2. i # s => files'[i] = files[i]
      BY <1>2
    <3> QED
      BY <1>6, <3>1, <3>2
  <2>4. \A e \in Kept', d \in Kept \ Kept' : ~(d \in e..Len(written))
    <3> SUFFICES ASSUME NEW e \in Kept', NEW d \in Kept \ Kept' PROVE ~(d \in e..Len(written))
      OBVIOUS
    <3>1. PICK i \in 0..MaxFiles : i # s /\ e \in EventsIn(files[i])
      BY <2>1
    <3>2. s > i
      <4>1. i # MaxFiles
        BY <1>1, <1>4, <3>1
      <4> QED
        BY <1>2, <3>1, <4>1
    <3>3. d < e
      BY <1>1, <1>2, <1>4, <2>3, <3>1, <3>2 DEF FilesOrdered
    <3>4. d \in 1..Len(written) /\ e \in 1..Len(written)
      BY <1>1, <1>2, <1>4, <2>3, <3>1 DEF FilesOrdered
    <3> QED
      BY <1>1, <3>3, <3>4
  <2>5. \A e \in Kept' : e..Len(written') \subseteq Kept'
    BY <1>1, <2>2, <2>4, OldestForgotten
  <2>6. \E i \in Audit!Files : FilledUp(i)'
    BY <1>1, <1>2, <1>4 DEF FilledUp
  <2>7. ASSUME "gap" \notin damage
        PROVE  /\ \A i, j \in 1..MaxFiles : i > j /\ files'[i] # Absent /\ j # s => files'[j] # Absent
               /\ \A i \in 1..(MaxFiles - 1) : i # s => files'[i] # Absent
    <3>1. \A i, j \in 1..MaxFiles : i > j /\ files[i] # Absent /\ j # s + 1 => files[j] # Absent
      BY <1>1, <2>7 DEF FilesKept
    <3>2. ASSUME NEW j \in 1..MaxFiles, j < s PROVE files'[j] # Absent
      <4>1. s \in 1..MaxFiles /\ s > j /\ j # s + 1 /\ j \in 0..MaxFiles /\ j # s
        BY <1>2, <3>2
      <4> QED
        BY <1>2, <1>3, <3>1, <4>1
    <3>3. files'[MaxFiles] = Absent
      BY <1>1, <1>2
    <3>4. \A i \in 1..(MaxFiles - 1) : i # s => i \in 1..MaxFiles /\ i < s
      BY <1>2
    <3>5. \A i, j \in 1..MaxFiles : i > j /\ i # MaxFiles /\ j # s => j < s
      BY <1>2
    <3> QED
      BY <3>2, <3>3, <3>4, <3>5
  <2>8. Hole' \in 1..(MaxFiles - 1) => files'[Hole'] = Absent
    BY <1>2, <1>3
  <2> HIDE DEF Hole, Lost, Kept, FilledUp
  <2> QED
    BY <1>3, <2>5, <2>6, <2>7, <2>8 DEF FilesKept, Audit!Files
<1> QED
  BY <1>2, <1>5, <1>7 DEF s

(* There is no file to move.                                               *)
LEMMA NoFileMoves ==
    ASSUME AuditInv, Doing = "shift", files[shift] = Absent, shift > 0, files' = files,
           Len(written') = Len(written), UNCHANGED damage, Hole' = shift
    PROVE  FilesOrdered' /\ FilesKept'
<1> DEFINE s == shift
<1>1. /\ Len(written) \in Nat /\ MaxFiles \in Nat \ {0} /\ s \in 1..(MaxFiles - 1) /\ Hole = s + 1
      /\ FilesOrdered /\ FilesKept
  BY AuditTypes, AuditBounds DEF AuditInv, Hole
<1>2. files[s] = Absent /\ Hole' = s
  OBVIOUS
<1> HIDE DEF s
<1>3. FilesOrdered'
  BY DEF AuditInv, FilesOrdered, Audit!Files
<1>4. Kept' = Kept /\ Lost' = Lost /\ \A i : FilledUp(i)' = FilledUp(i)
  BY DEF Kept, Lost, Audit!Files, FilledUp
<1>5. FilesKept'
  <2> SUFFICES ASSUME "rename" \notin damage PROVE FilesKept'
    BY DEF FilesKept
  <2>1. /\ \A e \in Kept' : e..Len(written') \subseteq Kept'
        /\ Lost' => \E i \in Audit!Files : FilledUp(i)'
    BY <1>1, <1>4 DEF FilesKept
  <2>2. ASSUME "gap" \notin damage
        PROVE  /\ \A i, j \in 1..MaxFiles : i > j /\ files[i] # Absent /\ j # s => files[j] # Absent
               /\ ~Lost
    <3>1. /\ \A i, j \in 1..MaxFiles : i > j /\ files[i] # Absent /\ j # s + 1 => files[j] # Absent
          /\ Lost => \A i \in 1..(MaxFiles - 1) : i # s + 1 => files[i] # Absent
      BY <1>1, <2>2 DEF FilesKept
    <3>2. s \in 1..MaxFiles /\ s # s + 1
      BY <1>1
    <3>3. \A i \in 1..MaxFiles : i > s + 1 => i > s
      BY <1>1
    <3> QED
      BY <1>1, <1>2, <3>1, <3>2, <3>3
  <2> HIDE DEF Hole, Lost, Kept, FilledUp
  <2> QED
    BY <1>2, <1>4, <2>1, <2>2 DEF FilesKept, Audit!Files
<1> QED
  BY <1>3, <1>5

Working == {"write", "stat", "shift", "create"}

LEMMA AtWork ==
    ASSUME AuditInv, NEW l \in Goroutines, auditAt[l] \in Working
    PROVE  auditMu = l /\ Doing = auditAt[l] /\ Hole = IF auditAt[l] = "shift" THEN shift + 1 ELSE 0
  BY AuditBounds DEF AuditInv, AuditLocked, Doing, Hole, Working

(* Log returns.                                                            *)
LEMMA LogReturns ==
    ASSUME AuditInv, NEW l \in Goroutines, auditMu = l, NEW answer \in {"ok", "error"},
           Audit!Return(l, answer)
    PROVE  /\ Doing' = "idle" /\ Hole' = 0 /\ auditMu' = Nobody
           /\ auditAt' \in [Goroutines -> {"idle", "write", "stat", "shift", "create", "ok", "error"}]
           /\ \A k \in Goroutines : auditAt'[k] \notin Working
<1>1. auditMu' = Nobody /\ auditAt' = [auditAt EXCEPT ![l] = answer]
  BY DEF Audit!Return
<1>2. auditAt \in [Goroutines -> {"idle", "write", "stat", "shift", "create", "ok", "error"}]
  BY AuditTypes DEF AuditInv
<1>3. \A k \in Goroutines : auditAt[k] \in Working => k = l
  BY DEF AuditInv, AuditLocked, Working
<1>4. Doing' = "idle"
  BY <1>1 DEF Doing
<1>5. Hole' = 0
  BY <1>4 DEF Hole
<1> QED
  BY <1>1, <1>2, <1>3, <1>4, <1>5 DEF Working

LEMMA LogGoesOn ==
    ASSUME AuditInv, NEW l \in Goroutines, auditMu = l, NEW label \in Working, Audit!Goto(l, label)
    PROVE  /\ Doing' = label /\ Hole' = (IF label = "shift" THEN shift' + 1 ELSE 0) /\ auditMu' = l
           /\ auditAt' \in [Goroutines -> {"idle", "write", "stat", "shift", "create", "ok", "error"}]
           /\ \A k \in Goroutines : auditAt'[k] \in Working => auditMu' = k
<1>1. auditMu' = l /\ auditAt' = [auditAt EXCEPT ![l] = label] /\ l # Nobody
  BY AuditBounds DEF Audit!Goto
<1>2. auditAt \in [Goroutines -> {"idle", "write", "stat", "shift", "create", "ok", "error"}]
  BY AuditTypes DEF AuditInv
<1>3. \A k \in Goroutines : auditAt[k] \in Working => k = l
  BY DEF AuditInv, AuditLocked, Working
<1>4. Doing' = label
  BY <1>1, <1>2 DEF Doing
<1>5. Hole' = IF label = "shift" THEN shift' + 1 ELSE 0
  BY <1>4 DEF Hole
<1> QED
  BY <1>1, <1>2, <1>3, <1>4, <1>5 DEF Working

(* The types and the lock, after a step.                                   *)
LEMMA TypedAfter ==
    ASSUME AuditTyped,
           files' \in [0..MaxFiles -> LogFile \cup {Absent}],
           files'[MaxFiles] = Absent \/ MaxFiles = 1,
           \A i \in 1..MaxFiles : files'[i] # Absent => Len(files'[i]) >= MaxFileSize,
           auditMu' \in Goroutines \cup {Nobody},
           auditAt' \in [Goroutines -> {"idle", "write", "stat", "shift", "create", "ok", "error"}],
           shift' \in 0..(MaxFiles - 1), written' \in Seq(Nat), Len(written') <= MaxEvents,
           handle' \in {"open", "closed", "nil", "down"}, encoder' \in {"ok", "failed"},
           damage' \subseteq {"rename", "rotation", "write", "gap"}
    PROVE  AuditTyped'
<1>1. shift' \in 0..MaxFiles /\ shift' < MaxFiles
  BY AuditBounds
<1> QED
  BY <1>1 DEF AuditTyped, Audit!TypeOK, Audit!Files, LogFile, FilledUp

LEMMA LockedAfter ==
    ASSUME \A k \in Goroutines : auditAt'[k] \in Working => auditMu' = k,
           Doing' \in Working \cup {"idle"}, Doing' = "idle" => auditMu' = Nobody,
           handle' = "down" => Doing' = "idle", handle' = "open" => files'[0] # Absent,
           Doing' = "write" => Len(written') < MaxEvents, Doing' = "stat" => handle' = "open",
           Doing' = "shift" => handle' # "open" /\ files'[0] # Absent /\ Len(files'[0]) >= MaxFileSize,
           Doing' = "create" => /\ handle' # "open" /\ files'[0] = Absent
                                /\ files'[1] # Absent /\ Len(files'[1]) >= MaxFileSize
    PROVE  AuditLocked'
  BY DEF AuditLocked, Working, FilledUp

(* Most steps leave the files alone.                                       *)
LEMMA AuditSame ==
    ASSUME AuditInv, files' = files
    PROVE  /\ files' \in [0..MaxFiles -> LogFile \cup {Absent}]
           /\ files'[MaxFiles] = Absent \/ MaxFiles = 1
           /\ \A i \in 1..MaxFiles : files'[i] # Absent => Len(files'[i]) >= MaxFileSize
  BY AuditTypes DEF AuditInv, AuditTyped, FilledUp

LEMMA LogLocks ==
    ASSUME AuditInv, NEW l \in Goroutines, Audit!Lock(l)
    PROVE  AuditInv'
<1>1. /\ auditMu = Nobody /\ Len(written) < MaxEvents /\ handle # "down"
      /\ auditMu' = l /\ auditAt' = [auditAt EXCEPT ![l] = "write"]
      /\ UNCHANGED <<files, handle, encoder, shift, written, damage>>
  BY DEF Audit!Lock, Audit!Running
<1>2. \A k \in Goroutines : auditAt[k] \notin Working
  BY <1>1, AuditBounds DEF AuditInv, AuditLocked, Working
<1>3. auditAt' \in [Goroutines -> {"idle", "write", "stat", "shift", "create", "ok", "error"}]
  BY <1>1, AuditTypes DEF AuditInv
<1>4. Doing = "idle" /\ Doing' = "write"
  <2>1. auditAt'[l] = "write" /\ l # Nobody
    BY <1>1, AuditTypes, AuditBounds DEF AuditInv
  <2> QED
    BY <1>1, <2>1 DEF Doing
<1>5. Hole = 0 /\ Hole' = 0
  BY <1>4 DEF Hole
<1>6. FilesOrdered' /\ FilesKept'
  BY <1>1, <1>5, FilesStay
<1>7. AuditTyped'
  BY <1>1, <1>3, AuditSame, AuditTypes, TypedAfter DEF AuditInv
<1>8. AuditLocked'
  <2>1. \A k \in Goroutines : auditAt'[k] \in Working => k = l
    BY <1>1, <1>2, AuditTypes DEF AuditInv
  <2>2. handle = "open" => files[0] # Absent
    BY DEF AuditInv, AuditLocked
  <2> QED
    BY <1>1, <1>4, <2>1, <2>2, LockedAfter DEF Working
<1> QED
  BY <1>6, <1>7, <1>8 DEF AuditInv

(* Log returns and has left the files alone, whatever else it did.         *)
LEMMA LogReturnsAsItWas ==
    ASSUME AuditInv, NEW l \in Goroutines, auditAt[l] \in {"write", "stat"},
           NEW answer \in {"ok", "error"}, Audit!Return(l, answer),
           files' = files, shift' = shift, written' = written,
           handle' \in {handle, "closed"}, encoder' \in {"ok", "failed"},
           damage' \in {damage, damage \cup {"rotation"}}
    PROVE  AuditInv'
<1>1. auditMu = l /\ Hole = 0 /\ Doing = auditAt[l]
  BY AtWork DEF Working
<1>2. /\ Doing' = "idle" /\ Hole' = 0 /\ auditMu' = Nobody
      /\ auditAt' \in [Goroutines -> {"idle", "write", "stat", "shift", "create", "ok", "error"}]
      /\ \A k \in Goroutines : auditAt'[k] \notin Working
  BY <1>1, LogReturns
<1>3. FilesOrdered' /\ FilesKept'
  BY <1>1, <1>2, FilesStay
<1>4. /\ handle' \in {"open", "closed", "nil", "down"}
      /\ damage' \subseteq {"rename", "rotation", "write", "gap"}
      /\ shift' \in 0..(MaxFiles - 1) /\ written' \in Seq(Nat) /\ Len(written') <= MaxEvents
  BY AuditTypes DEF AuditInv
<1>5. AuditTyped'
  BY <1>2, <1>4, AuditSame, TypedAfter DEF AuditInv
<1>6. AuditLocked'
  <2>1. handle' = "open" => files[0] # Absent
    BY DEF AuditInv, AuditLocked
  <2> QED
    BY <1>2, <2>1, LockedAfter
<1> QED
  BY <1>3, <1>5, <1>6 DEF AuditInv

(* What is added to a file whose write fails, or ends with the process.    *)
LEMMA LineTorn ==
    ASSUME AuditInv, files[0] # Absent,
           \E left \in {<<>>, <<Torn>>} : files' = [files EXCEPT ![0] = @ \o left]
    PROVE  files' = files \/ files' = [files EXCEPT ![0] = Append(@, Torn)]
<1>1. files \in [0..MaxFiles -> LogFile \cup {Absent}] /\ files[0] \in LogFile
  BY AuditTypes, AuditBounds DEF AuditInv
<1>2. files[0] \in Seq((1..MaxEvents) \cup {Torn})
  BY <1>1 DEF LogFile
<1> DEFINE f == files[0]
<1>3. f \o <<>> = f /\ f \o <<Torn>> = Append(f, Torn)
  <2>1. \A g \in Seq((1..MaxEvents) \cup {Torn}) : g \o <<>> = g /\ g \o <<Torn>> = Append(g, Torn)
    OBVIOUS
  <2> QED
    BY <1>2, <2>1
<1> HIDE DEF f
<1>4. files = [files EXCEPT ![0] = f]
  BY <1>1 DEF f
<1>5. CASE files' = [files EXCEPT ![0] = files[0] \o <<>>]
  <2>1. files[0] \o <<>> = f
    BY <1>3 DEF f
  <2> QED
    BY <1>4, <1>5, <2>1
<1>6. CASE files' = [files EXCEPT ![0] = files[0] \o <<Torn>>]
  <2>1. files[0] \o <<Torn>> = Append(files[0], Torn)
    BY <1>3 DEF f
  <2> QED
    BY <1>6, <2>1
<1> QED
  BY <1>5, <1>6

LEMMA EventEncoded ==
    ASSUME AuditInv, NEW l \in Goroutines, Audit!Encode(l)
    PROVE  AuditInv'
<1> DEFINE e == Len(written) + 1
<1>1. /\ auditAt[l] = "write" /\ handle = "open"
      /\ files' = [files EXCEPT ![0] = Append(@, e)] /\ written' = Append(written, e)
      /\ Audit!Goto(l, "stat") /\ UNCHANGED <<handle, encoder, shift, damage>>
  BY DEF Audit!Encode
<1>2. auditMu = l /\ Hole = 0 /\ Doing = "write" /\ "stat" \in Working
  BY <1>1, AtWork DEF Working
<1>3. /\ Doing' = "stat" /\ Hole' = 0 /\ auditMu' = l
      /\ auditAt' \in [Goroutines -> {"idle", "write", "stat", "shift", "create", "ok", "error"}]
      /\ \A k \in Goroutines : auditAt'[k] \in Working => auditMu' = k
  BY <1>1, <1>2, LogGoesOn
<1>4. /\ files[0] # Absent /\ Len(written) < MaxEvents /\ Len(written) \in Nat /\ written \in Seq(Nat)
  BY <1>1, <1>2, AuditTypes DEF AuditInv, AuditLocked
<1>5. /\ e \in 1..MaxEvents /\ written' \in Seq(Nat) /\ Len(written') = Len(written) + 1
  BY <1>1, <1>4, AppendProperties, AuditBounds
<1> HIDE DEF e
<1>6. e = Len(written) + 1
  BY DEF e
<1>7. /\ files' \in [0..MaxFiles -> LogFile \cup {Absent}]
      /\ \A i \in 1..MaxFiles : files'[i] = files[i]
      /\ files'[0] # Absent
      /\ FilesOrdered' /\ FilesKept'
  BY <1>1, <1>2, <1>3, <1>4, <1>5, <1>6, LineAdded
<1>8. AuditTyped'
  <2>1. /\ files'[MaxFiles] = Absent \/ MaxFiles = 1
        /\ \A i \in 1..MaxFiles : files'[i] # Absent => Len(files'[i]) >= MaxFileSize
    BY <1>7, AuditBounds DEF AuditInv, AuditTyped, FilledUp
  <2>2. Len(written') <= MaxEvents
    BY <1>5, <1>6
  <2> QED
    BY <1>1, <1>3, <1>5, <1>7, <2>1, <2>2, AuditTypes, TypedAfter DEF AuditInv
<1>9. AuditLocked'
  BY <1>1, <1>3, <1>7, LockedAfter DEF Working
<1> QED
  BY <1>7, <1>8, <1>9 DEF AuditInv

(* After half a line, or none, nobody works.                               *)
LEMMA TornAndIdle ==
    ASSUME AuditInv, files[0] # Absent,
           files' = files \/ files' = [files EXCEPT ![0] = Append(@, Torn)],
           written' = written, Doing' = "idle", auditMu' = Nobody,
           \/ Doing # "shift"
           \/ "gap" \in damage',
           "rename" \in damage => "rename" \in damage', "gap" \in damage => "gap" \in damage',
           auditAt' \in [Goroutines -> {"idle", "write", "stat", "shift", "create", "ok", "error"}],
           \A k \in Goroutines : auditAt'[k] \notin Working,
           shift' \in 0..(MaxFiles - 1), handle' \in {"open", "closed", "nil", "down"},
           encoder' \in {"ok", "failed"}, damage' \subseteq {"rename", "rotation", "write", "gap"}
    PROVE  AuditInv'
<1>1. Hole' = 0 /\ (Hole = 0 \/ "gap" \in damage')
  BY DEF Hole
<1>2. /\ files' \in [0..MaxFiles -> LogFile \cup {Absent}]
      /\ \A i \in 1..MaxFiles : files'[i] = files[i]
      /\ files'[0] # Absent
      /\ FilesOrdered' /\ FilesKept'
  <2>1. CASE files' = files
    BY <1>1, <2>1, FilesStay, AuditSame
  <2>2. CASE files' = [files EXCEPT ![0] = Append(@, Torn)]
    BY <1>1, <2>2, LineAdded
  <2> QED
    BY <2>1, <2>2
<1>3. AuditTyped'
  <2>1. /\ files'[MaxFiles] = Absent \/ MaxFiles = 1
        /\ \A i \in 1..MaxFiles : files'[i] # Absent => Len(files'[i]) >= MaxFileSize
    BY <1>2, AuditBounds DEF AuditInv, AuditTyped, FilledUp
  <2>2. written' \in Seq(Nat) /\ Len(written') <= MaxEvents
    BY AuditTypes DEF AuditInv
  <2> QED
    BY <1>2, <2>1, <2>2, TypedAfter DEF AuditInv
<1>4. AuditLocked'
  BY <1>2, LockedAfter
<1> QED
  BY <1>2, <1>3, <1>4 DEF AuditInv

LEMMA WriteFailed ==
    ASSUME AuditInv, NEW l \in Goroutines, Audit!WriteFails(l)
    PROVE  AuditInv'
<1>1. /\ auditAt[l] = "write" /\ handle = "open"
      /\ \E left \in {<<>>, <<Torn>>} : files' = [files EXCEPT ![0] = @ \o left]
      /\ encoder' = "failed" /\ damage' = damage \cup {"write"}
      /\ Audit!Return(l, "error") /\ UNCHANGED <<handle, shift, written>>
  BY DEF Audit!WriteFails
<1>2. auditMu = l /\ Hole = 0 /\ Doing = "write"
  BY <1>1, AtWork DEF Working
<1>3. files[0] # Absent
  BY <1>1 DEF AuditInv, AuditLocked
<1>4. /\ Doing' = "idle" /\ Hole' = 0 /\ auditMu' = Nobody
      /\ auditAt' \in [Goroutines -> {"idle", "write", "stat", "shift", "create", "ok", "error"}]
      /\ \A k \in Goroutines : auditAt'[k] \notin Working
  BY <1>1, <1>2, LogReturns
<1>5. files' = files \/ files' = [files EXCEPT ![0] = Append(@, Torn)]
  BY <1>1, <1>3, LineTorn
<1> QED
  BY <1>1, <1>2, <1>3, <1>4, <1>5, AuditTypes, TornAndIdle DEF AuditInv

LEMMA FileClosed ==
    ASSUME AuditInv, NEW l \in Goroutines, Audit!CloseFile(l)
    PROVE  AuditInv'
<1>1. /\ auditAt[l] = "stat" /\ Len(files[0]) >= MaxFileSize /\ handle' = "closed"
      /\ UNCHANGED <<files, encoder, written>>
      /\ \/ Audit!Goto(l, "shift") /\ shift' = MaxFiles - 1 /\ UNCHANGED damage
         \/ Audit!Return(l, "ok") /\ damage' = damage \cup {"rotation"} /\ UNCHANGED shift
  BY DEF Audit!CloseFile
<1>2. CASE Audit!Return(l, "ok") /\ damage' = damage \cup {"rotation"} /\ UNCHANGED shift
  BY <1>1, <1>2, LogReturnsAsItWas, AuditTypes DEF AuditInv
<1>3. CASE Audit!Goto(l, "shift") /\ shift' = MaxFiles - 1 /\ UNCHANGED damage
  <2>1. auditMu = l /\ Hole = 0 /\ Doing = "stat" /\ "shift" \in Working
    BY <1>1, AtWork DEF Working
  <2>2. /\ Doing' = "shift" /\ Hole' = shift' + 1 /\ auditMu' = l
        /\ auditAt' \in [Goroutines -> {"idle", "write", "stat", "shift", "create", "ok", "error"}]
        /\ \A k \in Goroutines : auditAt'[k] \in Working => auditMu' = k
    BY <1>3, <2>1, LogGoesOn
  <2>3. Hole' = MaxFiles /\ shift' \in 0..(MaxFiles - 1)
    BY <1>3, <2>2, AuditBounds
  <2>4. FilesOrdered' /\ FilesKept'
    BY <1>1, <1>3, <2>1, <2>3, FilesStay
  <2>5. AuditTyped'
    BY <1>1, <1>3, <2>2, <2>3, AuditSame, AuditTypes, TypedAfter DEF AuditInv
  <2>6. files[0] # Absent
    BY <1>1, <2>1 DEF AuditInv, AuditLocked
  <2>7. AuditLocked'
    BY <1>1, <2>2, <2>6, LockedAfter DEF Working
  <2> QED
    BY <2>4, <2>5, <2>7 DEF AuditInv
<1> QED
  BY <1>1, <1>2, <1>3

LEMMA FilesShift ==
    ASSUME AuditInv, NEW l \in Goroutines, Audit!Shift(l)
    PROVE  AuditInv'
<1>1. /\ auditAt[l] = "shift" /\ shift > 0 /\ shift' = shift - 1
      /\ UNCHANGED <<handle, encoder, auditMu, auditAt, written>>
      /\ \/ /\ files' = CASE files[shift] = Absent  -> files
                          [] shift = MaxFiles - 1   -> [files EXCEPT ![shift] = Absent]
                          [] OTHER -> [files EXCEPT ![shift + 1] = files[shift], ![shift] = Absent]
            /\ UNCHANGED damage
         \/ damage' = damage \cup {"rename"} /\ UNCHANGED files
  BY DEF Audit!Shift, Audit!Moved
<1>2. /\ auditMu = l /\ Hole = shift + 1 /\ Doing = "shift" /\ FilledUp(0)
      /\ \A i \in 1..MaxFiles : files[i] # Absent => FilledUp(i)
      /\ files[MaxFiles] = Absent \/ MaxFiles = 1
  BY <1>1, AtWork DEF Working, AuditInv, AuditLocked, AuditTyped
<1>3. /\ files \in [0..MaxFiles -> LogFile \cup {Absent}] /\ MaxFiles \in Nat \ {0}
      /\ shift \in 1..(MaxFiles - 1)
  BY <1>1, AuditTypes, AuditBounds DEF AuditInv
<1>4. Doing' = "shift" /\ Hole' = shift
  <2>1. Doing' = "shift"
    BY <1>1, <1>2 DEF Doing
  <2>2. Hole' = shift' + 1
    BY <2>1 DEF Hole
  <2> QED
    BY <1>1, <1>3, <2>1, <2>2
<1>5. /\ FilesOrdered' /\ FilesKept'
      /\ files' \in [0..MaxFiles -> LogFile \cup {Absent}]
      /\ files'[0] = files[0]
      /\ files'[MaxFiles] = Absent \/ MaxFiles = 1
      /\ \A i \in 1..MaxFiles : files'[i] # Absent => Len(files'[i]) >= MaxFileSize
      /\ damage' \subseteq {"rename", "rotation", "write", "gap"}
  <2>1. damage \subseteq {"rename", "rotation", "write", "gap"}
    BY AuditTypes DEF AuditInv
  <2>2. CASE damage' = damage \cup {"rename"} /\ UNCHANGED files
    BY <1>1, <2>1, <2>2, AuditSame, FilesStay
  <2>3. CASE files' = files /\ files[shift] = Absent /\ UNCHANGED damage
    BY <1>1, <1>2, <1>4, <2>1, <2>3, AuditSame, NoFileMoves
  <2>4. CASE /\ files[shift] # Absent /\ shift = MaxFiles - 1 /\ UNCHANGED damage
             /\ files' = [files EXCEPT ![shift] = Absent]
    <3>1. /\ files' \in [0..MaxFiles -> LogFile \cup {Absent}]
          /\ files'[shift] = Absent
          /\ \A i \in 0..MaxFiles : i # shift => files'[i] = files[i]
          /\ FilesOrdered' /\ FilesKept'
      BY <1>1, <1>2, <1>4, <2>4, OldestRemoved
    <3> QED
      BY <1>2, <1>3, <2>1, <2>4, <3>1 DEF FilledUp
  <2>5. CASE /\ files[shift] # Absent /\ shift # MaxFiles - 1 /\ UNCHANGED damage
             /\ files' = [files EXCEPT ![shift + 1] = files[shift], ![shift] = Absent]
    <3>1. shift + 1 < MaxFiles
      BY <1>3, <2>5
    <3>2. /\ files' \in [0..MaxFiles -> LogFile \cup {Absent}]
          /\ files'[shift + 1] = files[shift] /\ files'[shift] = Absent
          /\ \A i \in 0..MaxFiles : i \notin {shift, shift + 1} => files'[i] = files[i]
          /\ FilesOrdered' /\ FilesKept'
      BY <1>1, <1>2, <1>4, <2>5, <3>1, FileMovedUp
    <3>3. files'[0] = files[0] /\ (files'[MaxFiles] = Absent \/ MaxFiles = 1)
      BY <1>2, <1>3, <3>1, <3>2
    <3>4. ASSUME NEW i \in 1..MaxFiles, files'[i] # Absent PROVE Len(files'[i]) >= MaxFileSize
      <4>1. CASE i = shift + 1
        BY <1>2, <1>3, <3>2, <4>1, <2>5 DEF FilledUp
      <4>2. CASE i # shift + 1
        BY <1>2, <1>3, <3>2, <3>4, <4>2 DEF FilledUp
      <4> QED
        BY <4>1, <4>2
    <3> QED
      BY <2>1, <2>5, <3>2, <3>3, <3>4
  <2>6. CASE /\ files' = CASE files[shift] = Absent  -> files
                           [] shift = MaxFiles - 1   -> [files EXCEPT ![shift] = Absent]
                           [] OTHER -> [files EXCEPT ![shift + 1] = files[shift], ![shift] = Absent]
             /\ UNCHANGED damage
    <3>1. CASE files[shift] = Absent /\ shift # MaxFiles - 1
      BY <2>3, <2>6, <3>1
    <3>2. CASE files[shift] # Absent /\ shift = MaxFiles - 1
      BY <2>4, <2>6, <3>2
    <3>3. CASE files[shift] # Absent /\ shift # MaxFiles - 1
      BY <2>5, <2>6, <3>3
    <3>4. CASE files[shift] = Absent /\ shift = MaxFiles - 1
      <4>1. files = [files EXCEPT ![shift] = Absent]
        BY <1>3, <3>4
      <4>2. files' = files
        BY <2>6, <3>4, <4>1
      <4> QED
        BY <2>3, <2>6, <3>4, <4>2
    <3> QED
      BY <3>1, <3>2, <3>3, <3>4
  <2> QED
    BY <1>1, <2>2, <2>6
<1>6. shift' \in 0..(MaxFiles - 1)
  BY <1>1, <1>3
<1>7. AuditTyped'
  BY <1>1, <1>5, <1>6, AuditTypes, TypedAfter DEF AuditInv
<1>8. AuditLocked'
  <2>1. \A k \in Goroutines : auditAt'[k] \in Working => auditMu' = k
    BY <1>1 DEF AuditInv, AuditLocked, Working
  <2>2. /\ handle = "down" => Doing = "idle"
        /\ handle = "open" => files[0] # Absent
        /\ files[0] # Absent /\ Len(files[0]) >= MaxFileSize
    BY <1>2 DEF AuditInv, AuditLocked, FilledUp
  <2>3. handle # "open"
    BY <1>2 DEF AuditInv, AuditLocked
  <2> QED
    BY <1>1, <1>2, <1>4, <1>5, <2>1, <2>2, <2>3, LockedAfter DEF Working
<1> QED
  BY <1>5, <1>7, <1>8 DEF AuditInv

LEMMA CurrentMoved ==
    ASSUME AuditInv, NEW l \in Goroutines, Audit!MoveCurrent(l)
    PROVE  AuditInv'
<1>1. /\ auditAt[l] = "shift" /\ shift = 0 /\ UNCHANGED <<handle, encoder, shift, written>>
      /\ \/ /\ files' = [files EXCEPT ![1] = files[0], ![0] = Absent]
            /\ Audit!Goto(l, "create") /\ UNCHANGED damage
         \/ Audit!Return(l, "ok") /\ damage' = damage \cup {"rotation", "gap"} /\ UNCHANGED files
  BY DEF Audit!MoveCurrent, Audit!Moved
<1>2. /\ auditMu = l /\ Hole = 1 /\ Doing = "shift" /\ FilledUp(0)
      /\ \A i \in 1..MaxFiles : files[i] # Absent => FilledUp(i)
      /\ files[MaxFiles] = Absent \/ MaxFiles = 1
      /\ handle # "down"
  BY <1>1, AtWork DEF Working, AuditInv, AuditLocked, AuditTyped
<1>3. /\ files \in [0..MaxFiles -> LogFile \cup {Absent}] /\ MaxFiles \in Nat \ {0}
      /\ files[0] # Absent
  BY <1>2, AuditTypes, AuditBounds DEF AuditInv, FilledUp
<1>4. CASE Audit!Return(l, "ok") /\ damage' = damage \cup {"rotation", "gap"} /\ UNCHANGED files
  <2>1. /\ Doing' = "idle" /\ Hole' = 0 /\ auditMu' = Nobody
        /\ auditAt' \in [Goroutines -> {"idle", "write", "stat", "shift", "create", "ok", "error"}]
        /\ \A k \in Goroutines : auditAt'[k] \notin Working
    BY <1>2, <1>4, LogReturns
  <2>2. "gap" \in damage' /\ damage' \subseteq {"rename", "rotation", "write", "gap"} /\ damage \subseteq damage'
    BY <1>4, AuditTypes DEF AuditInv
  <2> QED
    BY <1>1, <1>3, <1>4, <2>1, <2>2, AuditTypes, TornAndIdle DEF AuditInv
<1>5. CASE /\ files' = [files EXCEPT ![1] = files[0], ![0] = Absent]
           /\ Audit!Goto(l, "create") /\ UNCHANGED damage
  <2>1. /\ Doing' = "create" /\ Hole' = 0 /\ auditMu' = l
        /\ auditAt' \in [Goroutines -> {"idle", "write", "stat", "shift", "create", "ok", "error"}]
        /\ \A k \in Goroutines : auditAt'[k] \in Working => auditMu' = k
    BY <1>2, <1>5, LogGoesOn DEF Working
  <2>2. files' = [files EXCEPT ![shift + 1] = files[shift], ![shift] = Absent]
    BY <1>1, <1>5
  <2>3. /\ files' \in [0..MaxFiles -> LogFile \cup {Absent}]
        /\ files'[0 + 1] = files[0] /\ files'[0] = Absent
        /\ \A i \in 0..MaxFiles : i \notin {0, 0 + 1} => files'[i] = files[i]
        /\ FilesOrdered' /\ FilesKept'
    BY <1>1, <1>2, <1>3, <1>5, <2>1, <2>2, FileMovedUp
  <2>4. files'[MaxFiles] = Absent \/ MaxFiles = 1
    BY <1>2, <1>3, <2>3
  <2>5. ASSUME NEW i \in 1..MaxFiles, files'[i] # Absent PROVE Len(files'[i]) >= MaxFileSize
    <3>1. CASE i = 1
      BY <1>2, <2>3, <3>1 DEF FilledUp
    <3>2. CASE i # 1
      BY <1>2, <1>3, <2>3, <2>5, <3>2 DEF FilledUp
    <3> QED
      BY <3>1, <3>2
  <2>6. AuditTyped'
    BY <1>1, <1>5, <2>1, <2>3, <2>4, <2>5, AuditTypes, TypedAfter DEF AuditInv
  <2>7. AuditLocked'
    <3>1. files'[1] # Absent /\ Len(files'[1]) >= MaxFileSize
      BY <1>2, <2>3 DEF FilledUp
    <3>2. handle' # "open"
      BY <1>1, <1>2 DEF AuditInv, AuditLocked
    <3> QED
      BY <1>1, <1>2, <2>1, <2>3, <3>1, <3>2, LockedAfter DEF Working
  <2> QED
    BY <2>3, <2>6, <2>7 DEF AuditInv
<1> QED
  BY <1>1, <1>4, <1>5

LEMMA FileCreated ==
    ASSUME AuditInv, NEW l \in Goroutines, Audit!Create(l)
    PROVE  AuditInv'
<1>1. /\ auditAt[l] = "create" /\ Audit!Return(l, "ok") /\ UNCHANGED <<shift, written>>
      /\ \/ /\ files' = [files EXCEPT ![0] = <<>>] /\ handle' = "open" /\ encoder' = "ok"
            /\ UNCHANGED damage
         \/ damage' = damage \cup {"rotation"} /\ UNCHANGED <<files, handle, encoder>>
  BY DEF Audit!Create
<1>2. auditMu = l /\ Hole = 0 /\ Doing = "create" /\ files[0] = Absent
  BY <1>1, AtWork DEF Working, AuditInv, AuditLocked
<1>3. /\ Doing' = "idle" /\ Hole' = 0 /\ auditMu' = Nobody
      /\ auditAt' \in [Goroutines -> {"idle", "write", "stat", "shift", "create", "ok", "error"}]
      /\ \A k \in Goroutines : auditAt'[k] \notin Working
  BY <1>1, <1>2, LogReturns
<1>4. /\ files' \in [0..MaxFiles -> LogFile \cup {Absent}]
      /\ \A i \in 1..MaxFiles : files'[i] = files[i]
      /\ handle' = "open" => files'[0] # Absent
      /\ FilesOrdered' /\ FilesKept'
  <2>1. CASE files' = [files EXCEPT ![0] = <<>>] /\ UNCHANGED damage
    BY <1>1, <1>2, <1>3, <2>1, FileMade
  <2>2. CASE damage' = damage \cup {"rotation"} /\ UNCHANGED <<files, handle>>
    BY <1>1, <1>2, <1>3, <2>2, FilesStay, AuditSame DEF AuditInv, AuditLocked
  <2> QED
    BY <1>1, <2>1, <2>2
<1>5. AuditTyped'
  <2>1. /\ files'[MaxFiles] = Absent \/ MaxFiles = 1
        /\ \A i \in 1..MaxFiles : files'[i] # Absent => Len(files'[i]) >= MaxFileSize
    BY <1>4, AuditBounds DEF AuditInv, AuditTyped, FilledUp
  <2>2. /\ damage' \subseteq {"rename", "rotation", "write", "gap"}
        /\ handle' \in {"open", "closed", "nil", "down"} /\ encoder' \in {"ok", "failed"}
        /\ shift' \in 0..(MaxFiles - 1) /\ written' \in Seq(Nat) /\ Len(written') <= MaxEvents
    BY <1>1, AuditTypes DEF AuditInv
  <2> QED
    BY <1>3, <1>4, <2>1, <2>2, TypedAfter DEF AuditInv
<1>6. AuditLocked'
  BY <1>3, <1>4, LockedAfter
<1> QED
  BY <1>4, <1>5, <1>6 DEF AuditInv

LEMMA LoggerClosed ==
    ASSUME AuditInv, Audit!Close
    PROVE  AuditInv'
<1>1. /\ auditMu = Nobody /\ handle' = "nil"
      /\ UNCHANGED <<files, encoder, auditMu, auditAt, shift, written, damage>>
  BY DEF Audit!Close
<1>2. Doing' = Doing /\ Hole' = Hole /\ Doing = "idle"
  BY <1>1 DEF Doing, Hole
<1>3. FilesOrdered' /\ FilesKept'
  BY <1>1, <1>2, FilesStay
<1>4. AuditTyped'
  BY <1>1, AuditSame, AuditTypes, TypedAfter DEF AuditInv
<1>5. AuditLocked'
  <2>1. \A k \in Goroutines : auditAt'[k] \in Working => auditMu' = k
    BY <1>1 DEF AuditInv, AuditLocked, Working
  <2> QED
    BY <1>1, <1>2, <2>1, LockedAfter
<1> QED
  BY <1>3, <1>4, <1>5 DEF AuditInv

LEMMA ProcessCrashes ==
    ASSUME AuditInv, Audit!Crash
    PROVE  AuditInv'
<1>1. /\ handle' = "down" /\ auditMu' = Nobody /\ auditAt' = [l \in Goroutines |-> "idle"]
      /\ shift' = 0 /\ UNCHANGED <<encoder, written>>
      /\ files[0] = Absent => files' = files
      /\ files[0] # Absent => \E left \in {<<>>, <<Torn>>} : files' = [files EXCEPT ![0] = @ \o left]
      /\ damage' = IF \E l \in Goroutines : auditAt[l] \in {"shift", "create"}
                   THEN damage \cup {"gap"} ELSE damage
  BY DEF Audit!Crash
<1>2. Doing' = "idle" /\ Hole' = 0
  <2>1. Doing' = "idle"
    BY <1>1 DEF Doing
  <2> QED
    BY <2>1 DEF Hole
<1>3. /\ damage \subseteq damage' /\ damage' \subseteq {"rename", "rotation", "write", "gap"}
      /\ Doing = "shift" => "gap" \in damage'
  <2>1. Doing = "shift" => \E l \in Goroutines : auditAt[l] \in {"shift", "create"}
    BY AuditTypes DEF AuditInv, Doing
  <2> QED
    BY <1>1, <2>1, AuditTypes DEF AuditInv
<1>4. /\ auditAt' \in [Goroutines -> {"idle", "write", "stat", "shift", "create", "ok", "error"}]
      /\ \A k \in Goroutines : auditAt'[k] \notin Working
      /\ shift' \in 0..(MaxFiles - 1)
  BY <1>1, AuditBounds DEF Working
<1>5. CASE files[0] # Absent
  <2>1. files' = files \/ files' = [files EXCEPT ![0] = Append(@, Torn)]
    BY <1>1, <1>5, LineTorn
  <2> QED
    BY <1>1, <1>2, <1>3, <1>4, <1>5, <2>1, AuditTypes, TornAndIdle DEF AuditInv
<1>6. CASE files[0] = Absent
  <2>1. files' = files
    BY <1>1, <1>6
  <2>2. Hole = 0 \/ "gap" \in damage'
    BY <1>3 DEF Hole
  <2>3. FilesOrdered' /\ FilesKept'
    BY <1>1, <1>2, <1>3, <2>1, <2>2, FilesStay
  <2>4. AuditTyped'
    BY <1>1, <1>3, <1>4, <2>1, AuditSame, AuditTypes, TypedAfter DEF AuditInv
  <2>5. AuditLocked'
    BY <1>1, <1>2, <1>4, LockedAfter
  <2> QED
    BY <2>3, <2>4, <2>5 DEF AuditInv
<1> QED
  BY <1>5, <1>6

LEMMA LoggerOpened ==
    ASSUME AuditInv, Audit!Open
    PROVE  AuditInv'
<1>1. /\ handle = "down" /\ handle' = "open" /\ encoder' = "ok"
      /\ damage' = damage \ {"rotation", "write"}
      /\ UNCHANGED <<auditMu, auditAt, shift, written>>
      /\ files[0] = Absent => files' = [files EXCEPT ![0] = <<>>]
      /\ files[0] # Absent => files' = files
  BY DEF Audit!Open
<1>2. Doing = "idle" /\ Doing' = "idle" /\ Hole = 0 /\ Hole' = 0
  <2>1. Doing = "idle" /\ Doing' = Doing
    BY <1>1 DEF AuditInv, AuditLocked, Doing
  <2> QED
    BY <2>1 DEF Hole
<1>3. /\ files' \in [0..MaxFiles -> LogFile \cup {Absent}]
      /\ \A i \in 1..MaxFiles : files'[i] = files[i]
      /\ files'[0] # Absent
      /\ FilesOrdered' /\ FilesKept'
  <2>1. CASE files[0] = Absent
    BY <1>1, <1>2, <2>1, FileMade
  <2>2. CASE files[0] # Absent
    BY <1>1, <1>2, <2>2, FilesStay, AuditSame
  <2> QED
    BY <2>1, <2>2
<1>4. AuditTyped'
  <2>1. /\ files'[MaxFiles] = Absent \/ MaxFiles = 1
        /\ \A i \in 1..MaxFiles : files'[i] # Absent => Len(files'[i]) >= MaxFileSize
    BY <1>3, AuditBounds DEF AuditInv, AuditTyped, FilledUp
  <2>2. damage' \subseteq {"rename", "rotation", "write", "gap"}
    BY <1>1, AuditTypes DEF AuditInv
  <2> QED
    BY <1>1, <1>3, <2>1, <2>2, AuditTypes, TypedAfter DEF AuditInv
<1>5. AuditLocked'
  <2>1. \A k \in Goroutines : auditAt'[k] \in Working => auditMu' = k
    BY <1>1 DEF AuditInv, AuditLocked, Working
  <2>2. Doing' = "idle" => auditMu' = Nobody
    BY <1>1, <1>2 DEF AuditInv, AuditLocked
  <2> QED
    BY <1>1, <1>2, <1>3, <2>1, <2>2, LockedAfter
<1> QED
  BY <1>3, <1>4, <1>5 DEF AuditInv

LEMMA AuditStep == AuditInv /\ [Audit!Next]_auditVars => AuditInv'
<1> SUFFICES ASSUME AuditInv, [Audit!Next]_auditVars PROVE AuditInv'
  OBVIOUS
<1>1. ASSUME NEW l \in Goroutines, Audit!Lock(l) PROVE AuditInv'
  BY <1>1, LogLocks
<1>2. ASSUME NEW l \in Goroutines, Audit!Invalid(l) PROVE AuditInv'
  <2>1. /\ auditAt[l] = "write" /\ Audit!Return(l, "error")
        /\ UNCHANGED <<files, handle, encoder, shift, written, damage>>
    BY <1>2 DEF Audit!Invalid
  <2> QED
    BY <2>1, LogReturnsAsItWas, AuditTypes DEF AuditInv
<1>3. ASSUME NEW l \in Goroutines, Audit!Refuse(l) PROVE AuditInv'
  <2>1. /\ auditAt[l] = "write" /\ Audit!Return(l, "error") /\ encoder' = "failed"
        /\ UNCHANGED <<files, handle, shift, written, damage>>
    BY <1>3 DEF Audit!Refuse
  <2> QED
    BY <2>1, LogReturnsAsItWas
<1>4. ASSUME NEW l \in Goroutines, Audit!NoRotation(l) PROVE AuditInv'
  <2>1. /\ auditAt[l] = "stat" /\ Audit!Return(l, "ok")
        /\ UNCHANGED <<files, handle, encoder, shift, written, damage>>
    BY <1>4 DEF Audit!NoRotation
  <2> QED
    BY <2>1, LogReturnsAsItWas, AuditTypes DEF AuditInv
<1>5. CASE UNCHANGED auditVars
  <2>1. Doing' = Doing /\ Hole' = Hole
    BY <1>5 DEF auditVars, Doing, Hole
  <2>2. FilesOrdered' /\ FilesKept'
    BY <1>5, <2>1, FilesStay DEF auditVars
  <2>3. AuditTyped'
    BY <1>5 DEF auditVars, AuditInv, AuditTyped, Audit!TypeOK, Audit!Files, FilledUp
  <2>4. AuditLocked'
    BY <1>5, <2>1 DEF auditVars, AuditInv, AuditLocked, FilledUp
  <2> QED
    BY <2>2, <2>3, <2>4 DEF AuditInv
<1>6. ASSUME NEW l \in Goroutines, Audit!LogStep(l) PROVE AuditInv'
  BY <1>2, <1>3, <1>4, <1>6, EventEncoded, WriteFailed, FileClosed, FilesShift, CurrentMoved,
     FileCreated DEF Audit!LogStep
<1> QED
  BY <1>1, <1>5, <1>6, LoggerClosed, ProcessCrashes, LoggerOpened DEF Audit!Next

(* What FilesOrdered and FilesKept say, in the terms of the property.      *)
LEMMA OldestFirst == AuditInv => RotationForgetsTheOldest
<1> SUFFICES ASSUME AuditInv PROVE Audit!RotationForgetsTheOldest
  BY DEF RotationForgetsTheOldest
<1>1. /\ files \in [0..MaxFiles -> LogFile \cup {Absent}] /\ Len(written) \in Nat
      /\ MaxFiles \in Nat \ {0} /\ MaxFileSize \in Nat /\ Torn \notin Nat /\ Audit!Files = 0..MaxFiles
      /\ FilesOrdered /\ FilesKept /\ AuditTyped
  BY AuditTypes, AuditBounds DEF AuditInv, Audit!Files
<1>2. ASSUME NEW i \in 0..MaxFiles PROVE Audit!Events(i) = EventsIn(files[i])
  BY DEF Audit!Events, EventsIn, Audit!Range, RowsIn
<1>3. Audit!Kept = Kept
  BY <1>1, <1>2 DEF Audit!Kept, Kept
<1>4. ASSUME NEW i \in 0..MaxFiles, NEW j \in 0..MaxFiles, files[i] # Absent, files[j] # Absent,
             NEW p \in DOMAIN files[i], NEW q \in DOMAIN files[j], Audit!Older(i, p, j, q),
             files[i][p] # Torn, files[j][q] # Torn
      PROVE  files[i][p] < files[j][q]
  <2>1. CASE i > j
    <3>1. files[i][p] \in EventsIn(files[i]) /\ files[j][q] \in EventsIn(files[j])
      BY <1>4 DEF EventsIn, RowsIn
    <3> QED
      BY <1>1, <2>1, <3>1 DEF FilesOrdered
  <2>2. CASE i = j /\ p < q
    BY <1>1, <1>4, <2>2 DEF FilesOrdered, Rising
  <2> QED
    BY <1>4, <2>1, <2>2 DEF Audit!Older
<1>5. ASSUME "rename" \notin damage
      PROVE  /\ \A e \in Audit!Kept : e..Len(written) \subseteq Audit!Kept
             /\ \/ Audit!Kept = 1..Len(written)
                \/ Audit!Cardinality(Audit!Full) >= (IF "gap" \in damage THEN 1 ELSE MaxFiles - 1)
  <2>1. \A e \in Audit!Kept : e..Len(written) \subseteq Audit!Kept
    BY <1>1, <1>3, <1>5 DEF FilesKept
  <2>2. ASSUME Lost
        PROVE  Audit!Cardinality(Audit!Full) >= (IF "gap" \in damage THEN 1 ELSE MaxFiles - 1)
    <3>1. Audit!Cardinality(Audit!Full) = Cardinality(Audit!Full)
      BY DEF Audit!Cardinality, Cardinality
    <3>2. Audit!Full = {i \in 0..MaxFiles : FilledUp(i)}
      BY <1>1 DEF Audit!Full, FilledUp
    <3>3. IsFiniteSet(0..MaxFiles)
      BY <1>1, FS_Interval
    <3>4. IsFiniteSet(Audit!Full) /\ Cardinality(Audit!Full) \in Nat
      BY <3>2, <3>3, FS_Subset, FS_CardinalityType
    <3>5. Cardinality(Audit!Full) >= 1
      <4>1. Audit!Full # {}
        BY <1>1, <1>5, <2>2, <3>2 DEF FilesKept
      <4> QED
        BY <3>4, <4>1, FS_EmptySet
    <3>6. ASSUME "gap" \notin damage PROVE Cardinality(Audit!Full) >= MaxFiles - 1
      <4> DEFINE S == 0..(MaxFiles - 1)
      <4>1. IsFiniteSet(S) /\ Cardinality(S) = MaxFiles
        <5>1. 0 \in Int /\ MaxFiles - 1 \in Int /\ ~(0 > MaxFiles - 1)
          BY <1>1
        <5>2. IsFiniteSet(S) /\ Cardinality(S) = (MaxFiles - 1) - 0 + 1
          BY <5>1, FS_Interval
        <5> QED
          BY <1>1, <5>2
      <4>2. Hole = 0 \/ (FilledUp(0) /\ Hole \in 1..MaxFiles)
        <5>1. shift \in 0..(MaxFiles - 1) /\ (Doing = "shift" => FilledUp(0))
          BY AuditTypes DEF AuditInv, AuditLocked
        <5> QED
          BY <1>1, <5>1 DEF Hole
      <4>3. \A i \in 1..(MaxFiles - 1) : i # Hole => FilledUp(i)
        BY <1>1, <1>5, <2>2, <3>6 DEF FilesKept, AuditTyped
      <4>4. S \ {Hole} \subseteq Audit!Full
        BY <1>1, <3>2, <4>2, <4>3
      <4>5. /\ IsFiniteSet(S \ {Hole}) /\ Cardinality(S \ {Hole}) \in Nat
            /\ Cardinality(S \ {Hole}) >= MaxFiles - 1
        BY <1>1, <4>1, FS_RemoveElement, FS_CardinalityType
      <4>6. Cardinality(S \ {Hole}) <= Cardinality(Audit!Full)
        BY <3>4, <4>4, FS_Subset
      <4> QED
        BY <1>1, <3>4, <4>5, <4>6
    <3> QED
      BY <3>1, <3>5, <3>6
  <2> QED
    BY <1>3, <2>1, <2>2 DEF Lost
<1> QED
  BY <1>1, <1>4, <1>5 DEF Audit!RotationForgetsTheOldest

(* Rotation of the audit log forgets only the oldest events: what the      *)
(* files hold is in order, with nothing missing but a beginning.           *)
THEOREM RotationKeepsTheNewest == Spec => []RotationForgetsTheOldest
<1>1. Init => AuditInv
  BY BeginsAll, AuditInit
<1>2. AuditInv /\ [Next]_vars => AuditInv'
  BY StepOfOne, AuditStep
<1> QED
  BY <1>1, <1>2, OldestFirst, PTL DEF Spec

-----------------------------------------------------------------------------
(* The error metrics.  A sum is the size of the set of its units, so a set *)
(* that is parted into finite ones has as many elements as their sizes add *)
(* up to.                                                                  *)

LEMMA ErrorsCounted == \A S : Errors!Cardinality(S) = Cardinality(S)
  BY DEF Errors!Cardinality, Cardinality

LEMMA MetricsBounds ==
    /\ Size \in Nat \ {0} /\ Interval \in Nat \ {0}
    /\ MaxTime \in Nat /\ MaxErrors \in Nat /\ None \in Places
  BY ComponentsAssumption DEF Errors!MetricsAssumption

LEMMA PartsAddUp ==
    ASSUME NEW T, IsFiniteSet(T), NEW S, NEW f, NEW parts \in [S -> SUBSET T],
           \A i \in S : f[i] = Cardinality(parts[i]),
           \A i, j \in S : i # j => parts[i] \cap parts[j] = {},
           \A x \in T : \E i \in S : x \in parts[i]
    PROVE  Errors!SumOver(f, S) = Cardinality(T)
<1> DEFINE one(i) == CHOOSE b : b \in Bijection(1..f[i], parts[i])
           U == Errors!Units(f, S)
           F == [u \in U |-> one(u[1])[u[2]]]
<1>1. ASSUME NEW i \in S
      PROVE  one(i) \in Bijection(1..f[i], parts[i])
  <2>1. IsFiniteSet(parts[i])
    BY FS_Subset
  <2>2. ExistsBijection(1..f[i], parts[i])
    BY <2>1, FS_CardinalityType
  <2>3. \E b : b \in Bijection(1..f[i], parts[i])
    BY <2>2 DEF ExistsBijection
  <2> QED
    BY <2>3
<1> HIDE DEF one
<1>2. ASSUME NEW i \in S
      PROVE  /\ one(i) \in [1..f[i] -> parts[i]]
             /\ \A a, b \in 1..f[i] : one(i)[a] = one(i)[b] => a = b
             /\ \A x \in parts[i] : \E a \in 1..f[i] : one(i)[a] = x
  <2> DEFINE A == 1..f[i]
             b == one(i)
  <2>1. b \in Bijection(A, parts[i])
    BY <1>1
  <2> HIDE DEF A, b
  <2>2. b \in [A -> parts[i]] /\ (\A u, v \in A : b[u] = b[v] => u = v) /\ (\A x \in parts[i] : \E a \in A : b[a] = x)
    BY <2>1, Fun_BijectionProperties
  <2> QED
    BY <2>2 DEF A, b
<1>3. \A u : u \in U <=> \E i \in S : \E a \in 1..f[i] : u = <<i, a>>
  BY DEF Errors!Units
<1> HIDE DEF U
<1>4. ASSUME NEW i \in S, NEW a \in 1..f[i]
      PROVE  <<i, a>> \in U /\ F[<<i, a>>] = one(i)[a] /\ one(i)[a] \in parts[i]
  <2>1. <<i, a>> \in U
    BY <1>3
  <2> QED
    BY <2>1, <1>2
<1>5. F \in Bijection(U, T)
  <2>1. F \in [U -> T]
    <3> SUFFICES ASSUME NEW u \in U PROVE F[u] \in T
      OBVIOUS
    <3>1. PICK i \in S : \E a \in 1..f[i] : u = <<i, a>>
      BY <1>3
    <3>2. PICK a \in 1..f[i] : u = <<i, a>>
      BY <3>1
    <3> HIDE DEF F
    <3> QED
      BY <3>2, <1>4
  <2>2. ASSUME NEW u \in U, NEW v \in U, F[u] = F[v]
        PROVE  u = v
    <3>1. PICK i \in S : \E a \in 1..f[i] : u = <<i, a>>
      BY <2>2, <1>3
    <3>2. PICK j \in S : \E b \in 1..f[j] : v = <<j, b>>
      BY <2>2, <1>3
    <3>3. PICK a \in 1..f[i] : u = <<i, a>>
      BY <3>1
    <3>4. PICK b \in 1..f[j] : v = <<j, b>>
      BY <3>2
    <3> HIDE DEF F
    <3>5. F[u] \in parts[i] /\ F[u] = one(i)[a] /\ F[v] \in parts[j] /\ F[v] = one(j)[b]
      BY <3>3, <3>4, <1>4
    <3>6. i = j
      BY <3>5, <2>2
    <3> QED
      BY <3>3, <3>4, <3>5, <3>6, <2>2, <1>2
  <2>3. \A x \in T : \E u \in U : F[u] = x
    <3> TAKE x \in T
    <3>1. PICK i \in S : x \in parts[i]
      OBVIOUS
    <3>2. PICK a \in 1..f[i] : one(i)[a] = x
      BY <3>1, <1>2
    <3>3. <<i, a>> \in U /\ F[<<i, a>>] = x
      BY <3>2, <1>4
    <3> HIDE DEF F
    <3> QED
      BY <3>3
  <2> HIDE DEF F
  <2> QED
    BY <2>1, <2>2, <2>3, Fun_IsBij
<1>6. ExistsBijection(T, U)
  BY <1>5, Fun_ExistsBijSymmetric DEF ExistsBijection
<1>7. Cardinality(U) = Cardinality(T)
  BY <1>6, FS_Bijection
<1> QED
  BY <1>7, ErrorsCounted DEF U, Errors!SumOver

(* One more in one place is one more in the sum.                           *)
LEMMA OneMoreUnit ==
    ASSUME NEW S, NEW f \in [S -> Nat], NEW c \in S, IsFiniteSet(Errors!Units(f, S)),
           NEW g, g = [f EXCEPT ![c] = @ + 1]
    PROVE  /\ IsFiniteSet(Errors!Units(g, S))
           /\ Errors!SumOver(g, S) = Errors!SumOver(f, S) + 1
           /\ Errors!SumOver(f, S) \in Nat
<1>1. 1..g[c] = 1..f[c] \cup {f[c] + 1} /\ f[c] + 1 \notin 1..f[c]
  BY SMT
<1>2. \A x \in S : x # c => g[x] = f[x]
  OBVIOUS
<1>3. \A x \in S : {x} \X (1..g[x]) = IF x = c THEN ({x} \X (1..f[x])) \cup {<<c, f[c] + 1>>}
                                              ELSE {x} \X (1..f[x])
  BY <1>1, <1>2
<1>4. Errors!Units(g, S) = Errors!Units(f, S) \cup {<<c, f[c] + 1>>}
  BY <1>3 DEF Errors!Units
<1>5. <<c, f[c] + 1>> \notin Errors!Units(f, S)
  BY <1>1 DEF Errors!Units
<1> DEFINE U == Errors!Units(f, S)
           u == <<c, f[c] + 1>>
<1> HIDE DEF U, u
<1>6. IsFiniteSet(U) /\ u \notin U
  BY <1>5 DEF U, u
<1>7. IsFiniteSet(U \cup {u}) /\ Cardinality(U \cup {u}) = Cardinality(U) + 1 /\ Cardinality(U) \in Nat
  BY <1>6, FS_AddElement, FS_CardinalityType
<1> QED
  BY <1>4, <1>7, ErrorsCounted DEF Errors!SumOver, U, u

LEMMA NoUnits ==
    ASSUME NEW S
    PROVE  /\ IsFiniteSet(Errors!Units([x \in S |-> 0], S))
           /\ Errors!SumOver([x \in S |-> 0], S) = 0
<1>1. Errors!Units([x \in S |-> 0], S) = {}
  BY SMT DEF Errors!Units
<1> QED
  BY <1>1, FS_EmptySet, ErrorsCounted DEF Errors!SumOver

-----------------------------------------------------------------------------
(* The windows start at multiples of the interval.                         *)

Beginnings == {k * Interval : k \in Nat}

LEMMA Truncated ==
    /\ \A t \in Nat : /\ Errors!Truncate(t) \in Beginnings
                      /\ Errors!Truncate(t) \in Nat
                      /\ Errors!Truncate(t) <= t /\ t < Errors!Truncate(t) + Interval
    /\ \A a, b \in Beginnings : a \in Nat /\ b \in Nat /\ (a < b => a + Interval <= b)
    /\ \A s, t \in Nat : s <= t => Errors!Truncate(s) <= Errors!Truncate(t)
<1> DEFINE I == Interval
<1>1. I \in Nat \ {0}
  BY MetricsBounds
<1> HIDE DEF I
<1>2. ASSUME NEW t \in Nat
      PROVE  t \div I \in Nat /\ (t \div I) * I <= t /\ t < (t \div I) * I + I
  BY <1>1
<1>3. ASSUME NEW j \in Nat, NEW k \in Nat
      PROVE  /\ j * I \in Nat /\ k * I \in Nat
             /\ j * I < k * I => j * I + I <= k * I
  <2>1. j * I \in Nat /\ k * I \in Nat
    BY <1>1
  <2>2. k <= j => k * I <= j * I
    BY <1>1
  <2>3. j + 1 <= k => (j + 1) * I <= k * I
    BY <1>1
  <2>4. (j + 1) * I = j * I + I
    BY <1>1
  <2> QED
    BY <2>1, <2>2, <2>3, <2>4
<1>4. \A a, b \in Beginnings : a \in Nat /\ b \in Nat /\ (a < b => a + I <= b)
  BY <1>3 DEF Beginnings, I
<1>5. ASSUME NEW t \in Nat
      PROVE  /\ Errors!Truncate(t) \in Beginnings
             /\ Errors!Truncate(t) <= t /\ t < Errors!Truncate(t) + I
  BY <1>2 DEF Beginnings, Errors!Truncate, I
<1>6. ASSUME NEW s \in Nat, NEW t \in Nat, s <= t
      PROVE  Errors!Truncate(s) <= Errors!Truncate(t)
  BY <1>1, <1>4, <1>5, <1>6
<1> QED
  BY <1>4, <1>5, <1>6 DEF I

(* A product of the interval grows with the other factor.                  *)
LEMMA Intervals ==
    ASSUME NEW m \in Nat, NEW n \in Nat
    PROVE  /\ m * Interval \in Nat /\ n * Interval \in Nat
           /\ m <= n => m * Interval <= n * Interval
           /\ (m + 1) * Interval = m * Interval + Interval
  BY MetricsBounds

(* Windows hold the errors of their intervals, and start at least an       *)
(* interval apart.                                                         *)

Window == [start : 0..MaxTime, count : Nat \ {0}]
Began(ts, s) == {k \in DOMAIN ts : Errors!Truncate(ts[k]) = s}

Spaced(ws) == \A i, j \in DOMAIN ws : i < j => ws[i].start + (j - i) * Interval <= ws[j].start

Counting(ws, ts) ==
    /\ ws \in Seq(Window)
    /\ \A i \in DOMAIN ws : /\ ws[i].start \in Beginnings
                            /\ ws[i].start <= Errors!Truncate(now)
                            /\ ws[i].count = Cardinality(Began(ts, ws[i].start))
    /\ Spaced(ws)

Recent(w) == Errors!Within(w.start, Size * Interval)

LEMMA WindowRows ==
    ASSUME NEW ts, NEW ws, Counting(ws, ts)
    PROVE  /\ Len(ws) \in Nat /\ DOMAIN ws = 1..Len(ws) /\ (ws = <<>> <=> Len(ws) = 0)
           /\ \A i \in 1..Len(ws) : /\ ws[i] \in Window /\ ws[i].start \in Nat
                                    /\ ws[i].count \in Nat \ {0}
           /\ \A i, j \in 1..Len(ws) : i < j => ws[i].start + Interval <= ws[j].start
<1>1. Len(ws) \in Nat /\ DOMAIN ws = 1..Len(ws) /\ (ws = <<>> <=> Len(ws) = 0)
  BY LenProperties, EmptySeq DEF Counting
<1>2. \A i \in 1..Len(ws) : ws[i] \in Window
  BY <1>1, ElementOfSeq DEF Counting
<1>3. ASSUME NEW i \in 1..Len(ws), NEW j \in 1..Len(ws), i < j
      PROVE  ws[i].start + Interval <= ws[j].start
  <2> DEFINE gap == (j - i) * Interval
  <2>1. ws[i].start + gap <= ws[j].start
    BY <1>1, <1>3 DEF Counting, Spaced
  <2>2. j - i \in Nat /\ 1 <= j - i
    BY <1>1, <1>3
  <2>3. Interval <= gap /\ gap \in Nat
    <3>1. 1 * Interval <= (j - i) * Interval /\ (j - i) * Interval \in Nat
      BY <2>2, Intervals, MetricsBounds
    <3> QED
      BY <3>1, MetricsBounds
  <2>4. ws[i].start \in Nat /\ ws[j].start \in Nat
    BY <1>2, MetricsBounds DEF Window
  <2> HIDE DEF gap
  <2> QED
    BY <2>1, <2>3, <2>4, MetricsBounds
<1> QED
  BY <1>1, <1>2, <1>3, MetricsBounds DEF Window

LEMMA LaterWindows ==
    ASSUME NEW ts, NEW ws, Counting(ws, ts), NEW m \in 1..Len(ws), NEW q, q = SubSeq(ws, m, Len(ws))
    PROVE  /\ Counting(q, ts)
           /\ Len(q) = Len(ws) - m + 1
           /\ \A i \in 1..Len(q) : m + i - 1 \in 1..Len(ws) /\ q[i] = ws[m + i - 1]
<1>1. Len(ws) \in Nat /\ DOMAIN ws = 1..Len(ws) /\ \A i \in 1..Len(ws) : ws[i] \in Window
  BY WindowRows
<1>2. /\ q \in Seq(Window)
      /\ Len(q) = IF m <= Len(ws) THEN Len(ws) - m + 1 ELSE 0
      /\ \A i \in 1..(Len(ws) - m + 1) : q[i] = ws[m + i - 1]
  BY <1>1, SubSeqProperties
<1>3. /\ Len(q) = Len(ws) - m + 1
      /\ \A i \in 1..Len(q) : m + i - 1 \in 1..Len(ws) /\ q[i] = ws[m + i - 1]
  BY <1>1, <1>2
<1>4. DOMAIN q = 1..Len(q)
  BY <1>2, LenProperties
<1>5. Spaced(q)
  <2> SUFFICES ASSUME NEW i \in 1..Len(q), NEW j \in 1..Len(q), i < j
               PROVE  q[i].start + (j - i) * Interval <= q[j].start
    BY <1>4 DEF Spaced
  <2>1. m + i - 1 < m + j - 1 /\ (m + j - 1) - (m + i - 1) = j - i
    BY <1>1, <1>3
  <2>2. ws[m + i - 1].start + ((m + j - 1) - (m + i - 1)) * Interval <= ws[m + j - 1].start
    BY <1>1, <1>3, <2>1 DEF Counting, Spaced
  <2> QED
    BY <1>3, <2>1, <2>2
<1> QED
  BY <1>1, <1>2, <1>3, <1>4, <1>5 DEF Counting

(* The recent windows of ws are all in q.                                  *)
Keeps(q, ws) == \A i \in DOMAIN ws : Recent(ws[i]) => \E j \in DOMAIN q : q[j] = ws[i]

(* cleanOldWindows: what is recent stays, and if something is, what is not *)
(* goes.                                                                   *)
LEMMA CleanedWindows ==
    ASSUME NEW ts, NEW ws, Counting(ws, ts), now \in Nat,
           NEW clean, clean = Errors!Cleaned(ws)
    PROVE  /\ Counting(clean, ts)
           /\ Len(clean) <= Len(ws)
           /\ ws # <<>> => clean # <<>>
           /\ Keeps(clean, ws)
           /\ \/ \A i \in DOMAIN ws : ~Recent(ws[i])
              \/ \A j \in DOMAIN clean : Recent(clean[j])
<1> DEFINE live == {i \in DOMAIN ws : Recent(ws[i])}
<1>1. clean = IF live = {} THEN ws ELSE SubSeq(ws, Errors!Min(live), Len(ws))
  BY DEF Errors!Cleaned, Recent
<1>2. /\ Len(ws) \in Nat /\ DOMAIN ws = 1..Len(ws) /\ (ws = <<>> <=> Len(ws) = 0)
      /\ \A i \in 1..Len(ws) : ws[i].start \in Nat
      /\ \A i, j \in 1..Len(ws) : i < j => ws[i].start + Interval <= ws[j].start
  BY WindowRows
<1>3. CASE live = {}
  BY <1>1, <1>2, <1>3 DEF Keeps
<1>4. CASE live # {}
  <2>1. live \subseteq 1..Len(ws)
    BY <1>2
  <2>2. \E k \in live : \A j \in live : k <= j
    BY <1>2, <1>4, <2>1, FirstAndLast
  <2>3. Errors!Min(live) \in live /\ \A j \in live : Errors!Min(live) <= j
    BY <2>2 DEF Errors!Min
  <2>4. PICK m \in 1..Len(ws) : /\ clean = SubSeq(ws, m, Len(ws))
                               /\ m \in live /\ \A j \in live : m <= j
    BY <1>1, <1>4, <2>1, <2>3
  <2>5. /\ Counting(clean, ts)
        /\ Len(clean) = Len(ws) - m + 1
        /\ \A i \in 1..Len(clean) : m + i - 1 \in 1..Len(ws) /\ clean[i] = ws[m + i - 1]
    <3> DEFINE q == SubSeq(ws, m, Len(ws))
    <3> HIDE DEF q
    <3>1. q = SubSeq(ws, m, Len(ws)) /\ clean = q
      BY <2>4 DEF q
    <3>2. Counting(q, ts)
      BY <3>1, LaterWindows
    <3>3. Len(q) = Len(ws) - m + 1
      BY <3>1, LaterWindows
    <3>4. \A i \in 1..Len(q) : m + i - 1 \in 1..Len(ws) /\ q[i] = ws[m + i - 1]
      BY <3>1, LaterWindows
    <3> QED
      BY <3>1, <3>2, <3>3, <3>4
  <2>6. DOMAIN clean = 1..Len(clean) /\ Len(clean) \in Nat \ {0} /\ clean # <<>>
    BY <1>2, <2>4, <2>5, LenProperties DEF Counting
  <2>7. ASSUME NEW i \in DOMAIN ws, Recent(ws[i])
        PROVE  \E j \in DOMAIN clean : clean[j] = ws[i]
    <3>1. m <= i /\ i - m + 1 \in 1..Len(clean) /\ m + (i - m + 1) - 1 = i
      BY <1>2, <2>4, <2>5, <2>7
    <3> QED
      BY <2>5, <2>6, <3>1
  <2>8. ASSUME NEW j \in DOMAIN clean
        PROVE  Recent(clean[j])
    <3>1. PICK k \in 1..Len(ws) : clean[j] = ws[k] /\ m <= k
      <4>1. j \in 1..Len(clean) /\ j >= 1
        BY <2>6, <2>8
      <4>2. m + j - 1 \in 1..Len(ws) /\ clean[j] = ws[m + j - 1]
        BY <2>5, <4>1
      <4>3. m <= m + j - 1
        BY <2>6, <4>1
      <4> QED
        BY <4>2, <4>3
    <3>2. ws[m].start <= ws[k].start /\ ws[m].start \in Nat /\ ws[k].start \in Nat
      BY <1>2, <3>1, MetricsBounds
    <3>3. ws[m].start + Size * Interval > now /\ Size * Interval \in Nat
      BY <2>4, Intervals, MetricsBounds DEF Recent, Errors!Within
    <3> QED
      BY <3>1, <3>2, <3>3 DEF Recent, Errors!Within
  <2> QED
    BY <1>2, <2>4, <2>5, <2>6, <2>7, <2>8 DEF Keeps
<1> QED
  BY <1>3, <1>4

(* An error whose window could still be there has one.                     *)
Covered(ws, ts) ==
    \A k \in DOMAIN ts : Errors!Within(Errors!Truncate(ts[k]), Size * Interval) =>
        \E i \in DOMAIN ws : ws[i].start = Errors!Truncate(ts[k])

(* The interval that runs now.                                             *)
LEMMA PresentInterval ==
    ASSUME now \in 0..MaxTime, NEW s, s = Errors!Truncate(now)
    PROVE  /\ s \in 0..MaxTime /\ s \in Nat /\ s \in Beginnings /\ s <= now
           /\ Errors!Within(s, Size * Interval)
           /\ \A w \in Nat : w <= s - Size * Interval => ~Errors!Within(w, Size * Interval)
<1>1. now \in Nat /\ now <= MaxTime
  BY MetricsBounds
<1>2. s \in Nat /\ s \in Beginnings /\ s <= now /\ now < s + Interval
  BY <1>1, Truncated
<1>3. 1 * Interval <= Size * Interval /\ 1 * Interval = Interval /\ Size * Interval \in Nat
  BY Intervals, MetricsBounds
<1> QED
  BY <1>1, <1>2, <1>3, MetricsBounds DEF Errors!Within

(* One more error is one more of those that began in its interval.         *)
LEMMA BeganNow ==
    ASSUME NEW ts \in Seq(Nat), NEW s, now \in Nat
    PROVE  /\ IsFiniteSet(Began(ts, s))
           /\ Began(Append(ts, now), s) = IF s = Errors!Truncate(now)
                                          THEN Began(ts, s) \cup {Len(ts) + 1} ELSE Began(ts, s)
           /\ Len(ts) + 1 \notin Began(ts, s)
<1> DEFINE later == Append(ts, now)
<1>1. /\ Len(ts) \in Nat /\ DOMAIN ts = 1..Len(ts) /\ DOMAIN later = 1..(Len(ts) + 1)
      /\ later[Len(ts) + 1] = now /\ \A k \in DOMAIN ts : later[k] = ts[k]
  BY RowsOfAppend
<1>2. IsFiniteSet(Began(ts, s))
  <2>1. IsFiniteSet(1..Len(ts))
    BY <1>1, FS_Interval
  <2>2. Began(ts, s) \subseteq 1..Len(ts)
    BY <1>1 DEF Began
  <2> QED
    BY <2>1, <2>2, FS_Subset
<1> HIDE DEF later
<1>3. Began(later, s) = IF s = Errors!Truncate(now) THEN Began(ts, s) \cup {Len(ts) + 1} ELSE Began(ts, s)
  BY <1>1 DEF Began
<1>4. Len(ts) + 1 \notin Began(ts, s)
  BY <1>1 DEF Began
<1> QED
  BY <1>2, <1>3, <1>4 DEF later

(* Windows that end before s: the next could be at s.                      *)
UpTo(q, s) == \A i \in DOMAIN q : q[i].start + (Len(q) + 1 - i) * Interval <= s

(* As many windows as are kept reach back so far that the first is not     *)
(* recent.                                                                 *)
LEMMA RoomForOne ==
    ASSUME now \in 0..MaxTime, NEW ts, NEW q, Counting(q, ts), NEW s, s = Errors!Truncate(now),
           \A i \in DOMAIN q : q[i].start < s
    PROVE  /\ UpTo(q, s)
           /\ q # <<>> /\ Len(q) = Size => ~Recent(q[1])
<1>1. /\ Len(q) \in Nat /\ DOMAIN q = 1..Len(q) /\ (q = <<>> <=> Len(q) = 0)
      /\ \A i \in 1..Len(q) : q[i].start \in Nat
  BY WindowRows
<1>2. s \in Nat /\ s \in Beginnings /\ s <= now /\ now \in Nat
  BY PresentInterval, MetricsBounds
<1>3. ASSUME NEW i \in 1..Len(q)
      PROVE  q[i].start + (Len(q) + 1 - i) * Interval <= s
  <2> DEFINE L == Len(q)
             n == L - i
  <2>1. L \in 1..Len(q) /\ n \in Nat /\ L + 1 - i = n + 1
    BY <1>1
  <2>2. q[L].start + Interval <= s
    <3>1. q[L].start \in Beginnings /\ q[L].start < s
      BY <1>1, <2>1 DEF Counting
    <3> QED
      BY <1>2, <3>1, Truncated
  <2>3. q[i].start + n * Interval <= q[L].start
    <3>1. CASE i = L
      <4>1. n = 0 /\ 0 * Interval = 0
        BY <2>1, <3>1, MetricsBounds
      <4>2. q[L].start \in Nat
        BY <1>1, <2>1
      <4> QED
        BY <3>1, <4>1, <4>2
    <3>2. CASE i < L
      BY <1>1, <2>1, <3>2 DEF Counting, Spaced
    <3> QED
      BY <2>1, <3>1, <3>2
  <2>4. (n + 1) * Interval = n * Interval + Interval /\ n * Interval \in Nat
    BY <2>1, Intervals
  <2>5. q[i].start \in Nat /\ q[L].start \in Nat
    BY <1>1, <2>1
  <2> HIDE DEF n
  <2>6. q[i].start + (n + 1) * Interval <= s
    BY <1>2, <2>2, <2>3, <2>4, <2>5, MetricsBounds
  <2> QED
    BY <2>1, <2>6
<1>4. ASSUME q # <<>>, Len(q) = Size
      PROVE  ~Recent(q[1])
  <2>1. 1 \in 1..Len(q) /\ Len(q) + 1 - 1 = Size
    BY <1>1, <1>4
  <2>2. q[1].start + (Len(q) + 1 - 1) * Interval <= s
    BY <1>3, <2>1
  <2>3. q[1].start + Size * Interval <= s
    BY <2>1, <2>2
  <2>4. q[1].start \in Nat /\ Size * Interval \in Nat
    BY <1>1, <2>1, Intervals, MetricsBounds
  <2> QED
    BY <1>2, <2>3, <2>4 DEF Recent, Errors!Within
<1> QED
  BY <1>1, <1>3, <1>4 DEF UpTo

LEMMA WindowDropped ==
    ASSUME NEW ts, NEW q, Counting(q, ts), q # <<>>, NEW s, UpTo(q, s)
    PROVE  Counting(Tail(q), ts) /\ UpTo(Tail(q), s) /\ Len(Tail(q)) = Len(q) - 1
<1> DEFINE t == Tail(q)
<1>1. Len(q) \in Nat \ {0} /\ DOMAIN q = 1..Len(q) /\ q \in Seq(Window)
  BY WindowRows DEF Counting
<1>2. /\ Len(t) = Len(q) - 1 /\ t = SubSeq(q, 2, Len(q)) /\ t \in Seq(Window)
      /\ \A i \in 1..Len(t) : t[i] = q[i + 1]
  BY <1>1, HeadTailProperties, TailIsSubSeq
<1>3. DOMAIN t = 1..Len(t)
  BY <1>2, LenProperties
<1> HIDE DEF t
<1>4. Counting(t, ts)
  <2>1. CASE Len(t) = 0
    <3>1. DOMAIN t = {}
      BY <1>3, <2>1
    <3> QED
      BY <1>2, <3>1 DEF Counting, Spaced
  <2>2. CASE 2 \in 1..Len(q)
    BY <1>1, <1>2, <2>2, LaterWindows
  <2> QED
    BY <1>1, <1>2, <2>1, <2>2
<1>5. ASSUME NEW i \in 1..Len(t)
      PROVE  t[i].start + (Len(t) + 1 - i) * Interval <= s
  <2>1. i + 1 \in 1..Len(q) /\ Len(q) + 1 - (i + 1) = Len(t) + 1 - i
    <3>1. Len(t) = Len(q) - 1 /\ Len(q) \in Nat
      BY <1>1, <1>2
    <3> QED
      BY <3>1
  <2>2. q[i + 1].start + (Len(q) + 1 - (i + 1)) * Interval <= s
    BY <1>1, <2>1 DEF UpTo
  <2> QED
    BY <1>2, <2>1, <2>2
<1> QED
  BY <1>2, <1>3, <1>4, <1>5 DEF UpTo, t

(* The first error of an interval begins a window of its own.              *)
LEMMA WindowAdded ==
    ASSUME now \in 0..MaxTime, NEW ts \in Seq(Nat), NEW q, Counting(q, ts),
           NEW s, s = Errors!Truncate(now), UpTo(q, s), Began(ts, s) = {},
           NEW w, w = [start |-> s, count |-> 1]
    PROVE  /\ Counting(Append(q, w), Append(ts, now))
           /\ Len(Append(q, w)) = Len(q) + 1
           /\ \A i \in DOMAIN q : \E j \in DOMAIN Append(q, w) : Append(q, w)[j] = q[i]
           /\ \E j \in DOMAIN Append(q, w) : Append(q, w)[j] = w
<1> DEFINE later == Append(ts, now)
           p == Append(q, w)
<1>1. s \in 0..MaxTime /\ s \in Nat /\ s \in Beginnings /\ now \in Nat
  BY PresentInterval, MetricsBounds
<1>2. w \in Window /\ q \in Seq(Window) /\ w.start = s /\ w.count = 1
  BY <1>1 DEF Window, Counting
<1>3. /\ p \in Seq(Window) /\ Len(q) \in Nat /\ Len(p) = Len(q) + 1
      /\ DOMAIN q = 1..Len(q) /\ DOMAIN p = 1..(Len(q) + 1)
      /\ p[Len(q) + 1] = w /\ \A i \in DOMAIN q : p[i] = q[i]
  BY <1>2, RowsOfAppend
<1>4. \A i \in 1..Len(q) : q[i].start \in Nat
  BY WindowRows
<1> HIDE DEF later, p
<1>5. ASSUME NEW i \in 1..Len(q)
      PROVE  q[i].start < s
  <2> DEFINE n == Len(q) + 1 - i
  <2>1. n \in Nat /\ 1 <= n
    BY <1>3
  <2>3. q[i].start + n * Interval <= s
    BY <1>3 DEF UpTo
  <2> HIDE DEF n
  <2>2. 1 * Interval <= n * Interval /\ 1 * Interval = Interval /\ n * Interval \in Nat
    BY <2>1, Intervals, MetricsBounds
  <2>4. q[i].start \in Nat
    BY <1>4
  <2> QED
    BY <1>1, <2>2, <2>3, <2>4, MetricsBounds
<1>6. /\ Cardinality(Began(later, s)) = 1
      /\ \A x : x # s => Began(later, x) = Began(ts, x)
  <2>1. Began(later, s) = {} \cup {Len(ts) + 1}
    BY <1>1, BeganNow DEF later
  <2>2. Cardinality({Len(ts) + 1}) = 1
    BY FS_Singleton
  <2>3. \A x : x # s => Began(later, x) = Began(ts, x)
    BY <1>1, BeganNow DEF later
  <2> QED
    BY <2>1, <2>2, <2>3
<1>7. ASSUME NEW i \in 1..(Len(q) + 1)
      PROVE  /\ p[i].start \in Beginnings /\ p[i].start <= Errors!Truncate(now)
             /\ p[i].count = Cardinality(Began(later, p[i].start))
  <2>1. CASE i = Len(q) + 1
    BY <1>1, <1>2, <1>3, <1>6, <2>1
  <2>2. CASE i \in 1..Len(q)
    <3>1. p[i] = q[i] /\ q[i].start # s
      BY <1>1, <1>3, <1>4, <1>5, <2>2
    <3>2. Began(later, p[i].start) = Began(ts, q[i].start)
      BY <1>6, <3>1
    <3> QED
      BY <1>3, <2>2, <3>1, <3>2 DEF Counting
  <2>3. i = Len(q) + 1 \/ i \in 1..Len(q)
    BY <1>3
  <2> QED
    BY <2>1, <2>2, <2>3
<1>8. ASSUME NEW i \in 1..(Len(q) + 1), NEW j \in 1..(Len(q) + 1), i < j
      PROVE  p[i].start + (j - i) * Interval <= p[j].start
  <2>1. i \in 1..Len(q) /\ p[i] = q[i]
    BY <1>3, <1>8
  <2>2. CASE j = Len(q) + 1
    BY <1>2, <1>3, <2>1, <2>2 DEF UpTo
  <2>3. CASE j \in 1..Len(q)
    BY <1>3, <1>8, <2>1, <2>3 DEF Counting, Spaced
  <2>4. j = Len(q) + 1 \/ j \in 1..Len(q)
    BY <1>3
  <2> QED
    BY <2>2, <2>3, <2>4
<1>9. Counting(p, later)
  BY <1>3, <1>7, <1>8 DEF Counting, Spaced
<1>10. /\ \A i \in DOMAIN q : \E j \in DOMAIN p : p[j] = q[i]
       /\ \E j \in DOMAIN p : p[j] = w
  BY <1>3
<1> QED
  BY <1>3, <1>9, <1>10 DEF p, later

(* The others are counted in the last one.                                 *)
LEMMA WindowRaised ==
    ASSUME now \in 0..MaxTime, NEW ts \in Seq(Nat), NEW q, Counting(q, ts), q # <<>>,
           q[Len(q)].start = Errors!Truncate(now),
           NEW p, p = [q EXCEPT ![Len(q)].count = @ + 1]
    PROVE  /\ Counting(p, Append(ts, now)) /\ Len(p) = Len(q)
           /\ DOMAIN p = DOMAIN q /\ \A i \in DOMAIN q : p[i].start = q[i].start
<1> DEFINE L == Len(q)
           s == Errors!Truncate(now)
           later == Append(ts, now)
<1>1. /\ L \in Nat \ {0} /\ DOMAIN q = 1..L /\ q \in Seq(Window)
      /\ \A i \in 1..L : q[i] \in Window /\ q[i].start \in Nat /\ q[i].count \in Nat \ {0}
  <2>1. /\ L \in Nat \ {0} /\ DOMAIN q = 1..L
        /\ \A i \in 1..L : q[i] \in Window /\ q[i].start \in Nat /\ q[i].count \in Nat \ {0}
    BY WindowRows
  <2> QED
    BY <2>1 DEF Counting
<1>2. \A i, j \in 1..L : i < j => q[i].start + Interval <= q[j].start
  BY WindowRows
<1>3. L \in 1..L /\ q[L].start = s /\ now \in Nat
  BY <1>1, MetricsBounds
<1> HIDE DEF L
<1>4. /\ DOMAIN p = 1..L
      /\ p[L] = [q[L] EXCEPT !.count = @ + 1] /\ \A i \in 1..L : i # L => p[i] = q[i]
  BY <1>1, <1>3 DEF L
<1>5. p[L].start = q[L].start /\ p[L].count = q[L].count + 1 /\ p[L] \in Window
  BY <1>1, <1>3, <1>4 DEF Window
<1>6. \A i \in 1..L : p[i].start = q[i].start /\ p[i] \in Window
  BY <1>1, <1>4, <1>5
<1>7. p \in Seq(Window) /\ Len(p) = L
  <2> DEFINE e == [q[L] EXCEPT !.count = @ + 1]
  <2>1. e \in Window /\ p = [q EXCEPT ![L] = e]
    BY <1>4, <1>5 DEF L
  <2> HIDE DEF e
  <2> QED
    BY <1>1, <1>3, <2>1, ExceptSeq DEF L
<1>8. /\ Cardinality(Began(later, s)) = Cardinality(Began(ts, s)) + 1
      /\ \A x : x # s => Began(later, x) = Began(ts, x)
  <2>1. /\ IsFiniteSet(Began(ts, s)) /\ Len(ts) + 1 \notin Began(ts, s)
        /\ Began(later, s) = Began(ts, s) \cup {Len(ts) + 1}
    BY <1>3, BeganNow
  <2>2. Cardinality(Began(later, s)) = Cardinality(Began(ts, s)) + 1
    BY <2>1, FS_AddElement
  <2>3. \A x : x # s => Began(later, x) = Began(ts, x)
    BY <1>3, BeganNow
  <2> QED
    BY <2>2, <2>3
<1> HIDE DEF later, s
<1>9. ASSUME NEW i \in 1..L
      PROVE  /\ p[i].start \in Beginnings /\ p[i].start <= s
             /\ p[i].count = Cardinality(Began(later, p[i].start))
  <2>1. /\ q[i].start \in Beginnings /\ q[i].start <= s
        /\ q[i].count = Cardinality(Began(ts, q[i].start))
    BY <1>1 DEF Counting, s
  <2>2. CASE i = L
    BY <1>3, <1>5, <1>8, <2>1, <2>2
  <2>3. CASE i # L
    <3>1. q[i].start < s
      <4>1. q[i].start + Interval <= q[L].start /\ q[i].start \in Nat /\ q[L].start \in Nat
        BY <1>1, <1>2, <1>3, <2>3
      <4> QED
        BY <1>3, <4>1, MetricsBounds
    <3>2. q[i].start # s
      BY <1>1, <1>3, <3>1
    <3>3. p[i] = q[i]
      BY <1>4, <2>3
    <3>4. Began(later, q[i].start) = Began(ts, q[i].start)
      BY <1>8, <3>2
    <3> QED
      BY <2>1, <3>3, <3>4
  <2> QED
    BY <1>6, <2>1, <2>2, <2>3
<1>10. Spaced(p)
  BY <1>1, <1>4, <1>6 DEF Counting, Spaced
<1>11. Counting(p, later)
  BY <1>4, <1>7, <1>9, <1>10 DEF Counting, s
<1> QED
  BY <1>1, <1>4, <1>6, <1>7, <1>11 DEF L, later

(* IncrementBy: the windows still hold all the errors that are recent.     *)
LEMMA IncrementedWindows ==
    ASSUME now \in 0..MaxTime, NEW ts \in Seq(Nat), NEW ws, Counting(ws, ts), Covered(ws, ts),
           Len(ws) <= Size, NEW new, new = Errors!Incremented(ws)
    PROVE  Counting(new, Append(ts, now)) /\ Covered(new, Append(ts, now)) /\ Len(new) <= Size
<1> DEFINE clean == Errors!Cleaned(ws)
           s == Errors!Truncate(now)
           later == Append(ts, now)
           w == [start |-> s, count |-> 1]
           fits == IF Len(clean) >= Size THEN Tail(clean) ELSE clean
           early == clean = <<>> \/ clean[Len(clean)].start < s
<1>1. new = IF early THEN Append(fits, w) ELSE [clean EXCEPT ![Len(clean)].count = @ + 1]
  BY DEF Errors!Incremented
<1>2. /\ s \in Nat /\ s \in Beginnings /\ s <= now /\ now \in Nat
      /\ Errors!Within(s, Size * Interval)
  BY PresentInterval, MetricsBounds
<1> HIDE DEF clean
<1>3. /\ Counting(clean, ts) /\ Len(clean) <= Len(ws)
      /\ ws # <<>> => clean # <<>>
      /\ Keeps(clean, ws)
      /\ \/ \A i \in DOMAIN ws : ~Recent(ws[i])
         \/ \A j \in DOMAIN clean : Recent(clean[j])
  <2>1. clean = Errors!Cleaned(ws)
    BY DEF clean
  <2>2. Counting(clean, ts) /\ Len(clean) <= Len(ws)
    BY <1>2, <2>1, CleanedWindows
  <2>3. ws # <<>> => clean # <<>>
    BY <1>2, <2>1, CleanedWindows
  <2>4. Keeps(clean, ws)
    BY <1>2, <2>1, CleanedWindows
  <2>5. \/ \A i \in DOMAIN ws : ~Recent(ws[i])
        \/ \A j \in DOMAIN clean : Recent(clean[j])
    BY <1>2, <2>1, CleanedWindows
  <2> QED
    BY <2>2, <2>3, <2>4, <2>5
<1>4. /\ Len(clean) \in Nat /\ DOMAIN clean = 1..Len(clean) /\ (clean = <<>> <=> Len(clean) = 0)
      /\ \A i \in 1..Len(clean) : clean[i].start \in Nat
      /\ \A i, j \in 1..Len(clean) : i < j => clean[i].start + Interval <= clean[j].start
  BY <1>3, WindowRows
<1>5. Len(ws) \in Nat /\ Size \in Nat \ {0} /\ Len(clean) <= Size
  <2>1. Len(ws) \in Nat /\ Size \in Nat \ {0}
    BY WindowRows, MetricsBounds
  <2>2. Len(clean) <= Len(ws) /\ Len(clean) \in Nat
    BY <1>3, <1>4
  <2> QED
    BY <2>1, <2>2
<1>6. /\ DOMAIN ts = 1..Len(ts) /\ DOMAIN later = 1..(Len(ts) + 1) /\ Len(ts) \in Nat
      /\ later[Len(ts) + 1] = now /\ \A k \in DOMAIN ts : later[k] = ts[k]
  BY <1>2, RowsOfAppend
<1> HIDE DEF s, later, w, fits, early
(* The new windows cover the errors when the recent ones and the present   *)
(* interval's are among them.                                              *)
<1>7. ASSUME NEW q,
             \A i \in DOMAIN ws : Recent(ws[i]) => \E j \in DOMAIN q : q[j].start = ws[i].start,
             \E j \in DOMAIN q : q[j].start = s
      PROVE  Covered(q, later)
  <2> SUFFICES ASSUME NEW k \in DOMAIN later,
                      Errors!Within(Errors!Truncate(later[k]), Size * Interval)
               PROVE  \E j \in DOMAIN q : q[j].start = Errors!Truncate(later[k])
    BY DEF Covered
  <2>1. CASE k = Len(ts) + 1
    BY <1>6, <1>7, <2>1 DEF s
  <2>2. CASE k \in DOMAIN ts
    <3>1. later[k] = ts[k]
      BY <1>6, <2>2
    <3>2. PICK i \in DOMAIN ws : ws[i].start = Errors!Truncate(ts[k])
      BY <2>2, <3>1 DEF Covered
    <3>3. Recent(ws[i])
      BY <3>1, <3>2 DEF Recent
    <3> QED
      BY <1>7, <3>1, <3>2, <3>3
  <2>3. k = Len(ts) + 1 \/ k \in DOMAIN ts
    BY <1>6
  <2> QED
    BY <2>1, <2>2, <2>3
<1>8. CASE early
  <2>1. \A i \in DOMAIN clean : clean[i].start < s
    <3> SUFFICES ASSUME NEW i \in 1..Len(clean) PROVE clean[i].start < s
      BY <1>4
    <3>1. Len(clean) \in 1..Len(clean) /\ clean # <<>>
      BY <1>4
    <3>2. clean[Len(clean)].start < s
      BY <1>8, <3>1 DEF early
    <3>3. i = Len(clean) \/ clean[i].start + Interval <= clean[Len(clean)].start
      <4>1. i = Len(clean) \/ i < Len(clean)
        <5>1. Len(clean) \in Nat
          BY <1>4
        <5> QED
          BY <5>1
      <4> QED
        BY <1>4, <3>1, <4>1
    <3>4. clean[i].start \in Nat /\ clean[Len(clean)].start \in Nat
      BY <1>4, <3>1
    <3> QED
      BY <1>2, <3>2, <3>3, <3>4, MetricsBounds
  <2>2. UpTo(clean, s) /\ (clean # <<>> /\ Len(clean) = Size => ~Recent(clean[1]))
    BY <1>3, <2>1, RoomForOne DEF s
  <2>3. /\ Counting(fits, ts) /\ UpTo(fits, s) /\ Len(fits) < Size
        /\ Keeps(fits, ws)
    <3>1. CASE Len(clean) >= Size
      <4>1. Len(clean) = Size /\ clean # <<>> /\ fits = Tail(clean) /\ 1 \in DOMAIN clean
        <5>1. fits = Tail(clean)
          BY <3>1 DEF fits
        <5>2. Len(clean) \in Nat
          BY <1>4
        <5>3. Len(clean) = Size /\ Len(clean) # 0 /\ 1 \in 1..Len(clean)
          BY <1>5, <3>1, <5>2
        <5> QED
          BY <1>4, <5>1, <5>3
      <4>2. Counting(fits, ts) /\ UpTo(fits, s) /\ Len(fits) = Len(clean) - 1
        BY <1>3, <2>2, <4>1, WindowDropped
      <4>3. \A i \in DOMAIN ws : ~Recent(ws[i])
        BY <1>3, <2>2, <4>1
      <4>4. Len(fits) < Size
        BY <1>5, <4>1, <4>2
      <4> QED
        BY <4>2, <4>3, <4>4 DEF Keeps
    <3>2. CASE ~(Len(clean) >= Size)
      <4>1. fits = clean
        BY <3>2 DEF fits
      <4>2. Len(clean) < Size
        BY <1>4, <1>5, <3>2
      <4> QED
        BY <1>3, <2>2, <4>1, <4>2
    <3> QED
      BY <3>1, <3>2
  <2>4. Began(ts, s) = {}
    <3> SUFFICES ASSUME NEW k \in DOMAIN ts, Errors!Truncate(ts[k]) = s PROVE FALSE
      BY DEF Began
    <3>1. PICK i \in DOMAIN ws : ws[i].start = s
      BY <1>2 DEF Covered
    <3>2. Recent(ws[i])
      BY <1>2, <3>1 DEF Recent
    <3>3. PICK j \in DOMAIN clean : clean[j] = ws[i]
      BY <1>3, <3>2 DEF Keeps
    <3>4. clean[j].start = s /\ clean[j].start < s
      BY <2>1, <3>1, <3>3
    <3> QED
      BY <1>2, <3>4
  <2>5. /\ Counting(Append(fits, w), later) /\ Len(Append(fits, w)) = Len(fits) + 1
        /\ \A i \in DOMAIN fits : \E j \in DOMAIN Append(fits, w) : Append(fits, w)[j] = fits[i]
        /\ \E j \in DOMAIN Append(fits, w) : Append(fits, w)[j] = w
    BY <2>3, <2>4, WindowAdded DEF s, w, later
  <2>6. new = Append(fits, w) /\ w.start = s
    BY <1>1, <1>8 DEF w
  <2>7. Covered(new, later)
    <3>1. \A i \in DOMAIN ws : Recent(ws[i]) => \E j \in DOMAIN new : new[j].start = ws[i].start
      BY <2>3, <2>5, <2>6 DEF Keeps
    <3>2. \E j \in DOMAIN new : new[j].start = s
      BY <2>5, <2>6
    <3> QED
      BY <1>7, <3>1, <3>2
  <2>8. Len(new) <= Size
    <3>1. Len(fits) \in Nat
      BY <2>3, WindowRows
    <3> QED
      BY <1>5, <2>3, <2>5, <2>6, <3>1
  <2> QED
    BY <2>5, <2>6, <2>7, <2>8 DEF later
<1>9. CASE ~early
  <2>1. clean # <<>> /\ Len(clean) \in DOMAIN clean /\ ~(clean[Len(clean)].start < s)
    BY <1>4, <1>9 DEF early
  <2>2. clean[Len(clean)].start = s
    <3>1. clean[Len(clean)].start <= s /\ clean[Len(clean)].start \in Nat
      BY <1>3, <1>4, <2>1 DEF Counting, s
    <3> QED
      BY <1>2, <2>1, <3>1
  <2>3. new = [clean EXCEPT ![Len(clean)].count = @ + 1]
    BY <1>1, <1>9
  <2>4. /\ Counting(new, later) /\ Len(new) = Len(clean)
        /\ DOMAIN new = DOMAIN clean /\ \A i \in DOMAIN clean : new[i].start = clean[i].start
    <3>1. clean[Len(clean)].start = Errors!Truncate(now) /\ later = Append(ts, now)
      BY <2>2 DEF s, later
    <3>2. Counting(clean, ts) /\ clean # <<>>
      BY <1>3, <2>1
    <3>3. Counting(new, later)
      BY <2>3, <3>1, <3>2, WindowRaised
    <3>4. Len(new) = Len(clean)
      BY <2>3, <3>1, <3>2, WindowRaised
    <3>5. DOMAIN new = DOMAIN clean /\ \A i \in DOMAIN clean : new[i].start = clean[i].start
      BY <2>3, <3>1, <3>2, WindowRaised
    <3> QED
      BY <3>3, <3>4, <3>5
  <2>5. Covered(new, later)
    <3>1. \A i \in DOMAIN ws : Recent(ws[i]) => \E j \in DOMAIN new : new[j].start = ws[i].start
      BY <1>3, <2>4 DEF Keeps
    <3>2. \E j \in DOMAIN new : new[j].start = s
      BY <2>1, <2>2, <2>4
    <3> QED
      BY <1>7, <3>1, <3>2
  <2> QED
    BY <1>5, <2>4, <2>5 DEF later
<1> QED
  BY <1>8, <1>9

-----------------------------------------------------------------------------
(* What of the tables and the windows is inductive.                        *)

AtPlaces(c) == [p \in Places \ {None} |-> byPlace[p][c]]

Tables ==
    /\ total = Len(times)
    /\ IsFiniteSet(Errors!Units(counts, Codes)) /\ total = Errors!SumOver(counts, Codes)
    /\ \A c \in Codes : /\ IsFiniteSet(Errors!Units(AtPlaces(c), Places \ {None}))
                        /\ counts[c] >= Errors!SumOver(AtPlaces(c), Places \ {None})

Windows ==
    /\ times \in Seq(Nat)
    /\ Counting(windows, times) /\ Covered(windows, times)

ErrorsInv == Errors!TypeOK /\ Tables /\ Windows

(* The rate adds up the windows that hold the errors it is about.          *)
LEMMA RateIsExact == ErrorsInv => RateMatchesErrors
<1> SUFFICES ASSUME ErrorsInv PROVE RateMatchesErrors
  OBVIOUS
<1>1. ASSUME NEW d \in 1..(Size * Interval)
      PROVE  Errors!ErrorsIn(d) = Cardinality({k \in DOMAIN times : Errors!Within(Errors!Truncate(times[k]), d)})
  <2> DEFINE T == {k \in DOMAIN times : Errors!Within(Errors!Truncate(times[k]), d)}
             S == {i \in DOMAIN windows : Errors!Within(windows[i].start, d)}
             f == [i \in DOMAIN windows |-> windows[i].count]
             parts == [i \in S |-> Began(times, windows[i].start)]
  <2>1. /\ times \in Seq(Nat) /\ Len(times) \in Nat /\ DOMAIN times = 1..Len(times)
        /\ now \in Nat /\ Size * Interval \in Nat
        /\ \A k \in DOMAIN times : times[k] \in Nat /\ Errors!Truncate(times[k]) \in Nat
    <3>1. times \in Seq(Nat) /\ now \in Nat
      BY MetricsBounds DEF ErrorsInv, Windows, Errors!TypeOK
    <3>2. Len(times) \in Nat /\ DOMAIN times = 1..Len(times) /\ \A k \in DOMAIN times : times[k] \in Nat
      BY <3>1, LenProperties, ElementOfSeq
    <3> QED
      BY <3>1, <3>2, Truncated, Intervals, MetricsBounds
  <2>2. /\ Len(windows) \in Nat /\ DOMAIN windows = 1..Len(windows)
        /\ \A i \in 1..Len(windows) : windows[i].start \in Nat
        /\ \A i, j \in 1..Len(windows) : i < j => windows[i].start + Interval <= windows[j].start
    BY WindowRows DEF ErrorsInv, Windows
  <2>3. IsFiniteSet(T)
    <3>1. IsFiniteSet(1..Len(times))
      BY <2>1, FS_Interval
    <3>2. T \subseteq 1..Len(times)
      BY <2>1
    <3> QED
      BY <3>1, <3>2, FS_Subset
  <2>4. parts \in [S -> SUBSET T]
    BY DEF Began
  <2>5. \A i \in S : f[i] = Cardinality(parts[i])
    BY DEF ErrorsInv, Windows, Counting
  <2>6. ASSUME NEW i \in S, NEW j \in S, i # j
        PROVE  parts[i] \cap parts[j] = {}
    <3>1. windows[i].start # windows[j].start
      <4>1. (i < j \/ j < i) /\ windows[i].start \in Nat /\ windows[j].start \in Nat
        BY <2>2, <2>6
      <4> QED
        BY <2>2, <4>1, MetricsBounds
    <3> QED
      BY <3>1 DEF Began
  <2>7. ASSUME NEW k \in T
        PROVE  \E i \in S : k \in parts[i]
    <3>1. Errors!Within(Errors!Truncate(times[k]), Size * Interval)
      BY <2>1 DEF Errors!Within
    <3>2. PICK i \in DOMAIN windows : windows[i].start = Errors!Truncate(times[k])
      BY <3>1 DEF ErrorsInv, Windows, Covered
    <3> QED
      BY <3>2 DEF Began
  <2> HIDE DEF T, S, f, parts
  <2>8. Errors!SumOver(f, S) = Cardinality(T)
    BY <2>3, <2>4, <2>5, <2>6, <2>7, PartsAddUp
  <2> QED
    BY <2>8 DEF T, S, f, Errors!ErrorsIn
<1>2. /\ total = Len(times) /\ total = Errors!SumOver(counts, Codes)
      /\ \A c \in Codes : counts[c] >= Errors!SumOver(AtPlaces(c), Places \ {None})
  BY DEF ErrorsInv, Tables
<1> QED
  BY <1>1, <1>2, ErrorsCounted DEF RateMatchesErrors, Errors!RateMatchesErrors, AtPlaces

LEMMA ErrorsInit == Errors!Init => ErrorsInv
<1> SUFFICES ASSUME Errors!Init PROVE ErrorsInv
  OBVIOUS
<1> USE DEF Errors!Init
<1>1. <<>> \in Seq(Nat) /\ <<>> \in Seq(Window) /\ DOMAIN <<>> = {} /\ Len(<<>>) = 0
  OBVIOUS
<1>2. Errors!TypeOK
  BY <1>1, MetricsBounds DEF Errors!TypeOK, Window
<1>3. Tables
  <2>1. IsFiniteSet(Errors!Units(counts, Codes)) /\ Errors!SumOver(counts, Codes) = 0
    BY NoUnits
  <2>2. ASSUME NEW c \in Codes
        PROVE  /\ IsFiniteSet(Errors!Units(AtPlaces(c), Places \ {None}))
               /\ Errors!SumOver(AtPlaces(c), Places \ {None}) = 0
    <3>1. AtPlaces(c) = [p \in Places \ {None} |-> 0]
      BY DEF AtPlaces
    <3> QED
      BY <3>1, NoUnits
  <2>3. total = 0 /\ Len(times) = 0 /\ \A c \in Codes : counts[c] = 0
    BY <1>1
  <2>4. ASSUME NEW c \in Codes
        PROVE  counts[c] >= Errors!SumOver(AtPlaces(c), Places \ {None})
    <3>1. counts[c] = 0 /\ Errors!SumOver(AtPlaces(c), Places \ {None}) = 0
      BY <2>2, <2>3
    <3> QED
      BY <3>1
  <2> HIDE DEF Errors!Init
  <2> QED
    BY <2>1, <2>2, <2>3, <2>4 DEF Tables
<1>4. Windows
  BY <1>1 DEF Windows, Counting, Covered, Spaced
<1> QED
  BY <1>2, <1>3, <1>4 DEF ErrorsInv

LEMMA TablesStep == ErrorsInv /\ [Errors!Next]_errorsVars => Tables'
<1> SUFFICES ASSUME ErrorsInv, [Errors!Next]_errorsVars PROVE Tables'
  OBVIOUS
<1>1. CASE UNCHANGED <<counts, byPlace, total, times>>
  BY <1>1 DEF ErrorsInv, Tables, AtPlaces
<1>2. CASE Errors!Reset
  <2> USE <1>2 DEF Errors!Reset
  <2>1. IsFiniteSet(Errors!Units(counts', Codes)) /\ Errors!SumOver(counts', Codes) = 0
    BY NoUnits
  <2>2. ASSUME NEW c \in Codes
        PROVE  /\ IsFiniteSet(Errors!Units(AtPlaces(c)', Places \ {None}))
               /\ Errors!SumOver(AtPlaces(c)', Places \ {None}) = 0
    <3>1. AtPlaces(c)' = [p \in Places \ {None} |-> 0]
      BY DEF AtPlaces
    <3> QED
      BY <3>1, NoUnits
  <2>3. total' = 0 /\ Len(times') = 0 /\ \A c \in Codes : counts'[c] = 0
    OBVIOUS
  <2>4. ASSUME NEW c \in Codes
        PROVE  counts'[c] >= Errors!SumOver(AtPlaces(c)', Places \ {None})
    <3>1. counts'[c] = 0 /\ Errors!SumOver(AtPlaces(c)', Places \ {None}) = 0
      BY <2>2, <2>3
    <3> QED
      BY <3>1
  <2> HIDE <1>2 DEF Errors!Reset
  <2> QED
    BY <2>1, <2>2, <2>3, <2>4 DEF Tables
<1>3. ASSUME NEW r \in Goroutines, Errors!Record(r)
      PROVE  Tables'
  <2>1. PICK c \in Codes, p \in Places :
           /\ counts' = [counts EXCEPT ![c] = @ + 1]
           /\ byPlace' = IF p = None THEN byPlace ELSE [byPlace EXCEPT ![p][c] = @ + 1]
    BY <1>3 DEF Errors!Record
  <2>2. total' = total + 1 /\ times' = Append(times, now)
    BY <1>3 DEF Errors!Record
  <2>3. /\ counts \in [Codes -> Nat] /\ byPlace \in [Places \ {None} -> [Codes -> Nat]]
        /\ times \in Seq(Nat) /\ now \in Nat
    BY MetricsBounds DEF ErrorsInv, Windows, Errors!TypeOK
  <2>4. /\ total = Len(times)
        /\ IsFiniteSet(Errors!Units(counts, Codes)) /\ total = Errors!SumOver(counts, Codes)
        /\ \A e \in Codes : /\ IsFiniteSet(Errors!Units(AtPlaces(e), Places \ {None}))
                            /\ counts[e] >= Errors!SumOver(AtPlaces(e), Places \ {None})
    BY DEF ErrorsInv, Tables
  <2>5. total' = Len(times')
    <3>1. Len(Append(times, now)) = Len(times) + 1
      BY <2>3, RowsOfAppend
    <3> QED
      BY <2>2, <2>4, <3>1
  <2>6. IsFiniteSet(Errors!Units(counts', Codes)) /\ total' = Errors!SumOver(counts', Codes)
    <3>1. /\ IsFiniteSet(Errors!Units(counts', Codes))
          /\ Errors!SumOver(counts', Codes) = Errors!SumOver(counts, Codes) + 1
      BY <2>1, <2>3, <2>4, OneMoreUnit
    <3> QED
      BY <2>2, <2>4, <3>1
  <2>7. ASSUME NEW e \in Codes
        PROVE  /\ IsFiniteSet(Errors!Units(AtPlaces(e)', Places \ {None}))
               /\ counts'[e] >= Errors!SumOver(AtPlaces(e)', Places \ {None})
    <3>1. counts[e] \in Nat /\ counts'[e] = IF e = c THEN counts[e] + 1 ELSE counts[e]
      BY <2>1, <2>3
    <3>2. CASE AtPlaces(e)' = AtPlaces(e)
      <4>1. Errors!SumOver(AtPlaces(e), Places \ {None}) \in Nat
        BY <2>4, FS_CardinalityType, ErrorsCounted DEF Errors!SumOver
      <4> QED
        BY <2>4, <3>1, <3>2, <4>1
    <3>3. CASE e = c /\ p # None
      <4> DEFINE f == AtPlaces(e)
                 g == AtPlaces(e)'
      <4>1. f \in [Places \ {None} -> Nat] /\ g = [f EXCEPT ![p] = @ + 1] /\ p \in Places \ {None}
        BY <2>1, <2>3, <3>3 DEF AtPlaces
      <4> HIDE DEF f, g
      <4>2. IsFiniteSet(Errors!Units(f, Places \ {None})) /\ counts[e] >= Errors!SumOver(f, Places \ {None})
        BY <2>4 DEF f
      <4>3. /\ IsFiniteSet(Errors!Units(g, Places \ {None}))
            /\ Errors!SumOver(g, Places \ {None}) = Errors!SumOver(f, Places \ {None}) + 1
            /\ Errors!SumOver(f, Places \ {None}) \in Nat
        BY <4>1, <4>2, OneMoreUnit
      <4>4. counts'[e] >= Errors!SumOver(g, Places \ {None})
        BY <3>1, <3>3, <4>2, <4>3
      <4> QED
        BY <4>3, <4>4 DEF g
    <3>4. e # c \/ p = None => AtPlaces(e)' = AtPlaces(e)
      BY <2>1, <2>3 DEF AtPlaces
    <3> QED
      BY <3>2, <3>3, <3>4
  <2> QED
    BY <2>5, <2>6, <2>7 DEF Tables
<1>4. ASSUME NEW r \in Goroutines, Errors!SeeEnabled(r)
      PROVE  Tables'
  BY <1>1, <1>4 DEF Errors!SeeEnabled
<1> QED
  BY <1>1, <1>2, <1>3, <1>4 DEF Errors!Next, Errors!Toggle, Errors!Tick, errorsVars

LEMMA WindowsStep == ErrorsInv /\ [Errors!Next]_errorsVars => Windows' /\ Len(windows') <= Size
<1> SUFFICES ASSUME ErrorsInv, [Errors!Next]_errorsVars PROVE Windows' /\ Len(windows') <= Size
  OBVIOUS
<1>1. /\ times \in Seq(Nat) /\ Counting(windows, times) /\ Covered(windows, times)
      /\ now \in 0..MaxTime /\ now \in Nat /\ Len(windows) <= Size
  BY MetricsBounds DEF ErrorsInv, Windows, Errors!TypeOK
<1>2. ASSUME now' = now, times' \in Seq(Nat), Counting(windows', times'), Covered(windows', times')
      PROVE  Windows'
  <2>1. Counting(windows, times)'
    BY <1>2 DEF Counting
  <2>2. Covered(windows, times)'
    BY <1>2 DEF Covered, Errors!Within
  <2> QED
    BY <1>2, <2>1, <2>2 DEF Windows
<1>3. CASE UNCHANGED <<now, windows, times>>
  BY <1>1, <1>2, <1>3
<1>4. CASE Errors!Reset
  <2>1. now' = now /\ windows' = <<>> /\ times' = <<>>
    BY <1>4 DEF Errors!Reset
  <2>2. Counting(<<>>, <<>>) /\ Covered(<<>>, <<>>) /\ <<>> \in Seq(Nat) /\ Len(<<>>) = 0
    BY DEF Counting, Covered, Spaced
  <2> QED
    BY <1>2, <2>1, <2>2, MetricsBounds
<1>5. ASSUME NEW r \in Goroutines, Errors!Record(r)
      PROVE  Windows' /\ Len(windows') <= Size
  <2>1. now' = now /\ windows' = Errors!Incremented(windows) /\ times' = Append(times, now)
    BY <1>5 DEF Errors!Record
  <2>2. /\ Counting(windows', Append(times, now)) /\ Covered(windows', Append(times, now))
        /\ Len(windows') <= Size
    BY <1>1, <2>1, IncrementedWindows
  <2>3. Append(times, now) \in Seq(Nat)
    BY <1>1, AppendProperties
  <2> QED
    BY <1>2, <2>1, <2>2, <2>3
<1>6. CASE Errors!Tick
  <2>1. now' = now + 1 /\ windows' = windows /\ times' = times
    BY <1>6 DEF Errors!Tick
  <2>2. Errors!Truncate(now) <= Errors!Truncate(now') /\ Errors!Truncate(now) \in Nat /\ Errors!Truncate(now') \in Nat
    BY <1>1, <2>1, Truncated
  <2>3. \A i \in DOMAIN windows : windows[i].start \in Nat
    BY <1>1, WindowRows
  <2>4. Counting(windows, times)'
    BY <1>1, <2>1, <2>2, <2>3 DEF Counting
  <2>5. \A t \in Nat : Errors!Within(t, Size * Interval)' => Errors!Within(t, Size * Interval)
    BY <1>1, <2>1, Intervals, MetricsBounds DEF Errors!Within
  <2>6. \A k \in DOMAIN times : Errors!Truncate(times[k]) \in Nat
    <3>1. \A k \in DOMAIN times : times[k] \in Nat
      BY <1>1, LenProperties, ElementOfSeq
    <3> QED
      BY <3>1, Truncated
  <2>7. Covered(windows, times)'
    BY <1>1, <2>1, <2>5, <2>6 DEF Covered
  <2> QED
    BY <1>1, <2>1, <2>4, <2>7 DEF Windows
<1>7. ASSUME NEW r \in Goroutines, Errors!SeeEnabled(r)
      PROVE  Windows' /\ Len(windows') <= Size
  BY <1>3, <1>7 DEF Errors!SeeEnabled
<1> QED
  BY <1>3, <1>4, <1>5, <1>6, <1>7 DEF Errors!Next, Errors!Toggle, errorsVars

LEMMA ErrorTypesStep == ErrorsInv /\ [Errors!Next]_errorsVars => Errors!TypeOK'
<1> SUFFICES ASSUME ErrorsInv, [Errors!Next]_errorsVars PROVE Errors!TypeOK'
  OBVIOUS
<1>1. /\ now \in 0..MaxTime /\ enabled \in BOOLEAN /\ errorAt \in [Goroutines -> {"idle", "count"}]
      /\ counts \in [Codes -> Nat] /\ byPlace \in [Places \ {None} -> [Codes -> Nat]] /\ total \in Nat
  BY DEF ErrorsInv, Errors!TypeOK
<1>2. windows' \in Seq(Window) /\ Len(windows') <= Size
  BY WindowsStep DEF Windows, Counting
<1>3. ASSUME NEW r \in Goroutines, Errors!Record(r)
      PROVE  /\ now' \in 0..MaxTime /\ enabled' \in BOOLEAN
             /\ errorAt' \in [Goroutines -> {"idle", "count"}]
             /\ counts' \in [Codes -> Nat] /\ byPlace' \in [Places \ {None} -> [Codes -> Nat]]
             /\ total' \in Nat
  BY <1>1, <1>3 DEF Errors!Record
<1>4. CASE Errors!Tick
  BY <1>1, <1>2, <1>4, MetricsBounds DEF Errors!Tick, Errors!TypeOK, Window
<1>5. CASE Errors!Reset
  BY <1>1, <1>2, <1>5 DEF Errors!Reset, Errors!TypeOK, Window
<1>6. CASE Errors!Toggle
  BY <1>1, <1>2, <1>6 DEF Errors!Toggle, Errors!TypeOK, Window
<1>7. ASSUME NEW r \in Goroutines, Errors!SeeEnabled(r)
      PROVE  Errors!TypeOK'
  BY <1>1, <1>2, <1>7 DEF Errors!SeeEnabled, Errors!TypeOK, Window
<1>8. CASE UNCHANGED errorsVars
  BY <1>1, <1>2, <1>8 DEF errorsVars, Errors!TypeOK, Window
<1>9. ASSUME NEW r \in Goroutines, Errors!Record(r)
      PROVE  Errors!TypeOK'
  BY <1>2, <1>3, <1>9 DEF Errors!TypeOK, Window
<1> QED
  BY <1>4, <1>5, <1>6, <1>7, <1>8, <1>9 DEF Errors!Next

LEMMA ErrorsStep == ErrorsInv /\ [Errors!Next]_errorsVars => ErrorsInv'
  BY TablesStep, WindowsStep, ErrorTypesStep DEF ErrorsInv

(* The error rate counts every error of its duration once, and the tables  *)
(* agree with it.                                                          *)
THEOREM RateCorrect == Spec => []RateMatchesErrors
<1>1. ErrorsInv => RateMatchesErrors
  BY RateIsExact
<1>2. Init => ErrorsInv
  BY BeginsAll, ErrorsInit
<1>3. ErrorsInv /\ [Next]_vars => ErrorsInv'
  BY StepOfOne, ErrorsStep
<1> QED
  BY <1>1, <1>2, <1>3, PTL DEF Spec

-----------------------------------------------------------------------------
(* The types of the components whose invariants did not need them.         *)

LevelTypes ==
    /\ Levels!TypeOK
    /\ Len(past) <= MaxChanges + 1
    /\ pending # Nobody => Len(past) <= MaxChanges

LEMMA LevelTypesInit == Levels!Init => LevelTypes
<1> SUFFICES ASSUME Levels!Init PROVE LevelTypes
  OBVIOUS
<1>1. MaxChanges \in Nat
  BY ComponentsAssumption DEF Levels!LevelAssumption
<1>2. Len(past) = 1
  BY DEF Levels!Init
<1>3. levelConfig \in Levels!Config
  BY DEF Levels!Init, Levels!Config
<1> QED
  BY <1>1, <1>2, <1>3 DEF LevelTypes, Levels!TypeOK, Levels!Init

LEMMA LevelTypesStep == LevelsInv /\ LevelTypes /\ [Levels!Next]_levelsVars => LevelTypes'
<1> SUFFICES ASSUME LevelsInv, LevelTypes, [Levels!Next]_levelsVars PROVE LevelTypes'
  OBVIOUS
<1> DEFINE Answers == [record : Levels!Record, by : Levels!Kinds, until : 1..(MaxChanges + 1)]
<1>1. /\ MaxChanges \in Nat /\ Len(past) \in Nat /\ Len(past) >= 1 /\ past \in Seq(Levels!Config)
  BY ComponentsAssumption, LenProperties DEF Levels!LevelAssumption, LevelsInv, LevelsTyped
<1>2. /\ levelConfig \in Levels!Config /\ pending \in Goroutines \cup {Nobody}
      /\ part \in [Goroutines -> LogLevels \cup {NoLevel}]
      /\ \A t \in Goroutines : logging[t] = Nobody \/ logging[t] \in Levels!Record
      /\ out = Nobody \/ out \in Levels!Config \/ out \in Answers
      /\ Len(past) <= MaxChanges + 1 /\ (pending # Nobody => Len(past) <= MaxChanges)
  BY DEF LevelTypes, Levels!TypeOK
<1>3. /\ levelConfig' \in Levels!Config
      /\ part' \in [Goroutines -> LogLevels \cup {NoLevel}]
      /\ DOMAIN logging = Goroutines
  BY LevelsStep DEF LevelsInv, LevelsTyped
(* What has to be shown of a step that changes no level.                   *)
<1>4. ASSUME past' = past, pending' = pending,
             \A t \in Goroutines : logging'[t] \in {logging[t], Nobody} \/ logging'[t] \in Levels!Record,
             out' = Nobody \/ out' \in Levels!Config \/ out' \in Answers
      PROVE  LevelTypes'
  BY <1>1, <1>2, <1>3, <1>4 DEF LevelTypes, Levels!TypeOK
<1>5. ASSUME NEW t \in Goroutines, Levels!Announce(t) PROVE LevelTypes'
  BY <1>1, <1>2, <1>3, <1>5 DEF Levels!Announce, LevelTypes, Levels!TypeOK
<1>6. ASSUME NEW t \in Goroutines, Levels!Change(t) PROVE LevelTypes'
  <2>1. /\ pending = t /\ pending' = Nobody /\ past' = Append(past, levelConfig')
        /\ out' = Nobody /\ logging' = logging
    BY <1>6 DEF Levels!Change, Levels!ChangeLevels
  <2>2. t # Nobody
    BY ComponentsAssumption DEF Levels!LevelAssumption
  <2>3. Len(past') = Len(past) + 1
    BY <1>1, <1>3, <2>1, AppendProperties
  <2> QED
    BY <1>1, <1>2, <1>3, <2>1, <2>2, <2>3 DEF LevelTypes, Levels!TypeOK
<1>7. ASSUME NEW t \in Goroutines, Levels!ReadDefault(t) PROVE LevelTypes'
  BY <1>4, <1>7 DEF Levels!ReadDefault
<1>8. ASSUME NEW t \in Goroutines, Levels!CopyLevels(t) PROVE LevelTypes'
  <2>1. out' \in Levels!Config
    BY <1>2, <1>8 DEF Levels!CopyLevels, Levels!Reading, Levels!Config
  <2> QED
    BY <1>4, <1>8, <2>1 DEF Levels!CopyLevels
<1>9. ASSUME NEW t \in Goroutines, Levels!Ask(t) PROVE LevelTypes'
  <2>1. PICK c \in Components, named \in BOOLEAN, l \in LogLevels :
           logging' = [logging EXCEPT ![t] =
                         [component |-> c, named |-> named, level |-> l, since |-> Len(past)]]
    BY <1>9 DEF Levels!Ask
  <2>2. [component |-> c, named |-> named, level |-> l, since |-> Len(past)] \in Levels!Record
    BY <1>1, <1>2 DEF Levels!Record
  <2>3. \A u \in Goroutines : logging'[u] = logging[u] \/ logging'[u] \in Levels!Record
    BY <1>3, <2>1, <2>2
  <2> QED
    BY <1>4, <1>9, <2>3 DEF Levels!Ask
<1>10. ASSUME NEW t \in Goroutines, Levels!Handle(t) PROVE LevelTypes'
  <2>1. PICK by \in Levels!Kinds :
           out' \in {Nobody, [record |-> logging[t], by |-> by, until |-> Len(past)]}
    BY <1>10 DEF Levels!Handle
  <2>2. logging[t] \in Levels!Record
    BY <1>2, <1>10 DEF Levels!Handle
  <2>3. out' = Nobody \/ out' \in Answers
    BY <1>1, <1>2, <2>1, <2>2
  <2>4. logging' = [logging EXCEPT ![t] = Nobody] /\ past' = past /\ pending' = pending
    BY <1>10 DEF Levels!Handle
  <2> QED
    BY <1>3, <1>4, <2>3, <2>4
<1>11. CASE UNCHANGED levelsVars
  BY <1>2, <1>4, <1>11 DEF levelsVars
<1> QED
  BY <1>5, <1>6, <1>7, <1>8, <1>9, <1>10, <1>11 DEF Levels!Next

LEMMA ConfigBegins == Config!Init => ConfigInv /\ Config!TypeOK
  BY DEF Config!Init, ConfigInv, Config!TypeOK

LEMMA ConfigTypesStep ==
    ConfigInv /\ Config!TypeOK /\ [Config!Next]_configVars => Config!TypeOK'
<1> SUFFICES ASSUME ConfigInv, Config!TypeOK, [Config!Next]_configVars PROVE Config!TypeOK'
  OBVIOUS
<1>1. ConfigInv'
  BY ConfigStep
<1>2. CASE Config!Load
  BY <1>1, <1>2 DEF Config!Load, Config!TypeOK, ConfigInv, Loaded
<1>3. CASE Config!Convert
  BY <1>1, <1>3 DEF Config!Convert, Config!TypeOK, ConfigInv, Settled
<1>4. CASE Config!Initialize
  BY <1>4 DEF Config!Initialize, Config!TypeOK
<1>5. CASE Config!Build
  BY <1>5 DEF Config!Build, Config!TypeOK
<1>6. CASE UNCHANGED configVars
  BY <1>6 DEF configVars, Config!TypeOK
<1> QED
  BY <1>2, <1>3, <1>4, <1>5, <1>6 DEF Config!Next

LEMMA RepliesAre ==
    Replies = [to : Requests, status : {"line", "200", "4xx", "500"},
               code : Process!Immediate \cup {"InternalError", "none"}]
<1>1. Result \in Process!Immediate
  <2> DEFINE f == [version |-> "2.0", id |-> "some", method |-> "tools/list", name |-> "empty",
                   arguments |-> "null"]
  <2>1. f \in Process!Forms /\ Process!HandleRequest(f) = Result
    BY DEF Process!Forms, Process!HandleRequest, Process!ValidRequest
  <2>2. Result # "tool"
    BY ComponentsAssumption DEF Process!ServerAssumption
  <2> HIDE DEF f
  <2> QED
    BY <2>1, <2>2 DEF Process!Immediate
<1> QED
  BY <1>1 DEF Replies

LEMMA ProcessTypesInit == Process!Init => Process!TypeOK
<1>1. <<>> \in Seq([to : Requests, status : {"line", "200", "4xx", "500"},
                    code : Process!Immediate \cup {"InternalError", "none"}]) /\ <<>> \in Seq(Requests)
  OBVIOUS
<1> QED
  BY <1>1 DEF Process!Init, Process!TypeOK

LEMMA ProcessTypesStep ==
    ProcessInv /\ Process!TypeOK /\ [Process!Next]_serverVars => Process!TypeOK'
<1> SUFFICES ASSUME ProcessInv, Process!TypeOK, [Process!Next]_serverVars PROVE Process!TypeOK'
  OBVIOUS
<1> DEFINE Rest == /\ context \in {"live", "cancelled"} /\ discarded \subseteq Requests
                   /\ backend \in {"none", "open", "closed"} /\ ended \in BOOLEAN
<1>1. /\ transport' \in {"http", "stdio"}
      /\ phase' \in {"starting", "serving", "draining", "returned", "failed", "panicked",
                     "exited", "killed"}
      /\ kind' \in [Requests -> Process!Kinds(transport)' \cup {"unsent"}]
      /\ inbox' \in Seq(Requests) /\ busy' \subseteq Requests /\ answers' \in Seq(Replies)
  BY ProcessStep DEF ProcessInv, ProcessTyped, ProcessQueues, ProcessPhases, Failing
<1>2. Rest
  BY DEF Process!TypeOK
<1>3. ASSUME NEW r \in Requests, Process!Send(r) \/ Process!Receive(r) \/ Process!Tool(r)
      PROVE  Rest'
  BY <1>2, <1>3 DEF Process!Send, Process!Receive, Process!Tool, Process!ToolReturns, Process!ToolPanics
<1>4. ASSUME Process!CloseInput \/ Process!Signal \/ Process!ListenFails PROVE Rest'
  BY <1>2, <1>4 DEF Process!CloseInput, Process!Signal, Process!ListenFails
<1>5. ASSUME Process!Scan PROVE Rest'
  <2>1. inbox \in Seq(Requests) /\ inbox # <<>>
    BY <1>5 DEF Process!Scan, Process!TypeOK
  <2>2. Head(inbox) \in Requests
    BY <2>1, HeadTailProperties
  <2>3. discarded' \in {discarded, {Head(inbox)}}
    BY <1>5 DEF Process!Scan
  <2>4. UNCHANGED <<context, ended, backend>>
    BY <1>5 DEF Process!Scan
  <2> QED
    BY <1>2, <2>2, <2>3, <2>4
<1>6. ASSUME Process!Main /\ ~Process!Scan PROVE Rest'
  BY <1>2, <1>6 DEF Process!Main, Process!Start, Process!EndOfInput, Process!StopListening,
                    Process!Drained, Process!CloseBackend, Process!ShutdownLog, Process!Exit
<1>7. ASSUME UNCHANGED serverVars PROVE Rest'
  BY <1>2, <1>7 DEF serverVars
<1>8. Rest'
  BY <1>3, <1>4, <1>5, <1>6, <1>7 DEF Process!Next, Process!Main
<1> HIDE DEF Rest
<1>9. answers' \in Seq([to : Requests, status : {"line", "200", "4xx", "500"},
                        code : Process!Immediate \cup {"InternalError", "none"}])
  BY <1>1, RepliesAre
<1> QED
  BY <1>1, <1>8, <1>9 DEF Process!TypeOK, Rest

(* Every component keeps to its types.                                     *)
THEOREM TypeCorrect == Spec => []ComponentsTypeOK
<1> DEFINE Invs == /\ FactoryInv /\ TracingInv /\ BatchingInv /\ OtlpProofs!Inv
                   /\ BurstsInv /\ StrategyInv /\ AuditInv /\ ErrorsInv
                   /\ LevelsInv /\ LevelTypes
                   /\ ConfigInv /\ Config!TypeOK
                   /\ ProcessInv /\ Process!TypeOK
<1>1. Invs => ComponentsTypeOK
  <2>1. FactoryInv => Factory!TypeOK
    BY DEF FactoryInv
  <2>2. TracingInv => Tracing!TypeOK
    BY DEF TracingInv
  <2>3. BatchingInv => Batching!TypeOK
    BY DEF BatchingInv, BatchingTyped
  <2>4. OtlpProofs!Inv => Otlp!TypeOK
    BY DEF OtlpProofs!Inv, OtlpProofs!Typed, OtlpProofs!TypeOK, Otlp!TypeOK,
           OtlpProofs!Records, Otlp!Records
  <2>5. BurstsInv => Bursts!TypeOK
    BY DEF BurstsInv, BurstsTyped
  <2>6. StrategyInv => Strategy!TypeOK
    BY DEF StrategyInv
  <2>7. AuditInv => Audit!TypeOK
    BY DEF AuditInv, AuditTyped
  <2>8. ErrorsInv => Errors!TypeOK
    BY DEF ErrorsInv
  <2>9. LevelTypes => Levels!TypeOK
    BY DEF LevelTypes
  <2> QED
    BY <2>1, <2>2, <2>3, <2>4, <2>5, <2>6, <2>7, <2>8, <2>9 DEF ComponentsTypeOK
<1>2. Init => Invs
  BY BeginsAll, FactoryInit, TracingInit, BatchingInit, OtlpInit, BurstsInit, StrategyInit,
     AuditInit, ErrorsInit, LevelsInit, LevelTypesInit, ConfigBegins, ProcessInit, ProcessTypesInit
<1>3. Invs /\ [Next]_vars => Invs'
  BY StepOfOne, FactoryStep, TracingStep, BatchingStep, OtlpStep, BurstsStep, StrategyStep,
     AuditStep, ErrorsStep, LevelsStep, LevelTypesStep, ConfigStep, ConfigTypesStep,
     ProcessStep, ProcessTypesStep
<1> HIDE DEF Invs
<1> QED
  BY <1>1, <1>2, <1>3, PTL DEF Spec
=============================================================================
