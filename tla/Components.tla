----------------------------- MODULE Components -----------------------------
(***************************************************************************)
(* The components around the storage and the SSE transport, side by side.  *)
(* They share no state: of two steps of different components the order     *)
(* makes no difference to either.  So each behaviour here is one of a      *)
(* single component, which `focus` names, while the others stay as they    *)
(* begin: the states add up instead of multiplying.                        *)
(***************************************************************************)
EXTENDS Integers, Sequences

CONSTANTS
    Goroutines, \* those that log, ask for loggers or configurations, or record errors
    Requests,
    MaxFiles, MaxFileSize, MaxEvents, MaxFaults,                   \* Audit
    Names, Components, Unnamed, Matching, Parents, LogLevels,      \* Levels
    WarnLevel, DebugLevel, BaseLevel, Configs, MaxChanges,
    SpanIds, MaxSpansPerTrace, MaxRefused,                         \* Tracing
    QueueSize, BatchSize, MaxRecords,                              \* Otlp and Batching
    Timer, Closer,
    BurstSize, Minute, MaxBurstRecords, MaxBurstTime,              \* Bursts
    One, MinRate, MaxAdjusts,                                      \* Strategy
    DebugName, InfoName, MaxFactories, MaxUpdates,                 \* Factory
    Codes, Places, Size, Interval, MaxTime, MaxErrors,             \* Errors
    Absent, Torn, Nobody, NoLevel, NoSpan, Unset, NoFactory, None, Result

VARIABLES
    focus,
    files, handle, encoder, auditMu, auditAt, shift, written, faults, damage,
    levelConfig, pending, part, logging, out, past,
    spans, spanStatus, parent, spanAt, span, inner, health, listing,
    otlpPassed, sending, queue, otlpBatch, loop, exported, attempts, failures, done,
    batchAt, count, batchMu, batch, cursor, timer, fired, closed, channel, sent, closing,
    samplerConfig, samplerNow, window, counter, totals, passing, passed, bursts,
    strategies, default, rate, recent, adjusts, sampleAt, record, seen, sampled, read,
    stats, overall, calls,
    factory, made, factoriesOpen, level, levels, cache, getterAt, handler, debug, updates,
    failed,
    now, enabled, errorAt, counts, byPlace, total, windows, times,
    transport, phase, context, kind, inbox, ended, busy, answers, discarded, backend,
    stage, settings, env, log

Audit == INSTANCE AuditLog WITH
    Loggers <- Goroutines, mu <- auditMu, at <- auditAt

Levels == INSTANCE LevelHandler WITH
    Threads <- Goroutines, Levels <- LogLevels, Warn <- WarnLevel, Debug <- DebugLevel,
    config <- levelConfig

Tracing == INSTANCE TraceManager WITH
    status <- spanStatus, at <- spanAt

Otlp == INSTANCE OTLPHandler WITH
    Producers <- Goroutines, passed <- otlpPassed, batch <- otlpBatch

Batching == INSTANCE BatchingHandler WITH
    Producers <- Goroutines, MaxEntries <- MaxRecords, at <- batchAt, mu <- batchMu

Bursts == INSTANCE Sampler WITH
    Loggers <- Goroutines, MaxRecords <- MaxBurstRecords, MaxTime <- MaxBurstTime,
    config <- samplerConfig, now <- samplerNow

Strategy == INSTANCE Sampling WITH
    Callers <- Goroutines, at <- sampleAt

Factory == INSTANCE LoggerFactory WITH
    Getters <- Goroutines, Debug <- DebugName, Info <- InfoName,
    open <- factoriesOpen, at <- getterAt

Errors == INSTANCE ErrorMetrics WITH
    Recorders <- Goroutines, at <- errorAt

Process == INSTANCE Server

Config == INSTANCE Configuration

ASSUME ComponentsAssumption ==
    /\ Audit!AuditAssumption
    /\ Levels!LevelAssumption /\ Levels!ConfigsAssumption
    /\ Tracing!TraceAssumption
    /\ Otlp!OTLPAssumption
    /\ Batching!BatchingAssumption
    /\ Bursts!SamplerAssumption
    /\ Strategy!SamplingAssumption
    /\ Factory!FactoryAssumption
    /\ Errors!MetricsAssumption
    /\ Process!ServerAssumption

auditVars == <<files, handle, encoder, auditMu, auditAt, shift, written, faults, damage>>
levelsVars == <<levelConfig, pending, part, logging, out, past>>
spansVars == <<spans, spanStatus, parent, spanAt, span, inner, health, listing>>
otlpVars == <<otlpPassed, sending, queue, otlpBatch, loop, exported, attempts, failures, done>>
batchingVars == <<batchAt, count, batchMu, batch, cursor, timer, fired, closed, channel, sent, closing>>
samplerVars == <<samplerConfig, samplerNow, window, counter, totals, passing, passed, bursts>>
samplingVars == <<strategies, default, rate, recent, adjusts, sampleAt, record, seen, sampled, read,
    stats, overall, calls>>
loggersVars == <<factory, made, factoriesOpen, level, levels, cache, getterAt, handler, debug, updates,
    failed>>
errorsVars == <<now, enabled, errorAt, counts, byPlace, total, windows, times>>
serverVars == <<transport, phase, context, kind, inbox, ended, busy, answers, discarded, backend>>
configVars == <<stage, settings, env, log>>

(* Where a component may begin in several ways, one will do while another  *)
(* component is in focus.                                                  *)
Aside ==
    /\ focus # "levels"   => levelConfig.default = WarnLevel
    /\ focus # "sampler"  => samplerConfig = [enabled |-> TRUE, alwaysErrors |-> TRUE]
    /\ focus # "sampling" => strategies = {"fixed"}
    /\ focus # "loggers"  => level = InfoName
    /\ focus # "server"   => transport = "stdio"

Init ==
    /\ focus \in {"audit", "levels", "spans", "otlp", "batching",
                  "sampler", "sampling", "loggers", "errors", "server", "config"}
    /\ Audit!Init
    /\ Levels!Init
    /\ Tracing!Init
    /\ Otlp!Init
    /\ Batching!Init
    /\ Bursts!Init
    /\ Strategy!Init
    /\ Factory!Init
    /\ Errors!Init
    /\ Process!Init
    /\ Config!Init
    /\ Aside

(* A step of the component in focus, and of no other.                      *)
Only(component, rest) == focus = component /\ UNCHANGED <<focus, rest>>

ButAudit == <<levelsVars, spansVars, otlpVars, batchingVars, samplerVars, samplingVars, loggersVars,
    errorsVars, serverVars, configVars>>
ButLevels == <<auditVars, spansVars, otlpVars, batchingVars, samplerVars, samplingVars, loggersVars,
    errorsVars, serverVars, configVars>>
ButTracing == <<auditVars, levelsVars, otlpVars, batchingVars, samplerVars, samplingVars, loggersVars,
    errorsVars, serverVars, configVars>>
ButOtlp == <<auditVars, levelsVars, spansVars, batchingVars, samplerVars, samplingVars, loggersVars,
    errorsVars, serverVars, configVars>>
ButBatching == <<auditVars, levelsVars, spansVars, otlpVars, samplerVars, samplingVars, loggersVars,
    errorsVars, serverVars, configVars>>
ButBursts == <<auditVars, levelsVars, spansVars, otlpVars, batchingVars, samplingVars, loggersVars,
    errorsVars, serverVars, configVars>>
ButStrategy == <<auditVars, levelsVars, spansVars, otlpVars, batchingVars, samplerVars, loggersVars,
    errorsVars, serverVars, configVars>>
ButFactory == <<auditVars, levelsVars, spansVars, otlpVars, batchingVars, samplerVars, samplingVars,
    errorsVars, serverVars, configVars>>
ButErrors == <<auditVars, levelsVars, spansVars, otlpVars, batchingVars, samplerVars, samplingVars,
    loggersVars, serverVars, configVars>>
ButProcess == <<auditVars, levelsVars, spansVars, otlpVars, batchingVars, samplerVars, samplingVars,
    loggersVars, errorsVars, configVars>>
ButConfig == <<auditVars, levelsVars, spansVars, otlpVars, batchingVars, samplerVars, samplingVars,
    loggersVars, errorsVars, serverVars>>

Next ==
    \/ Only("audit", ButAudit) /\ Audit!Next
    \/ Only("levels", ButLevels) /\ Levels!Next
    \/ Only("spans", ButTracing) /\ Tracing!Next
    \/ Only("otlp", ButOtlp) /\ Otlp!Next
    \/ Only("batching", ButBatching) /\ Batching!Next
    \/ Only("sampler", ButBursts) /\ Bursts!Next
    \/ Only("sampling", ButStrategy) /\ Strategy!Next
    \/ Only("loggers", ButFactory) /\ Factory!Next
    \/ Only("errors", ButErrors) /\ Errors!Next
    \/ Only("server", ButProcess) /\ Process!Next
    \/ Only("config", ButConfig) /\ Config!Next

ServerStep(A) == Only("server", ButProcess) /\ A

(* Of these components only the server is to get anywhere.                 *)
Fairness ==
    /\ WF_serverVars(ServerStep(Process!Main))
    /\ \A r \in Requests : WF_serverVars(ServerStep(Process!Tool(r)))

vars == <<focus, serverVars, ButProcess>>

Spec == Init /\ [][Next]_vars /\ Fairness

-----------------------------------------------------------------------------
(* Only the component in focus moves: it alone is looked at.               *)
ComponentsTypeOK ==
    /\ focus = "audit" => Audit!TypeOK
    /\ focus = "levels" => Levels!TypeOK
    /\ focus = "spans" => Tracing!TypeOK
    /\ focus = "otlp" => Otlp!TypeOK
    /\ focus = "batching" => Batching!TypeOK
    /\ focus = "sampler" => Bursts!TypeOK
    /\ focus = "sampling" => Strategy!TypeOK
    /\ focus = "loggers" => Factory!TypeOK
    /\ focus = "errors" => Errors!TypeOK
    /\ focus = "server" => Process!TypeOK
    /\ focus = "config" => Config!TypeOK

(* What is in the audit files, after whatever failures, is the end of what *)
(* was written, in order.                                                  *)
RotationForgetsTheOldest == Audit!RotationForgetsTheOldest

(* GetConfig answers a configuration that was in force, and a record gets  *)
(* through only at a level that was.                                       *)
LevelsInForce == Levels!LevelsInForce

(* A span ends once, by its request or its timeout, and is counted so.     *)
SpansEndOnce == Tracing!SpansEndOnce

(* A record given to the exporter is exported once, in order, or counted   *)
(* as a failure, or left in the queue.                                     *)
RecordsAccounted == Otlp!RecordsAccounted

(* An entry of a batch is handed over once, in order, never to a closed    *)
(* channel.                                                                *)
HandedOverOnce == Batching!HandedOverOnce

(* Both samplers count every record once, and keep to their limits.        *)
SamplingAccounted == Strategy!SamplingAccounted /\ Bursts!BurstsAreLimited

(* The cache holds no logger of a level that has changed since; one        *)
(* factory at most is open.                                                *)
LoggersAreCurrent == Factory!LoggersAreCurrent

(* The error rate counts every error of the duration once.                 *)
RateMatchesErrors == Errors!RateMatchesErrors

(* Exit code 0: every request read is answered, once; and no tool runs on  *)
(* a backend that is closed, however the server ends.                      *)
OrderlyEnd == Process!GracefulExit /\ Process!BackendOutlivesRequests

(* What Load accepts starts; the log keeps off the answers' stdout.        *)
ConfigurationHolds == Config!AcceptedStarts /\ Config!LogKeepsOffAnswers

(* A signal ends the process, of stdio once its input says something.      *)
ShutdownCompletes == Process!ShutdownCompletes
=============================================================================
