---------------------------- MODULE LevelHandler ----------------------------
(***************************************************************************)
(* pkg/logging/level.go: handlers that filter records by the component     *)
(* that logs, and the lock around their levels.                            *)
(*                                                                         *)
(* A goroutine logs a record, changes the levels, derives a handler, or    *)
(* asks for the whole configuration (GetConfig, GetAllComponentLevels,     *)
(* GetStats).  To log is to ask Enabled and then to call Handle; to ask    *)
(* for the configuration is to take the read lock and to call              *)
(* copyComponentLevels, which takes it a second time.                      *)
(*                                                                         *)
(* sync.RWMutex is external: a writer that waits (pending) lets no new     *)
(* reader in, also not one that already reads.                             *)
(***************************************************************************)
EXTENDS Integers, Sequences, FiniteSets, SequencesExt

CONSTANTS
    Threads,
    Names,      \* components and wildcard patterns
    Components,
    Unnamed,    \* "default", the component of a record that names none
    Matching,   \* Matching[c]: the patterns that match component c
    Parents,    \* Parents[c]: the chain SetComponentHierarchy gave c
    Levels,     \* slog levels
    Warn, Debug,
    NoLevel,    \* the name is not in componentLevels
    BaseLevel,  \* the level of the wrapped handler
    Configs,    \* what UpdateConfig is called with
    MaxChanges, \* bound of the model: changes of the levels
    Nobody

LevelAssumption ==
    /\ Levels \subseteq Int /\ {BaseLevel, Warn, Debug} \subseteq Levels
    /\ Components \subseteq Names /\ Unnamed \in Components /\ Nobody \notin Threads
    /\ MaxChanges \in Nat
    /\ \A c \in Components : Matching[c] \subseteq Names /\ Parents[c] \in Seq(Components)

Config == [default : Levels, levels : [Names -> Levels \cup {NoLevel}]]

ConfigsAssumption == Configs \subseteq Config

VARIABLES
    config,     \* defaultLevel and componentLevels
    pending,    \* the writer that waits for the readers to leave
    part,       \* part[t]: the default level t has read, while GetConfig holds the lock
    logging,    \* logging[t]: the record of t that Enabled let through
    out,        \* history: what came out of this step, an answer of GetConfig
                \* or a record that reached the wrapped handler
    past        \* history: the configurations that were in force, in order

vars == <<config, pending, part, logging, out, past>>

Init ==
    /\ config \in [default : Levels, levels : {[n \in Names |-> NoLevel]}]
    /\ pending = Nobody
    /\ part = [t \in Threads |-> NoLevel]
    /\ logging = [t \in Threads |-> Nobody]
    /\ out = Nobody
    /\ past = <<config>>

-----------------------------------------------------------------------------
(* The levels a component may get: its own, else that of any pattern that  *)
(* matches (the map is searched in no order), else the default.            *)
Inherited(cfg, c) ==
    LET patterns == {n \in Matching[c] : cfg.levels[n] # NoLevel}
    IN  IF patterns = {} THEN {cfg.default} ELSE {cfg.levels[n] : n \in patterns}

Required(cfg, c) ==
    IF cfg.levels[c] # NoLevel THEN {cfg.levels[c]} ELSE Inherited(cfg, c)

(* HierarchicalLevelHandler: the first parent with a level comes before    *)
(* the patterns.                                                           *)
RequiredByHierarchy(cfg, c) ==
    LET named == SelectSeq(<<c>> \o Parents[c], LAMBDA n : cfg.levels[n] # NoLevel)
    IN  IF named # <<>> THEN {cfg.levels[Head(named)]} ELSE Inherited(cfg, c)

(* LoadBasedLevelAdjuster, of DynamicLevelHandler.                         *)
Adjusted(level, load) ==
    CASE load = "high" /\ level < Warn -> Warn
      [] load = "low" /\ level > Debug -> Debug
      [] OTHER -> level

Kinds == {"plain", "hierarchical", "high", "low"}

(* What each kind of handler compares a record with in Handle.             *)
RequiredBy(handler, cfg, c) ==
    CASE handler = "plain"        -> Required(cfg, c)
      [] handler = "hierarchical" -> RequiredByHierarchy(cfg, c)
      [] OTHER                    -> {Adjusted(level, handler) : level \in Required(cfg, c)}

-----------------------------------------------------------------------------
(* RLock.                                                                  *)
MayRead == pending = Nobody

Reading(t) == part[t] # NoLevel

Free(t) == ~Reading(t) /\ logging[t] = Nobody

(* Lock: from now on no reader gets in.                                    *)
Announce(t) ==
    /\ pending = Nobody
    /\ Free(t)
    /\ Len(past) <= MaxChanges
    /\ pending' = t
    /\ out' = Nobody
    /\ UNCHANGED <<config, part, logging, past>>

ChangeLevels(t) ==
    /\ pending = t
    /\ \/ \E n \in Names, level \in Levels \cup {NoLevel} :
             config' = [config EXCEPT !.levels[n] = level]
       \/ \E level \in Levels : config' = [config EXCEPT !.default = level]
       \/ \E cfg \in Configs : config' = cfg
    /\ past' = Append(past, config')
    /\ pending' = Nobody
    /\ out' = Nobody
    /\ UNCHANGED <<part, logging>>

(* Wrong: GetConfig relies on the lock of copyComponentLevels alone, so a  *)
(* writer need not wait for it.                                            *)
ChangeBetween(t) == ChangeLevels(t)

(* SetComponentLevel, RemoveComponentLevel, SetDefaultLevel, UpdateConfig: *)
(* the writer waits until no one reads.                                    *)
Change(t) == (\A r \in Threads : ~Reading(r)) /\ ChangeLevels(t)

(* GetConfig: the first read lock and the default level.                   *)
ReadDefault(t) ==
    /\ MayRead
    /\ Free(t)
    /\ part' = [part EXCEPT ![t] = config.default]
    /\ out' = Nobody
    /\ UNCHANGED <<config, pending, logging, past>>

(* copyComponentLevels: the second read lock, the copy, and both unlocks.  *)
CopyLevels(t) ==
    /\ MayRead
    /\ Reading(t)
    /\ out' = [default |-> part[t], levels |-> config.levels]
    /\ part' = [part EXCEPT ![t] = NoLevel]
    /\ UNCHANGED <<config, pending, logging, past>>

(* Wrong: handlers with an Enabled of their own, which asks the base only. *)
AskBase(t) ==
    /\ MayRead
    /\ Free(t)
    /\ \E c \in Components, named \in BOOLEAN, level \in Levels :
          /\ level >= BaseLevel
          /\ logging' = [logging EXCEPT ![t] =
                [component |-> c, named |-> named, level |-> level, since |-> Len(past)]]
    /\ out' = Nobody
    /\ UNCHANGED <<config, pending, part, past>>

(* Enabled, which every kind of handler has from LevelHandler: it knows    *)
(* the component only when the context names it.                           *)
Ask(t) ==
    /\ MayRead
    /\ Free(t)
    /\ \E c \in Components, named \in BOOLEAN, level \in Levels :
          /\ \E r \in Required(config, IF named THEN c ELSE Unnamed) : level >= r
          /\ level >= BaseLevel
          /\ logging' = [logging EXCEPT ![t] =
                [component |-> c, named |-> named, level |-> level, since |-> Len(past)]]
    /\ out' = Nobody
    /\ UNCHANGED <<config, pending, part, past>>

(* Handle, which finds the component in the record too; the levels may     *)
(* have changed.                                                           *)
Handle(t) ==
    /\ MayRead
    /\ logging[t] # Nobody
    /\ \E handler \in Kinds, r \in Levels :
          /\ r \in RequiredBy(handler, config, logging[t].component)
          /\ out' = IF logging[t].level < r THEN Nobody
                    ELSE [record |-> logging[t], by |-> handler, until |-> Len(past)]
    /\ logging' = [logging EXCEPT ![t] = Nobody]
    /\ UNCHANGED <<config, pending, part, past>>

Next ==
    \E t \in Threads :
        \/ Announce(t) \/ Change(t) \/ ReadDefault(t) \/ CopyLevels(t)
        \/ Ask(t) \/ Handle(t)

Spec == Init /\ [][Next]_vars

-----------------------------------------------------------------------------
Record == [component : Components, named : BOOLEAN, level : Levels, since : 1..(MaxChanges + 1)]

TypeOK ==
    /\ config \in Config
    /\ pending \in Threads \cup {Nobody}
    /\ part \in [Threads -> Levels \cup {NoLevel}]
    /\ \A t \in Threads : logging[t] = Nobody \/ logging[t] \in Record
    /\ \/ out = Nobody
       \/ out \in Config
       \/ out \in [record : Record, by : Kinds, until : 1..(MaxChanges + 1)]

(* What GetConfig returns was in force: its default level and its levels   *)
(* belong together, for which the first of the two locks is there.  What   *)
(* gets through was at or above a level in force for it between Enabled    *)
(* and Handle; and for a component the context names, whatever parents or  *)
(* load ask for, at or above its own level when it was logged: a more      *)
(* verbose parent and a low load have no effect, because Enabled is the    *)
(* embedded handler's.                                                     *)
LevelsInForce ==
    \/ out = Nobody
    \/ out \in Range(past)
    \/ /\ out \notin Config
       /\ \E k \in out.record.since..out.until :
             \E r \in RequiredBy(out.by, past[k], out.record.component) : out.record.level >= r
       /\ out.record.named =>
             \E r \in Required(past[out.record.since], out.record.component) :
                out.record.level >= r
=============================================================================
