--------------------------- MODULE LoggerFactory ---------------------------
(***************************************************************************)
(* pkg/logging/factory.go: the global factory and its cache of loggers,    *)
(* and the signal handler of main.go that switches debug logging on and    *)
(* off, component by component.                                            *)
(*                                                                         *)
(* A goroutine that asks for a logger holds the read lock of the global    *)
(* factory from beginning to end: Initialize and Shutdown wait for it.     *)
(* Within, it looks into the cache under a read lock, gives that up, and   *)
(* looks again under the write lock before it makes a logger.              *)
(***************************************************************************)
EXTENDS Naturals, FiniteSets

CONSTANTS
    Getters,     \* goroutines that ask for loggers
    Components,
    Debug, Info, \* levels
    Unset,       \* no level for the component, or no logger in the cache
    MaxFactories, MaxUpdates, \* bounds of the model
    NoFactory

FactoryAssumption ==
    /\ MaxFactories \in Nat /\ MaxUpdates \in Nat /\ NoFactory \notin Nat
    /\ Unset \notin {Debug, Info}

VARIABLES
    factory,    \* globalFactory: a number, or NoFactory
    made,       \* how many factories there have been
    open,       \* the factories that are not closed
    level,      \* config.Level
    levels,     \* config.ComponentLevels of the global factory
    cache,      \* its loggers: the level each was made with
    at,         \* at[g]: the component g asks for, once it missed the cache
    handler,    \* the signal handler: the components still to be updated
    debug,      \* debugEnabled
    updates,    \* how many changes of a level there have been
    failed      \* history: the last Initialize returned an error

vars == <<factory, made, open, level, levels, cache, at, handler, debug, updates, failed>>

Levels   == {Debug, Info}
NoLevels == [c \in Components |-> Unset]

Init ==
    /\ factory = NoFactory
    /\ made = 0
    /\ open = {}
    /\ level \in Levels
    /\ levels = NoLevels
    /\ cache = NoLevels
    /\ at = [g \in Getters |-> Unset]
    /\ handler = {}
    /\ debug = FALSE
    /\ updates = 0
    /\ failed = FALSE

(* Who holds the read lock of globalMu keeps its writers out.              *)
NoReader == \A g \in Getters : at[g] = Unset

GetLevelForComponent(c) == IF levels[c] # Unset THEN levels[c] ELSE level

(* GetGlobalLogger, the first look: the cache has no logger for c.  (One   *)
(* that it has, or slog.Default without a factory, is returned as it is.)  *)
Look(g) ==
    /\ at[g] = Unset
    /\ factory # NoFactory
    /\ \E c \in Components : cache[c] = Unset /\ at' = [at EXCEPT ![g] = c]
    /\ UNCHANGED <<factory, made, open, level, levels, cache, handler, debug, updates, failed>>

(* The second look, and the new logger if it finds none either.            *)
Make(g) ==
    /\ at[g] # Unset
    /\ cache' = [cache EXCEPT ![at[g]] = IF @ # Unset THEN @ ELSE GetLevelForComponent(at[g])]
    /\ at' = [at EXCEPT ![g] = Unset]
    /\ UNCHANGED <<factory, made, open, level, levels, handler, debug, updates, failed>>

(* Wrong: the logger in the cache stays.                                   *)
UpdateLevelOnly(c, l) ==
    /\ factory # NoFactory /\ updates < MaxUpdates
    /\ levels' = [levels EXCEPT ![c] = l]
    /\ updates' = updates + 1
    /\ UNCHANGED cache

(* UpdateGlobalLevel; without a factory it does nothing.                   *)
UpdateLevel(c, l) ==
    /\ factory # NoFactory /\ updates < MaxUpdates
    /\ levels' = [levels EXCEPT ![c] = l]
    /\ cache' = [cache EXCEPT ![c] = Unset]
    /\ updates' = updates + 1

(* The admin server's and the program's own calls.                         *)
Update ==
    /\ \E c \in Components, l \in Levels : UpdateLevel(c, l)
    /\ UNCHANGED <<factory, made, open, level, at, handler, debug, failed>>

(* SIGUSR1: one call after the other.                                      *)
Signal ==
    /\ handler = {}
    /\ handler' = Components
    /\ debug' = ~debug
    /\ UNCHANGED <<factory, made, open, level, levels, cache, at, updates, failed>>

Switch ==
    /\ \E c \in handler :
          /\ handler' = handler \ {c}
          /\ \/ UpdateLevel(c, IF debug THEN Debug ELSE Info)
             \/ factory = NoFactory /\ UNCHANGED <<levels, cache, updates>>
    /\ UNCHANGED <<factory, made, open, level, at, debug, failed>>

(* The factories left once the global one has been closed, which it is     *)
(* also when something of it could not be closed properly.                 *)
Close == open \ {factory}

(* From another configuration, or from the one the old factory changed.    *)
NewFactory ==
    /\ made' = made + 1
    /\ cache' = NoLevels
    /\ \/ levels' = NoLevels /\ level' \in Levels
       \/ UNCHANGED <<levels, level>>

(* Initialize: the old factory is closed, then the new one is made.  After *)
(* an error of either the old one stays in place, closed.                  *)
Initialize ==
    /\ NoReader
    /\ made < MaxFactories
    /\ \/ /\ NewFactory
          /\ factory' = made + 1
          /\ open' = Close \cup {made + 1}
          /\ failed' = FALSE
       \/ /\ open' = Close
          /\ failed' = TRUE
          /\ UNCHANGED <<made, factory, cache, levels, level>>
    /\ UNCHANGED <<at, handler, debug, updates>>

(* Shutdown; an error of Close is returned after the factory is gone.      *)
Shutdown ==
    /\ NoReader
    /\ factory # NoFactory
    /\ open' = Close
    /\ factory' = NoFactory
    /\ failed' = FALSE
    /\ UNCHANGED <<made, level, levels, cache, at, handler, debug, updates>>

Next ==
    \/ \E g \in Getters : Look(g) \/ Make(g)
    \/ Update \/ Signal \/ Switch \/ Initialize \/ Shutdown

Spec == Init /\ [][Next]_vars

-----------------------------------------------------------------------------
TypeOK ==
    /\ factory \in 1..made \cup {NoFactory}
    /\ made \in 0..MaxFactories
    /\ open \subseteq 1..made
    /\ level \in Levels
    /\ levels \in [Components -> Levels \cup {Unset}]
    /\ cache \in [Components -> Levels \cup {Unset}]
    /\ at \in [Getters -> Components \cup {Unset}]
    /\ handler \subseteq Components
    /\ debug \in BOOLEAN /\ failed \in BOOLEAN
    /\ updates \in 0..MaxUpdates

(* Whoever asks for a logger gets one of the level the component has at    *)
(* that moment, however the looks into the cache, the changes of levels    *)
(* and new configurations interleave; the factory stays for as long as     *)
(* somebody is making a logger; and at most one factory is open: the       *)
(* global one, unless the last Initialize failed.  (A logger somebody      *)
(* already has keeps its level and its factory.)                           *)
LoggersAreCurrent ==
    /\ factory # NoFactory =>
          \A c \in Components : cache[c] # Unset => cache[c] = GetLevelForComponent(c)
    /\ factory = NoFactory => NoReader
    /\ open = IF factory = NoFactory \/ failed THEN {} ELSE {factory}
=============================================================================
