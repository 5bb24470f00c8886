---------------------------- MODULE Configuration ----------------------------
(***************************************************************************)
(* From the configuration file to a running server: pkg/config Load, then  *)
(* convertLegacyLogConfig and applyEnvOverrides of cmd/mcp-server/main.go, *)
(* then logging.Initialize, which validates what has become of the file a  *)
(* second time, by other rules, and the factories of backend and transport.*)
(*                                                                         *)
(* Of the file there are the settings that are changed on the way or       *)
(* checked twice; of those that are checked once, and for themselves, at   *)
(* most one is wrong, the file's flaw.  "http" stands for "sse" too.       *)
(***************************************************************************)
EXTENDS Integers

CONSTANT None   \* the section is not there; nothing is wrong

VARIABLES
    stage,      \* how far main has come, or how it ended
    settings,   \* the Settings of the file, as Load returns them
    env,        \* the environment's MCP_LOG_OUTPUT and MCP_LOG_FILE_PATH
    log         \* the logging.Config

vars == <<stage, settings, env, log>>

LoggingFlaws == {"format", "bufferSize", "componentLevels", "sampling"}
Flaws == {"logLevel", "storageType", "httpPort", "storagePath", "port"} \cup LoggingFlaws

(* least is the smallest of timeout, batchSize and queueSize.              *)
OTLPSections ==
    {None} \cup [enabled : BOOLEAN, endpoint : {"", "url", "no url"}, least : {-1, 0, 1}]

LoggingSections ==
    {None} \cup [output : {"", "STDOUT", "stderr", "File", "other"}, filePath : {"", "path"},
                 otlp : OTLPSections]

Files ==
    [transport : {"", "STDIO", "http", "other"}, storage : {"", "SQLITE"},
     flaw : Flaws \cup {None}, logging : LoggingSections]

Environments == [output : {"", "stdout", "stderr", "file", "other"}, filePath : {"", "path"}]

ToLower(s) ==
    CASE s = "STDIO" -> "stdio" [] s = "SQLITE" -> "sqlite" [] s = "STDOUT" -> "stdout"
      [] s = "File" -> "file" [] OTHER -> s

Init ==
    /\ stage = "reading"
    /\ settings = None
    /\ env = None
    /\ log = None

-----------------------------------------------------------------------------
(* Where the flaw is looked at: a transport's port only for HTTP, a path   *)
(* of the storage only for SQLite, and so on.                              *)
Flawed(f) ==
    CASE f.flaw \in LoggingFlaws -> f.logging # None
      [] f.flaw = "port"         -> ToLower(f.transport) = "http"
      [] f.flaw = "storagePath"  -> ToLower(f.storage) = "sqlite"
      [] OTHER                   -> f.flaw # None

ValidLogging(l) ==
    /\ ToLower(l.output) \in {"", "stdout", "stderr", "file"}
    /\ ToLower(l.output) = "file" => l.filePath # ""
    /\ l.otlp # None =>
          /\ l.otlp.enabled => l.otlp.endpoint # ""
          /\ l.otlp.least >= 0

(* Settings.Validate.                                                      *)
ValidSettings(f) ==
    /\ ToLower(f.transport) \in {"", "stdio", "http"}
    /\ ~Flawed(f)
    /\ f.logging = None \/ ValidLogging(f.logging)

(* Wrong: the names stay as they are spelled.                              *)
NormalizedDefaultsOnly(f) == [f EXCEPT !.transport = IF @ = "" THEN "stdio" ELSE @]

(* What Validate makes of them.                                            *)
Normalized(f) ==
    [f EXCEPT !.transport = IF @ = "" THEN "stdio" ELSE ToLower(@),
              !.storage = ToLower(@),
              !.logging = IF f.logging = None THEN None
                          ELSE [f.logging EXCEPT !.output = ToLower(f.logging.output)]]

Load ==
    /\ stage = "reading"
    /\ \E f \in Files :
          IF ValidSettings(f)
          THEN stage' = "loaded" /\ settings' = Normalized(f)
          ELSE stage' = "refused" /\ UNCHANGED settings
    /\ UNCHANGED <<env, log>>

(* convertLegacyLogConfig: under stdio what would go to stdout goes to     *)
(* stderr; a filePath is taken over only with the output it is for.        *)
Converted(s) ==
    LET l      == s.logging
        out    == IF l = None THEN "" ELSE l.output
    IN  [output   |-> CASE out \in {"stderr", "file"}   -> out
                        [] s.transport = "stdio"        -> "stderr"
                        [] OTHER                        -> "stdout",
         filePath |-> IF out = "file" THEN l.filePath ELSE "",
         otlp     |-> IF l # None /\ l.otlp # None THEN l.otlp
                      ELSE [enabled |-> FALSE, endpoint |-> "", least |-> 1]]

(* applyEnvOverrides.                                                      *)
Overridden(c, e) ==
    CASE e.output \in {"stdout", "stderr"} -> [c EXCEPT !.output = e.output]
      [] e.output = "file" ->
            [c EXCEPT !.output = "file", !.filePath = IF e.filePath = "" THEN @ ELSE e.filePath]
      [] OTHER -> c

Convert ==
    /\ stage = "loaded"
    /\ \E e \in Environments : env' = e /\ log' = Overridden(Converted(settings), e)
    /\ stage' = "converted"
    /\ UNCHANGED settings

(* OTLPConfig.Validate.                                                    *)
ValidOTLP(o) == o.enabled => o.endpoint = "url" /\ o.least > 0

(* Config.Validate.                                                        *)
ValidConfig(c) == (c.output = "file" => c.filePath # "") /\ ValidOTLP(c.otlp)

(* Initialize; the log file may turn out not to be writable.               *)
Initialize ==
    /\ stage = "converted"
    /\ \/ ~ValidConfig(log) /\ stage' = "invalid"
       \/ ValidConfig(log) /\ stage' = "logging"
       \/ ValidConfig(log) /\ log.output = "file" /\ stage' = "unwritable"
    /\ UNCHANGED <<settings, env, log>>

(* NewBackend and CreateTransport know their names in lower case only.     *)
Build ==
    /\ stage = "logging"
    /\ stage' = IF settings.storage \in {"", "memory", "sqlite"} /\ settings.transport \in {"stdio", "http"}
                THEN "serving" ELSE "unsupported"
    /\ UNCHANGED <<settings, env, log>>

Next == Load \/ Convert \/ Initialize \/ Build

Spec == Init /\ [][Next]_vars

-----------------------------------------------------------------------------
TypeOK ==
    /\ stage \in {"reading", "refused", "loaded", "converted", "invalid", "unwritable",
                  "logging", "unsupported", "serving"}
    /\ settings = None \/ settings.transport \in {"stdio", "http"}
    /\ env \in Environments \cup {None}
    /\ log = None \/ log.output \in {"stdout", "stderr", "file"}

(* A file that Load accepts takes the server all the way, but in the two   *)
(* cases in which the second validation knows better than the first: an    *)
(* OTLP section that is enabled and leaves a number at zero (or has an     *)
(* endpoint that is no URL), and an environment that wants the log in a    *)
(* file and nobody names one.                                              *)
AcceptedStarts ==
    /\ stage # "unsupported"
    /\ stage = "invalid" =>
          \/ log.otlp.enabled /\ (log.otlp.least = 0 \/ log.otlp.endpoint = "no url")
          \/ env = [output |-> "file", filePath |-> ""]

(* Under the stdio transport the log keeps off the answers' stdout         *)
(* whatever the file says; what the environment says comes after that      *)
(* rule, and breaks it.                                                    *)
LogKeepsOffAnswers ==
    stage \in {"logging", "serving"} /\ settings.transport = "stdio" =>
        (log.output = "stdout" <=> env.output = "stdout")
=============================================================================
