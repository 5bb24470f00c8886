------------------------------ MODULE AuditLog ------------------------------
(***************************************************************************)
(* pkg/logging/audit.go: the audit log, a file that is rotated.            *)
(*                                                                         *)
(* Log holds mu from the first line to the last: it validates the event,   *)
(* encodes it to the file, and when the file has grown to MaxFileSize      *)
(* closes it, moves FilePath.i to FilePath.i+1 one file at a time, moves   *)
(* FilePath to FilePath.1 and opens FilePath anew.  Any of these calls to  *)
(* the operating system may fail, and the process may end between two of   *)
(* them, or with half an event written.                                    *)
(*                                                                         *)
(* json.Encoder is external: after one failed write it refuses all others. *)
(***************************************************************************)
EXTENDS Naturals, Sequences, FiniteSets, Functions

CONSTANTS
    Loggers,       \* the goroutines that log
    MaxFiles,      \* config.MaxFiles
    MaxFileSize,   \* config.MaxFileSize, in events
    MaxEvents,     \* bound of the model: events written
    MaxFaults,     \* bound of the model: calls that fail, crashes
    Absent, Torn,  \* no such file; an event of which only a part was written
    Nobody

AuditAssumption ==
    /\ MaxFiles \in Nat \ {0} /\ MaxFileSize \in Nat \ {0}
    /\ MaxEvents \in Nat /\ MaxFaults \in Nat
    /\ Nobody \notin Loggers
    /\ Torn \notin Nat /\ Absent \notin Seq(Nat \cup {Torn})

VARIABLES
    files,      \* files[0] is FilePath, files[i] FilePath.i
    handle,     \* al.file: "open" on FilePath, "closed", or "nil" after Close
    encoder,    \* "ok", or "failed" once a write has failed
    mu,         \* the logger whose Log or Close runs
    at,         \* at[l]: where it is; the last answer when it has returned
    shift,      \* the index of rotate's loop
    written,    \* history: the events Encode wrote, in order
    faults,     \* how many calls have failed
    damage      \* history: what went wrong, in this process or with the files

vars  == <<files, handle, encoder, mu, at, shift, written, faults, damage>>

Files == 0..MaxFiles

Init ==
    /\ files = [i \in Files |-> IF i = 0 THEN <<>> ELSE Absent]
    /\ handle = "open"
    /\ encoder = "ok"
    /\ mu = Nobody
    /\ at = [l \in Loggers |-> "idle"]
    /\ shift = 0
    /\ written = <<>>
    /\ faults = 0
    /\ damage = {}

Fault == faults < MaxFaults /\ faults' = faults + 1

(* The locked part ends; deferred Unlock.                                  *)
Return(l, answer) == mu' = Nobody /\ at' = [at EXCEPT ![l] = answer]
Goto(l, label)    == at' = [at EXCEPT ![l] = label] /\ UNCHANGED mu

Running == handle # "down"

Lock(l) ==
    /\ Running
    /\ mu = Nobody
    /\ at[l] \in {"idle", "ok", "error"}
    /\ Len(written) < MaxEvents
    /\ mu' = l
    /\ at' = [at EXCEPT ![l] = "write"]
    /\ UNCHANGED <<files, handle, encoder, shift, written, faults, damage>>

(* A required field is missing.                                            *)
Invalid(l) ==
    /\ at[l] = "write"
    /\ Return(l, "error")
    /\ UNCHANGED <<files, handle, encoder, shift, written, faults, damage>>

Encode(l) ==
    /\ at[l] = "write"
    /\ handle = "open" /\ encoder = "ok"
    /\ files' = [files EXCEPT ![0] = Append(@, Len(written) + 1)]
    /\ written' = Append(written, Len(written) + 1)
    /\ Goto(l, "stat")
    /\ UNCHANGED <<handle, encoder, shift, faults, damage>>

(* The encoder failed before or the file is closed.                        *)
Refuse(l) ==
    /\ at[l] = "write"
    /\ handle # "open" \/ encoder = "failed"
    /\ encoder' = "failed"
    /\ Return(l, "error")
    /\ UNCHANGED <<files, handle, shift, written, faults, damage>>

(* A full disk: nothing or a part of the event is in the file.             *)
WriteFails(l) ==
    /\ at[l] = "write"
    /\ handle = "open" /\ encoder = "ok"
    /\ Fault
    /\ \E left \in {<<>>, <<Torn>>} : files' = [files EXCEPT ![0] = @ \o left]
    /\ encoder' = "failed"
    /\ damage' = damage \cup {"write"}
    /\ Return(l, "error")
    /\ UNCHANGED <<handle, shift, written>>

(* checkRotation: the file is small enough, or Stat failed.                *)
NoRotation(l) ==
    /\ at[l] = "stat"
    /\ \/ Len(files[0]) < MaxFileSize /\ UNCHANGED faults
       \/ Fault
    /\ Return(l, "ok")
    /\ UNCHANGED <<files, handle, encoder, shift, written, damage>>

(* rotate closes the file; with an error it returns, the file closed.      *)
CloseFile(l) ==
    /\ at[l] = "stat"
    /\ Len(files[0]) >= MaxFileSize
    /\ handle' = "closed"
    /\ \/ Goto(l, "shift") /\ shift' = MaxFiles - 1 /\ UNCHANGED <<faults, damage>>
       \/ Fault /\ Return(l, "ok") /\ damage' = damage \cup {"rotation"} /\ UNCHANGED shift
    /\ UNCHANGED <<files, encoder, written>>

Moved(i, j) == [files EXCEPT ![j] = files[i], ![i] = Absent]

(* Wrong: the loop runs from the newest file to the oldest.                *)
ShiftUpwards(l) ==
    /\ at[l] = "shift"
    /\ shift > 0
    /\ LET i == MaxFiles - shift
       IN  files' = CASE files[i] = Absent -> files
                      [] i = MaxFiles - 1  -> [files EXCEPT ![i] = Absent]
                      [] OTHER             -> Moved(i, i + 1)
    /\ shift' = shift - 1
    /\ UNCHANGED <<handle, encoder, mu, at, written, faults, damage>>

(* One turn of the loop: the oldest file is removed, any other moves up;   *)
(* an error of Stat, Remove or Rename is not looked at.                    *)
Shift(l) ==
    /\ at[l] = "shift"
    /\ shift > 0
    /\ \/ /\ files' = CASE files[shift] = Absent  -> files
                        [] shift = MaxFiles - 1   -> [files EXCEPT ![shift] = Absent]
                        [] OTHER                  -> Moved(shift, shift + 1)
          /\ UNCHANGED <<faults, damage>>
       \/ /\ files[shift] # Absent
          /\ Fault /\ damage' = damage \cup {"rename"} /\ UNCHANGED files
    /\ shift' = shift - 1
    /\ UNCHANGED <<handle, encoder, mu, at, written>>

(* FilePath becomes FilePath.1; with an error the logger stays closed.     *)
MoveCurrent(l) ==
    /\ at[l] = "shift"
    /\ shift = 0
    /\ \/ files' = Moved(0, 1) /\ Goto(l, "create") /\ UNCHANGED <<faults, damage>>
       \/ /\ Fault /\ Return(l, "ok") /\ damage' = damage \cup {"rotation", "gap"}
          /\ UNCHANGED files
    /\ UNCHANGED <<handle, encoder, shift, written>>

Create(l) ==
    /\ at[l] = "create"
    /\ Return(l, "ok")
    /\ \/ /\ files' = [files EXCEPT ![0] = <<>>]
          /\ handle' = "open" /\ encoder' = "ok"
          /\ UNCHANGED <<faults, damage>>
       \/ /\ Fault /\ damage' = damage \cup {"rotation"}
          /\ UNCHANGED <<files, handle, encoder>>
    /\ UNCHANGED <<shift, written>>

(* The file is set to nil, also when its Close failed; the encoder still   *)
(* has the closed file.                                                    *)
Close ==
    /\ Running
    /\ mu = Nobody
    /\ handle # "nil"
    /\ handle' = "nil"
    /\ UNCHANGED <<files, encoder, mu, at, shift, written, faults, damage>>

(* The process ends: what was written stays, of an event in the middle of  *)
(* its write perhaps a part.                                               *)
Crash ==
    /\ Running
    /\ Fault
    /\ \E left \in IF \E l \in Loggers : at[l] = "write" /\ handle = "open" /\ encoder = "ok"
                   THEN {<<>>, <<Torn>>} ELSE {<<>>} :
          files' = IF files[0] = Absent THEN files ELSE [files EXCEPT ![0] = @ \o left]
    /\ handle' = "down"
    /\ mu' = Nobody
    /\ at' = [l \in Loggers |-> "idle"]
    /\ shift' = 0
    /\ damage' = IF \E l \in Loggers : at[l] \in {"shift", "create"}
                 THEN damage \cup {"gap"} ELSE damage
    /\ UNCHANGED <<encoder, written>>

(* NewAuditLogger: FilePath is opened, or created when it is not there.    *)
Open ==
    /\ handle = "down"
    /\ files' = IF files[0] = Absent THEN [files EXCEPT ![0] = <<>>] ELSE files
    /\ handle' = "open"
    /\ encoder' = "ok"
    /\ damage' = damage \ {"rotation", "write"}
    /\ UNCHANGED <<mu, at, shift, written, faults>>

LogStep(l) ==
    \/ Invalid(l) \/ Encode(l) \/ Refuse(l) \/ WriteFails(l)
    \/ NoRotation(l) \/ CloseFile(l) \/ Shift(l) \/ MoveCurrent(l) \/ Create(l)

Next == (\E l \in Loggers : Lock(l) \/ LogStep(l)) \/ Close \/ Crash \/ Open

Spec == Init /\ [][Next]_vars

-----------------------------------------------------------------------------
TypeOK ==
    /\ files \in [Files -> Seq(1..MaxEvents \cup {Torn}) \cup {Absent}]
    /\ handle \in {"open", "closed", "nil", "down"}
    /\ encoder \in {"ok", "failed"}
    /\ mu \in Loggers \cup {Nobody}
    /\ at \in [Loggers -> {"idle", "write", "stat", "shift", "create", "ok", "error"}]
    /\ shift \in 0..MaxFiles
    /\ damage \subseteq {"rename", "rotation", "write", "gap"}

(* The events a file holds whole, and all that are kept.                   *)
Events(i) == IF files[i] = Absent THEN {} ELSE Range(files[i]) \ {Torn}
Kept      == UNION {Events(i) : i \in Files}

Full == {i \in Files : files[i] # Absent /\ Len(files[i]) >= MaxFileSize}

(* What is at p in file i was written before what is at q in file j.       *)
Older(i, p, j, q) == i > j \/ (i = j /\ p < q)

(* Rotation forgets only the oldest events: however calls fail and the     *)
(* process ends, the files hold what was written in the order of their     *)
(* numbers; unless a rename failed nothing is missing but a beginning, and *)
(* then every file but the current one is full (one of them, when a        *)
(* rotation stopped half way and the next begins with its gap).            *)
RotationForgetsTheOldest ==
    /\ \A i, j \in {f \in Files : files[f] # Absent} :
          \A p \in DOMAIN files[i], q \in DOMAIN files[j] :
             Older(i, p, j, q) /\ Torn \notin {files[i][p], files[j][q]} => files[i][p] < files[j][q]
    /\ "rename" \notin damage =>
          /\ \A e \in Kept : e..Len(written) \subseteq Kept
          /\ \/ Kept = 1..Len(written)
             \/ Cardinality(Full) >= (IF "gap" \in damage THEN 1 ELSE MaxFiles - 1)
=============================================================================
