--------------------------- MODULE SessionManager ---------------------------
(***************************************************************************)
(* internal/transport/session.go: the sessions of the HTTP and the SSE     *)
(* transport.  Every use of a session renews it; a goroutine looks every   *)
(* five minutes for the sessions not used for half an hour, and removes    *)
(* them afterwards, one by one, without looking again.                     *)
(*                                                                         *)
(* Time is abstracted to who is stale: not used for the timeout.  The      *)
(* actions below are the conjuncts SseTransport builds its own from.       *)
(***************************************************************************)
EXTENDS FiniteSets

CONSTANT SessionIds     \* what generateSessionID may return

VARIABLES
    issued,     \* the identifiers CreateSession has returned
    sessions,   \* SessionManager.sessions
    stale,      \* the sessions with an old LastActivity
    expired,    \* expiredSessions: found stale by the scan, still to be removed
    ticking     \* cleanupTicker runs

vars == <<issued, sessions, stale, expired, ticking>>

Init ==
    /\ issued = {}
    /\ sessions = {}
    /\ stale = {}
    /\ expired = {}
    /\ ticking = TRUE

(* Sixteen random bytes: an identifier nobody has yet.  One fresh          *)
(* identifier is as good as another, so the model need not choose.         *)
CreateSession(s) ==
    /\ issued # SessionIds
    /\ s = CHOOSE fresh \in SessionIds : fresh \notin issued
    /\ issued' = issued \cup {s}
    /\ sessions' = sessions \cup {s}
    /\ UNCHANGED <<stale, expired, ticking>>

(* GetSession finds the session and renews it.                             *)
GetSession(s) ==
    /\ s \in sessions
    /\ stale' = stale \ {s}
    /\ UNCHANGED <<issued, sessions, expired, ticking>>

(* Half an hour passes without a GetSession.                               *)
GoStale(s) ==
    /\ s \in sessions
    /\ stale' = stale \cup {s}
    /\ UNCHANGED <<issued, sessions, expired, ticking>>

Scan ==
    /\ ticking
    /\ expired = {}
    /\ expired' = stale
    /\ UNCHANGED <<issued, sessions, stale, ticking>>

RemoveSession(s) ==
    /\ s \in expired
    /\ expired' = expired \ {s}
    /\ sessions' = sessions \ {s}
    /\ stale' = stale \ {s}
    /\ UNCHANGED <<issued, ticking>>

Stop ==
    /\ ticking' = FALSE
    /\ UNCHANGED <<issued, sessions, stale, expired>>

Cleanup == Scan \/ \E s \in SessionIds : GoStale(s) \/ RemoveSession(s)

TypeOK ==
    /\ issued \subseteq SessionIds
    /\ sessions \subseteq issued
    /\ stale \subseteq sessions
    /\ expired \subseteq sessions
    /\ ticking \in BOOLEAN
=============================================================================
