----------------------------- MODULE PepThreads -----------------------------
(***************************************************************************)
(* What threads share that each use a PEP handle of their own: the client  *)
(* counter and the version string of pep.c, level and handler of log.c.    *)
(* None of it is locked or atomic, so that a statement that reads and      *)
(* writes is two steps, and a value that was checked may be another when   *)
(* it is used. "Version 2.X of the PEP client C API is multi-thread safe"  *)
(* (pep.h), so that nothing here keeps two threads apart.                  *)
(***************************************************************************)
EXTENDS Integers

CONSTANTS
  Threads,
  Handlers,    \* the log handlers of the application
  DEFAULT,     \* default_log_handler
  UNSET,       \* a log handler that is NULL, the id of a thread without handle
  MaxClients   \* bound: handles ever initialized

NONE  == -1  \* the levels of log.h that are told apart
ERROR == 0
DEBUG == 3
Levels == NONE .. DEBUG
\* what is passed as PEP_OPTION_LOG_LEVEL, the right and the wrong
AskedLevels == {NONE, ERROR, DEBUG, DEBUG + 1}

VARIABLES
  n_pep_clients,
  log_level,
  log_handler,
  version,  \* the content of VERSION_BUFFER
  ready,    \* VERSION_BUFFER_initialized
  place,    \* where each thread is
  id,       \* the id of its handle, UNSET without one
  seen,     \* the counter it has read
  checked,  \* the log handler it has checked
  msg       \* the level of the message it logs

threadVars == <<id, seen, checked, msg>>
logVars == <<log_level, log_handler>>
versionVars == <<version, ready>>
sharedVars == <<n_pep_clients, logVars, versionVars, place, threadVars>>

ThreadsInit ==
  /\ n_pep_clients = 0
  /\ log_level = NONE
  /\ log_handler = DEFAULT
  /\ version = "empty"
  /\ ready = FALSE
  /\ place = [t \in Threads |-> "idle"]
  /\ id = [t \in Threads |-> UNSET]
  /\ seen = [t \in Threads |-> 0]
  /\ checked = [t \in Threads |-> UNSET]
  /\ msg = [t \in Threads |-> ERROR]

Move(t, from, to) == place[t] = from /\ place' = [place EXCEPT ![t] = to]

-----------------------------------------------------------------------------
(* pep->id= n_pep_clients++, in two steps                                  *)

ReadCounter(t) ==
  /\ Move(t, "idle", "store")
  /\ id[t] = UNSET /\ n_pep_clients < MaxClients
  /\ seen' = [seen EXCEPT ![t] = n_pep_clients]
  /\ UNCHANGED <<n_pep_clients, logVars, versionVars, id, checked, msg>>

StoreCounter(t) ==
  /\ Move(t, "store", "idle")
  /\ n_pep_clients' = seen[t] + 1
  /\ id' = [id EXCEPT ![t] = seen[t]]
  /\ UNCHANGED <<logVars, versionVars, seen, checked, msg>>

\* pep_destroy: an id is not used again
Destroy(t) ==
  /\ place[t] = "idle" /\ id[t] # UNSET
  /\ id' = [id EXCEPT ![t] = UNSET]
  /\ UNCHANGED <<n_pep_clients, logVars, versionVars, place, seen, checked, msg>>

-----------------------------------------------------------------------------
(* pep_version, and its caller that reads the string                       *)

CheckVersion(t) ==
  /\ Move(t, "idle", IF ready THEN "read" ELSE "print")
  /\ UNCHANGED <<n_pep_clients, logVars, versionVars, threadVars>>

\* snprintf into the buffer that other threads may already read
BeginPrint(t) ==
  /\ Move(t, "print", "printing")
  /\ version' = "partly"
  /\ UNCHANGED <<n_pep_clients, logVars, ready, threadVars>>

EndPrint(t) ==
  /\ Move(t, "printing", "read")
  /\ version' = "whole"
  /\ ready' = TRUE
  /\ UNCHANGED <<n_pep_clients, logVars, threadVars>>

ReadVersion(t) ==
  /\ Move(t, "read", "idle")
  /\ UNCHANGED <<n_pep_clients, logVars, versionVars, threadVars>>

-----------------------------------------------------------------------------
(* The log options of pep_setoption: each ends with a log_debug().         *)

Logs(t, l) == Move(t, "idle", "level") /\ msg' = [msg EXCEPT ![t] = l]

SetLevel(t, l) ==
  /\ Logs(t, DEBUG) /\ id[t] # UNSET
  /\ log_level' = IF l \in Levels THEN l ELSE log_level
  /\ UNCHANGED <<n_pep_clients, log_handler, versionVars, id, seen, checked>>

SetHandler(t, h) ==
  /\ Logs(t, DEBUG) /\ id[t] # UNSET
  /\ log_handler' = h
  /\ UNCHANGED <<n_pep_clients, log_level, versionVars, id, seen, checked>>

-----------------------------------------------------------------------------
(* log_error(), log_debug() and the like, called from everywhere           *)

Log(t, l) ==
  /\ Logs(t, l)
  /\ UNCHANGED <<n_pep_clients, logVars, versionVars, id, seen, checked>>

LogLevel(t) ==
  /\ Move(t, "level", IF log_level >= msg[t] THEN "handler" ELSE "idle")
  /\ UNCHANGED <<n_pep_clients, logVars, versionVars, threadVars>>

LogHandler(t) ==
  /\ Move(t, "handler", IF log_handler = UNSET THEN "idle" ELSE "call")
  /\ checked' = [checked EXCEPT ![t] = log_handler]
  /\ UNCHANGED <<n_pep_clients, logVars, versionVars, id, seen, msg>>

\* The compiler may keep the pointer that was checked or load it again.
LogCall(t) ==
  /\ \E h \in {checked[t], log_handler} :
       Move(t, "call", IF h = UNSET THEN "crashed" ELSE "idle")
  /\ UNCHANGED <<n_pep_clients, logVars, versionVars, threadVars>>

Step(t) ==
  \/ ReadCounter(t) \/ StoreCounter(t) \/ Destroy(t)
  \/ CheckVersion(t) \/ BeginPrint(t) \/ EndPrint(t) \/ ReadVersion(t)
  \/ \E l \in AskedLevels : SetLevel(t, l)
  \/ \E h \in Handlers \cup {UNSET} : SetHandler(t, h)
  \/ \E l \in {ERROR, DEBUG} : Log(t, l)
  \/ LogLevel(t) \/ LogHandler(t) \/ LogCall(t)

ThreadsNext ==
  /\ \A t \in Threads : place[t] # "crashed"
  /\ \E t \in Threads : Step(t)

ThreadsSpec == ThreadsInit /\ [][ThreadsNext]_sharedVars

-----------------------------------------------------------------------------
(***************************************************************************)
(* Handles that exist together have different ids, those that log messages *)
(* name ("PEP#%d").                                                        *)
(***************************************************************************)
UniqueIds ==
  \A t, u \in Threads : t # u /\ id[t] # UNSET /\ id[u] # UNSET => id[t] # id[u]

(***************************************************************************)
(* No thread calls a log handler that another thread has just unset.       *)
(***************************************************************************)
NeverCallsNull == \A t \in Threads : place[t] # "crashed"

(***************************************************************************)
(* Whoever has got the version string from pep_version() reads all of it.  *)
(***************************************************************************)
VersionIsWhole == \A t \in Threads : place[t] = "read" => version = "whole"
=============================================================================
