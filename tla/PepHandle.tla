----------------------------- MODULE PepHandle -----------------------------
(***************************************************************************)
(* The PEP client handle (src/argus/pep.c) between two authorization       *)
(* calls: what pep_initialize, pep_addpip, pep_addobligationhandler,       *)
(* pep_setoption and pep_destroy do to the handle, to the strings it       *)
(* shares with libcurl and to the plugins it was given.                    *)
(*                                                                         *)
(* A handle is used by one thread, so an operation that calls nobody back  *)
(* is one step.  pep_destroy calls every plugin back and takes one step    *)
(* per callback.  An operation that returns an error before it changes     *)
(* anything (NULL argument, unknown option, init() of a plugin failing) is *)
(* a stuttering step and has no action.                                    *)
(***************************************************************************)
EXTENDS Integers, Sequences, FiniteSets

CONSTANTS
  PIPs,          \* descriptors of the PIPs the application owns
  OHs,           \* descriptors of the obligation handlers it owns
  StringOptions, \* the options that keep a copy of a string
  EndpointUrl,   \* the mandatory one among them
  Addresses,     \* addresses calloc can return for these copies
  NULL,
  CurlCopies,    \* does libcurl (> 7.17.0) keep a copy of string options?
  MaxPlugins,    \* bound: entries of each plugin list
  MaxOwed,       \* bound: init() calls of one plugin not matched by destroy()
  DefaultTimeout,
  MaxTimeout     \* bound: largest timeout the application asks for

ASSUME PluginsAssumption == PIPs \cap OHs = {}
ASSUME OptionsAssumption == EndpointUrl \in StringOptions
ASSUME AddressAssumption == NULL \notin Addresses
ASSUME CurlAssumption    == CurlCopies \in BOOLEAN
ASSUME BoundAssumption   == /\ MaxPlugins \in Nat /\ MaxOwed \in Nat
                            /\ MaxTimeout \in Nat /\ DefaultTimeout \in Nat \ {0}

Plugins   == PIPs \cup OHs
Resources == {"struct", "curl", "headers", "pips", "ohs"}
Flags     == {"PIPS", "OHS", "SSL"}

VARIABLES
  handle,   \* "none", "live", or "dying" while pep_destroy runs
  held,     \* allocations reachable from the handle
  leaked,   \* allocations nothing points to any more
  option,   \* pep->option_*: the string kept for each option
  curl,     \* the string libcurl was last given for each option
  flag,     \* pep->option_pips_enabled, option_ohs_enabled, option_ssl_validation
  timeout,  \* pep->option_timeout, which libcurl is given each time it is set
  pips,     \* pep->pips
  ohs,      \* pep->ohs
  owed,     \* init() calls that succeeded minus destroy() calls, per plugin
  lost      \* those of a plugin that never reached a list

lists      == <<pips, ohs>>
settings   == <<option, curl, flag, timeout>>
handleVars == <<handle, held, leaked, settings, lists, owed, lost>>

NoStrings == [o \in StringOptions |-> NULL]

HandleTypeOK ==
  /\ handle  \in {"none", "live", "dying"}
  /\ held    \subseteq Resources
  /\ leaked  \subseteq Resources
  /\ option  \in [StringOptions -> Addresses \cup {NULL}]
  /\ curl    \in [StringOptions -> Addresses \cup {NULL}]
  /\ flag    \in [Flags -> BOOLEAN]
  /\ timeout \in Nat \ {0}  \* libcurl takes 0 for no timeout at all
  /\ pips    \in Seq(PIPs)
  /\ ohs     \in Seq(OHs)
  /\ owed    \in [Plugins -> Int]
  /\ lost    \in [Plugins -> Nat]

HandleInit ==
  /\ handle = "none"
  /\ held = {}
  /\ leaked = {}
  /\ option = NoStrings
  /\ curl = NoStrings
  /\ flag = [f \in Flags |-> TRUE]
  /\ timeout = DefaultTimeout
  /\ pips = <<>>
  /\ ohs = <<>>
  /\ owed = [p \in Plugins |-> 0]
  /\ lost = [p \in Plugins |-> 0]

-----------------------------------------------------------------------------
(***************************************************************************)
(* pep_initialize.  curl_slist_append(), called twice, returns NULL when   *)
(* it cannot allocate: a header list built so far is then lost.            *)
(***************************************************************************)
HeadersBuilt == {"kept", "lost", "none"}

\* init_pep_defaults and init_curl_defaults
InitDefaults ==
  /\ option'  = NoStrings
  /\ curl'    = NoStrings
  /\ flag'    = [f \in Flags |-> TRUE]
  /\ timeout' = DefaultTimeout

InitializeSucceeds(headers) ==
  /\ handle = "none"
  /\ handle'  = "live"
  /\ held'    = IF headers = "kept" THEN Resources ELSE Resources \ {"headers"}
  /\ leaked'  = IF headers = "lost" THEN leaked \cup {"headers"} ELSE leaked
  /\ InitDefaults
  /\ pips'    = <<>>
  /\ ohs'     = <<>>
  /\ UNCHANGED <<owed, lost>>

\* Mutant of InitializeFails: the failure of the second list frees the handle
\* but not the first list.
InitializeFails_KeepsList ==
  /\ handle = "none"
  /\ leaked' = leaked \cup {"headers", "pips"}
  /\ UNCHANGED <<handle, held, settings, lists, owed, lost>>

\* llist_create() fails for the PIPs or for the OHs: the curl handle, the
\* first list and the struct are freed, the header list is not.  (A failure
\* before the header list exists changes nothing.)
InitializeFails ==
  /\ handle = "none"
  /\ leaked' = leaked \cup {"headers"}
  /\ UNCHANGED <<handle, held, settings, lists, owed, lost>>

-----------------------------------------------------------------------------
(***************************************************************************)
(* pep_addpip and pep_addobligationhandler: init() of the plugin is called *)
(* first, then the plugin is appended; llist_add() may fail to allocate    *)
(* the node, and then nobody remembers that init() was called.             *)
(***************************************************************************)
\* Mutant of AddPip: the plugin joins the list without having been initialised.
AddPip_NoInit(p) ==
  /\ handle = "live"
  /\ Len(pips) < MaxPlugins
  /\ pips' = Append(pips, p)
  /\ UNCHANGED <<handle, held, leaked, settings, ohs, owed, lost>>

AddPip(p) ==
  /\ handle = "live"
  /\ Len(pips) < MaxPlugins
  /\ owed[p] < MaxOwed
  /\ owed' = [owed EXCEPT ![p] = @ + 1]
  /\ \/ pips' = Append(pips, p) /\ UNCHANGED lost
     \/ lost' = [lost EXCEPT ![p] = @ + 1] /\ UNCHANGED pips
  /\ UNCHANGED <<handle, held, leaked, settings, ohs>>

AddObligationHandler(p) ==
  /\ handle = "live"
  /\ Len(ohs) < MaxPlugins
  /\ owed[p] < MaxOwed
  /\ owed' = [owed EXCEPT ![p] = @ + 1]
  /\ \/ ohs' = Append(ohs, p) /\ UNCHANGED lost
     \/ lost' = [lost EXCEPT ![p] = @ + 1] /\ UNCHANGED ohs
  /\ UNCHANGED <<handle, held, leaked, settings, pips>>

-----------------------------------------------------------------------------
(***************************************************************************)
(* pep_setoption.  A string option frees the copy it had, then allocates   *)
(* the new one at any address no other option uses, the one just freed     *)
(* included, and hands it to libcurl.  A libcurl that copies may run out   *)
(* of memory doing so; it then holds nothing, and the result of            *)
(* curl_easy_setopt() is not looked at.  When calloc() fails the option    *)
(* is NULL and libcurl is not told.                                        *)
(***************************************************************************)
\* where calloc can put the new copy: the old one has been freed
FreeFor(o) == Addresses \ {option[x] : x \in StringOptions \ {o}}

\* set_curl_endpoint_url and the six functions like it
HandToCurl(o, a) ==
  \/ curl' = [curl EXCEPT ![o] = a]
  \/ CurlCopies /\ curl' = [curl EXCEPT ![o] = NULL]

\* Mutant of SetString: libcurl is handed the string before it is replaced.
SetString_HandsOld(o) ==
  /\ handle = "live"
  /\ HandToCurl(o, option[o])
  /\ \E a \in FreeFor(o) : option' = [option EXCEPT ![o] = a]
  /\ UNCHANGED <<handle, held, leaked, flag, timeout, lists, owed, lost>>

SetString(o) ==
  /\ handle = "live"
  /\ \/ \E a \in FreeFor(o) :
          /\ option' = [option EXCEPT ![o] = a]
          /\ HandToCurl(o, a)
     \/ option' = [option EXCEPT ![o] = NULL] /\ UNCHANGED curl
  /\ UNCHANGED <<handle, held, leaked, flag, timeout, lists, owed, lost>>

\* PEP_OPTION_ENABLE_PIPS, _ENABLE_OBLIGATIONHANDLERS, _SSL_VALIDATION
SetFlag(f, value) ==
  /\ handle = "live"
  /\ flag' = [flag EXCEPT ![f] = (value = 1)]
  /\ UNCHANGED <<handle, held, leaked, option, curl, timeout, lists, owed, lost>>

\* Mutant of SetTimeout: the value is taken without looking at its sign.
SetTimeout_AnyValue(value) ==
  /\ handle = "live"
  /\ timeout' = value
  /\ UNCHANGED <<handle, held, leaked, option, curl, flag, lists, owed, lost>>

\* A value that is not positive leaves the timeout as it is.
SetTimeout(value) ==
  /\ handle = "live"
  /\ value > 0
  /\ timeout' = value
  /\ UNCHANGED <<handle, held, leaked, option, curl, flag, lists, owed, lost>>

-----------------------------------------------------------------------------
(***************************************************************************)
(* pep_destroy: the header list, libcurl's handle and the option strings   *)
(* go first; then each plugin list is emptied from the front, calling the  *)
(* plugin's destroy() as it goes, and deleted.                             *)
(***************************************************************************)
DestroyBegin ==
  /\ handle = "live"
  /\ handle' = "dying"
  /\ held'   = held \ {"headers", "curl"}
  /\ option' = NoStrings
  /\ curl'   = NoStrings
  /\ UNCHANGED <<leaked, flag, timeout, lists, owed, lost>>

DestroyPip ==
  /\ handle = "dying"
  /\ pips # <<>>
  /\ owed' = [owed EXCEPT ![Head(pips)] = @ - 1]
  /\ pips' = Tail(pips)
  /\ UNCHANGED <<handle, held, leaked, settings, ohs, lost>>

DestroyPipList ==
  /\ handle = "dying"
  /\ pips = <<>>
  /\ "pips" \in held
  /\ held' = held \ {"pips"}
  /\ UNCHANGED <<handle, leaked, settings, lists, owed, lost>>

\* Mutant of DestroyOh: handlers that are disabled are passed over.
DestroyOh_OnlyEnabled ==
  /\ handle = "dying"
  /\ "pips" \notin held
  /\ ohs # <<>> /\ flag["OHS"]
  /\ owed' = [owed EXCEPT ![Head(ohs)] = @ - 1]
  /\ ohs' = Tail(ohs)
  /\ UNCHANGED <<handle, held, leaked, settings, pips, lost>>

DestroyOh ==
  /\ handle = "dying"
  /\ "pips" \notin held
  /\ ohs # <<>>
  /\ owed' = [owed EXCEPT ![Head(ohs)] = @ - 1]
  /\ ohs' = Tail(ohs)
  /\ UNCHANGED <<handle, held, leaked, settings, pips, lost>>

DestroyEnd ==
  /\ handle = "dying"
  /\ "pips" \notin held
  /\ ohs = <<>>
  /\ handle' = "none"
  /\ held'   = held \ {"ohs", "struct"}
  /\ UNCHANGED <<leaked, settings, lists, owed, lost>>

DestroyStep == DestroyPip \/ DestroyPipList \/ DestroyOh \/ DestroyEnd

SetOption ==
  \/ \E o \in StringOptions : SetString(o)
  \/ \E f \in Flags, value \in 0 .. 1 : SetFlag(f, value)
  \/ \E value \in -1 .. MaxTimeout : SetTimeout(value)

HandleNext ==
  \/ \E headers \in HeadersBuilt : InitializeSucceeds(headers)
  \/ InitializeFails
  \/ \E p \in PIPs : AddPip(p)
  \/ \E p \in OHs : AddObligationHandler(p)
  \/ SetOption
  \/ DestroyBegin
  \/ DestroyStep

HandleSpec == /\ HandleInit /\ [][HandleNext]_handleVars
              /\ WF_handleVars(DestroyStep)

-----------------------------------------------------------------------------
Occurrences(p, list) == Cardinality({k \in DOMAIN list : list[k] = p})

(***************************************************************************)
(* destroy() is called once for each successful init() of a plugin that    *)
(* reached a list, whatever the order and the number of pep_addpip,        *)
(* pep_addobligationhandler and pep_destroy calls, and of handles created  *)
(* one after the other: what is owed is what is in the lists plus what     *)
(* llist_add() dropped.  (pip.h and oh.h: init when the plugin is added,   *)
(* destroy when the client is destroyed; pep.c pep_addpip, pep_destroy.)   *)
(***************************************************************************)
OwedIsListedOrLost ==
  \A p \in Plugins : owed[p] = Occurrences(p, pips) + Occurrences(p, ohs) + lost[p]

(***************************************************************************)
(* Once there is no handle, nothing reachable is left allocated, and       *)
(* across every way pep_initialize fails and pep_destroy runs the header   *)
(* list is all that can have leaked.                                       *)
(***************************************************************************)
OnlyHeadersLeak ==
  /\ handle = "none" => held = {} /\ option = NoStrings /\ pips = <<>> /\ ohs = <<>>
  /\ leaked \subseteq {"headers"}

(***************************************************************************)
(* Whatever option strings were set before, and however often: a string    *)
(* the handle still keeps is the one libcurl was given for that option,    *)
(* unless libcurl failed to copy it and has none.                          *)
(***************************************************************************)
CurlMirrorsOptions ==
  \A o \in StringOptions :
    option[o] # NULL =>
      curl[o] = option[o] \/ (CurlCopies /\ curl[o] = NULL)

(***************************************************************************)
(* pep_destroy returns: the loops that empty the two lists, whose only     *)
(* exit is llist_length() = 0, make progress with every callback, whatever *)
(* was added, enabled or disabled before.  destroy() itself must return.   *)
(***************************************************************************)
DestroyTerminates == handle = "dying" ~> handle = "none"
=============================================================================
