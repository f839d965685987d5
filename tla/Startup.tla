------------------------------ MODULE Startup ------------------------------
(***************************************************************************)
(* How main() and DoMain() come from the text of the configuration to a    *)
(* daemon that runs: MainConf.ParseFile, the items daemon mode requires,   *)
(* the libraries, the webhook, and the port of the HTTP thread.  HasKV and *)
(* GetKV use a section without testing that it is there, so a missing      *)
(* section is a null pointer that is dereferenced.  (What becomes of the   *)
(* pid file in between is in module PidFile.)                              *)
(***************************************************************************)
EXTENDS ConfigCodec, Libraries, FiniteSets

CONSTANTS
  Modes,       \* "daemon" (one argument), "foreground" (several)
  LibNames,    \* names by which libraries are unloaded and reloaded
  MaxCalls     \* bound: calls that unload or reload libraries

VARIABLES
  mode,
  pc,          \* where main is
  libs,        \* the pairs of root\libs that are still to be loaded
  webhook,     \* BotEngineImpl::WebhookUrl
  calls        \* unload and reload calls so far

bootVars == <<mode, pc, libs, webhook, calls>>
allVars == <<codecVars, libVars, bootVars>>

SecRoot == <<"root">>
SecLog == <<"root", "\\", "log">>
SecLibs == <<"root", "\\", "libs">>
SecHttp == <<"root", "\\", "http">>

ASSUME StartupAssumption == {"root", "\\", "libs"} \subseteq Symbols

Init ==
  /\ CodecInit
  /\ LibInit
  /\ mode \in Modes
  /\ pc = "parse"
  /\ libs = <<>>
  /\ webhook = <<>>
  /\ calls = 0

(* main reads the tree; the parser and the libraries stand still. *)
Goto(to) ==
  /\ pc' = to
  /\ UNCHANGED <<codecVars, mode, calls>>

(* An item is looked up: without its section the process is killed. *)
Lookup(section, key, found, missing) ==
  Goto(IF ~HasSection(nodes, section) THEN "crashed"
       ELSE IF HasKV(nodes, section, key) THEN found ELSE missing)

Parsed ==
  /\ pc = "parse"
  /\ status # "parsing"
  /\ Goto(IF status = "wild" THEN "crashed"
          ELSE IF status # "SUCCESS" THEN "exited"
          ELSE IF mode = "daemon" THEN "name" ELSE "load")
  /\ UNCHANGED <<libVars, libs, webhook>>

CheckBotName ==
  /\ pc = "name"
  /\ Lookup(SecRoot, <<"bot_name">>, "log", "exited")
  /\ UNCHANGED <<libVars, libs, webhook>>

(* Mutant: the item mode is not looked up. *)
CheckLogStderr ==
  /\ pc = "log"
  /\ Lookup(SecLog, <<"stderr">>, "load", "exited")
  /\ UNCHANGED <<libVars, libs, webhook>>

(* root\log, and freopen, which may fail. *)
CheckLog ==
  /\ pc = "log"
  /\ \/ Lookup(SecLog, <<"stderr">>,
               IF GetKV(nodes, SecLog, <<"stderr">>) = <<>>
                  \/ ~HasKV(nodes, SecLog, <<"mode">>) THEN "exited" ELSE "load", "exited")
     \/ HasSection(nodes, SecLog) /\ Goto("exited")
  /\ UNCHANGED <<libVars, libs, webhook>>

LibPairs ==
  IF HasSection(nodes, SecLibs) THEN nodes[GetSectionPointer(nodes, SecLibs)].pairs ELSE <<>>

LoadSharedObjects ==
  /\ pc = "load"
  /\ libs' = LibPairs
  /\ Goto("libs")
  /\ UNCHANGED <<libVars, webhook>>

LoadNext ==
  /\ pc = "libs"
  /\ libs # <<>>
  /\ LoadAndBind(Head(libs).value, Head(libs).key)
  /\ libs' = Tail(libs)
  /\ Goto("libs")
  /\ UNCHANGED webhook

(* An exception nobody catches if the item is missing. *)
InitializeBotEngine ==
  /\ pc = "libs"
  /\ libs = <<>>
  /\ Lookup(SecRoot, <<"webhook">>, "port", "terminated")
  /\ webhook' = IF pc' = "port" THEN GetKV(nodes, SecRoot, <<"webhook">>) ELSE webhook
  /\ UNCHANGED <<libVars, libs>>

(* DoHttpThread: SetupCryptor takes an empty token and key if there are    *)
(* none; the exceptions end the process; mg_bind may fail.                 *)
BindPort ==
  /\ pc = "port"
  /\ \/ Lookup(SecHttp, <<"port">>, "running", "terminated")
     \/ HasSection(nodes, SecHttp) /\ Goto("terminated")
  /\ UNCHANGED <<libVars, libs, webhook>>

(* A call of DylibManager by code of a library: the jobs run as soon as    *)
(* both threads are started, before the port is bound.                     *)
Reconfigure ==
  /\ pc \in {"port", "running"}
  /\ calls < MaxCalls
  /\ calls' = calls + 1
  /\ \E n \in LibNames : \/ UnloadLibrary(n)
                         \/ \E p \in DOMAIN Image : ReloadLibrary(p, n)
  /\ UNCHANGED <<codecVars, mode, pc, libs, webhook>>

Parse == pc = "parse" /\ ParseImpl /\ UNCHANGED <<libVars, bootVars>>

Boot ==
  \/ Parsed \/ CheckBotName \/ CheckLog \/ LoadSharedObjects \/ LoadNext
  \/ InitializeBotEngine \/ BindPort

Next == Parse \/ Boot \/ Reconfigure

Spec == Init /\ [][Next]_allVars

-----------------------------------------------------------------------------
(* Properties.                                                             *)

Started == pc \in {"port", "running"}

(* A daemon that runs was started from a text that parses and has every    *)
(* item its parts use, and sends to the webhook of that text; a text that  *)
(* lacks a section, not just an item, kills the process instead.           *)
RunningIsConfigured ==
  /\ pc = "running" =>
       /\ status = "SUCCESS"
       /\ Found(nodes, SecRoot, <<"webhook">>) = <<webhook>>
       /\ HasKV(nodes, SecHttp, <<"port">>)
       /\ mode = "daemon" => /\ HasKV(nodes, SecRoot, <<"bot_name">>)
                             /\ GetKV(nodes, SecLog, <<"stderr">>) # <<>>
                             /\ HasKV(nodes, SecLog, <<"mode">>)
  /\ pc = "crashed" =>
       \/ status = "wild"
       \/ \E s \in {SecRoot, SecHttp} \cup (IF mode = "daemon" THEN {SecLog} ELSE {}) :
            ~HasSection(nodes, s)

(* The pairs dlopen can open, and among them the first of each name. *)
Loadable(pair) == pair.value \in DOMAIN Image
Loaded(p) ==
  {i \in DOMAIN p : Loadable(p[i]) /\ \A j \in 1 .. i - 1 : p[j].key = p[i].key => ~Loadable(p[j])}

LibID(p, i) == Cardinality({j \in Loaded(p) : j <= i})

(* What the pair registers: all under its id, or nothing. *)
Registered(p, i, what) ==
  IF i \in Loaded(p) /\ {"DB_DllName", "DB_Bind"} \subseteq Image[p[i].value].symbols
  THEN [n \in 1 .. Image[p[i].value][what] |-> LibID(p, i)] ELSE <<>>

Registrations(what) ==
  FlattenSeq([i \in DOMAIN LibPairs |-> Registered(LibPairs, i, what)])

(* LoadSharedObjects: the jobs and the reply makers are those of the pairs *)
(* of root\libs that dlopen can open, the first of each name, that have    *)
(* both symbols, in the order of the text; a pair that fails costs nothing *)
(* to the ones after it.                                                   *)
BoundAsConfigured ==
  Started /\ calls = 0 =>
    jobs = Registrations("jobs") /\ makers = Registrations("makers")
=============================================================================
