----------------------------- MODULE Libraries -----------------------------
(***************************************************************************)
(* DylibManager: the dynamic libraries by name, and the registrations that *)
(* the DB_Bind of a library makes under its id.  A library is never taken  *)
(* out of the map, so a name that was loaded once is never loaded again.   *)
(***************************************************************************)
EXTENDS Integers, Sequences, SequencesExt

CONSTANT Image    \* what dlopen can open: path -> symbols, registrations

ASSUME LibrariesAssumption ==
  \A p \in DOMAIN Image : Image[p].jobs \in Nat /\ Image[p].makers \in Nat

VARIABLES
  Map,        \* name -> id and path
  handles,    \* path -> dlopen calls without their dlclose
  unloaded,   \* history: names that UnloadLibrary was called for
  AI_LibID,   \* the next id
  jobs,       \* the library ids of CronJobList, in its order
  makers      \* the library ids of ReplyMakerList, in its order

libVars == <<Map, handles, unloaded, AI_LibID, jobs, makers>>

LibInit ==
  /\ Map = <<>>
  /\ handles = [p \in DOMAIN Image |-> 0]
  /\ unloaded = {}
  /\ AI_LibID = 1
  /\ jobs = <<>>
  /\ makers = <<>>

GetLibraryID(map, name) == IF name \in DOMAIN map THEN map[name].id ELSE 0

LoadLibrary(path, name) ==
  /\ name \notin DOMAIN Map
  /\ path \in DOMAIN Image
  /\ Map' = [n \in DOMAIN Map \cup {name} |->
               IF n = name THEN [id |-> AI_LibID, path |-> path] ELSE Map[n]]
  /\ handles' = [handles EXCEPT ![path] = @ + 1]
  /\ AI_LibID' = AI_LibID + 1
  /\ UNCHANGED unloaded

(* "already loaded", or dlopen fails. *)
LoadThrows(path, name) == name \in DOMAIN Map \/ path \notin DOMAIN Image

(* Mutant: DB_DllName is not asked for. *)
BindUnasked(path, name) ==
  LET id == GetLibraryID(Map', name) IN
  IF {"DB_Bind"} \subseteq Image[path].symbols
  THEN /\ jobs' = jobs \o [i \in 1 .. Image[path].jobs |-> id]
       /\ makers' = makers \o [i \in 1 .. Image[path].makers |-> id]
  ELSE UNCHANGED <<jobs, makers>>

(* DB_Bind, called with the id of the library; not called when one of the  *)
(* two symbols is missing, and the library stays loaded.                   *)
Bind(path, name) ==
  LET id == GetLibraryID(Map', name) IN
  IF {"DB_DllName", "DB_Bind"} \subseteq Image[path].symbols
  THEN /\ jobs' = jobs \o [i \in 1 .. Image[path].jobs |-> id]
       /\ makers' = makers \o [i \in 1 .. Image[path].makers |-> id]
  ELSE UNCHANGED <<jobs, makers>>

(* The body of the loop of LoadSharedObjects. *)
LoadAndBind(path, name) ==
  \/ LoadThrows(path, name) /\ UNCHANGED libVars
  \/ LoadLibrary(path, name) /\ Bind(path, name)

-----------------------------------------------------------------------------
(* DestroyCronJobs(libid) on a list of ids: the entry after an erased one  *)
(* is not looked at, and after the last one the loop begins again.         *)
DestroyRound(s, id) ==
  LET round[i \in 0 .. Len(s)] ==
        IF i = 0 THEN [list |-> <<>>, again |-> FALSE]
        ELSE LET acc == round[i - 1] IN
             IF acc.again \/ s[i] # id THEN [list |-> Append(acc.list, s[i]), again |-> FALSE]
             ELSE [list |-> acc.list, again |-> TRUE]
  IN  round[Len(s)]

DestroyCronJobs(s, id) ==
  LET loop[i \in 0 .. Len(s) + 1] ==
        IF i = 0 THEN [list |-> s, again |-> TRUE]
        ELSE LET acc == loop[i - 1] IN
             IF acc.again THEN DestroyRound(acc.list, id) ELSE acc
  IN  loop[Len(s) + 1].list

(* dlclose; it fails, or does nothing, for a path that is not open any     *)
(* more, and takes away the handle of another name of the path otherwise.  *)
Dlclose(path) == handles' = [handles EXCEPT ![path] = IF @ = 0 THEN 0 ELSE @ - 1]

(* Mutant: the jobs stay. *)
UnloadKeepsJobs(name) ==
  /\ name \in DOMAIN Map
  /\ Dlclose(Map[name].path)
  /\ unloaded' = unloaded \cup {name}
  /\ UNCHANGED <<Map, AI_LibID, jobs, makers>>

(* The jobs are destroyed, the reply makers are not, and the name stays in *)
(* the map, so that it can be unloaded again.                              *)
UnloadLibrary(name) ==
  /\ name \in DOMAIN Map
  /\ jobs' = DestroyCronJobs(jobs, Map[name].id)
  /\ Dlclose(Map[name].path)
  /\ unloaded' = unloaded \cup {name}
  /\ UNCHANGED <<Map, AI_LibID, makers>>

(* A name that is not loaded is loaded, but not bound; after an unload the *)
(* load always throws, since the name is still in the map.                 *)
ReloadLibrary(path, name) ==
  \/ UnloadLibrary(name)
  \/ LoadLibrary(path, name) /\ UNCHANGED <<jobs, makers>>

-----------------------------------------------------------------------------
(* A registration belongs to exactly one library that was loaded, so that  *)
(* destroying by id never touches another library's jobs: an id never      *)
(* returns, whatever is unloaded and loaded.  And after an unload no job   *)
(* of the library is left to be run, unless it had several in a row.       *)
UnloadTakesItsJobs ==
  /\ \A i \in Range(jobs) \cup Range(makers) :
       /\ \E n \in DOMAIN Map : Map[n].id = i
       /\ \A m, n \in DOMAIN Map : Map[m].id = i /\ Map[n].id = i => m = n
  /\ \A n \in unloaded : Image[Map[n].path].jobs <= 1 => Map[n].id \notin Range(jobs)
=============================================================================
