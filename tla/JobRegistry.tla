---------------------------- MODULE JobRegistry ----------------------------
(***************************************************************************)
(* CronJobList and ReplyMakerList of BotEngineImpl, two std::lists of the  *)
(* same kind: Register and Destroy change them under a mutex, DoLoop (cron *)
(* thread) and OnMessageReceived (HTTP workers) walk them without it.      *)
(*                                                                         *)
(* Entries are only appended, so the list is in the order of registration: *)
(* an entry is the number of its registration and the list is the set of   *)
(* the linked ones.  The list is circular through its header, entry 0, as  *)
(* in libstdc++; end() is an iterator at the header and ++end() is         *)
(* begin().                                                                *)
(***************************************************************************)
EXTENDS Integers, Sequences, FiniteSets

CONSTANTS
  Key,          \* what an entry is registered and destroyed by: a library
                \* id, or the Runnable of a job
  Writer,       \* threads that call Register and Destroy (code of libraries)
  Reader,       \* threads that walk the list
  Replying,     \* keys whose reply maker answers the message; {} for jobs
  MaxEntries    \* bound: registrations

Header == 0
NoOwner == "none"
NoKey == "none"

ASSUME RegistryAssumption ==
  /\ MaxEntries \in Nat
  /\ Replying \subseteq Key
  /\ NoOwner \notin Writer
  /\ NoKey \notin Key

VARIABLES
  key,          \* the keys of the entries, in the order of registration
  linked,       \* the entries of the list; the others have been freed
  mutex,        \* owner of the list's mutex
  target,       \* Destroy: the key to remove
  it,           \* Destroy: the iterator
  before,       \* history: the list when Destroy took the mutex
  rpc,          \* where each reader is
  cur,          \* the entry each reader's iterator is at
  started,      \* history: the list when the reader began
  seen          \* history: the entries the reader has looked at

writerVars == <<key, linked, mutex, target, it, before>>
readerVars == <<rpc, cur, started, seen>>
vars == <<key, linked, mutex, target, it, before, rpc, cur, started, seen>>

Entry == 1 .. Len(key)

(* The entry after n, in the list of the entries S. *)
Later(n, S) == {m \in S : m > n}
NextIn(n, S) ==
  IF Later(n, S) = {} THEN Header
  ELSE CHOOSE m \in Later(n, S) : \A o \in Later(n, S) : m <= o

Init ==
  /\ key = <<>>
  /\ linked = {}
  /\ mutex = NoOwner
  /\ target = NoKey
  /\ it = Header
  /\ before = {}
  /\ rpc = [r \in Reader |-> "idle"]
  /\ cur = [r \in Reader |-> Header]
  /\ started = [r \in Reader |-> {}]
  /\ seen = [r \in Reader |-> {}]

-----------------------------------------------------------------------------
(* Mutant: the entry is linked without its key. *)
RegisterKeyless(k) ==
  /\ mutex = NoOwner
  /\ Len(key) < MaxEntries
  /\ linked' = linked \cup {Len(key) + 1}
  /\ UNCHANGED <<key, mutex, target, it, before, readerVars>>

(* RegisterCronJob, RegisterReplyMaker: push_back under the mutex. *)
Register(k) ==
  /\ mutex = NoOwner
  /\ Len(key) < MaxEntries
  /\ key' = Append(key, k)
  /\ linked' = linked \cup {Len(key) + 1}
  /\ UNCHANGED <<mutex, target, it, before, readerVars>>

(* DestroyCronJobs, DestroyReplyMakers: the lock_guard and it = begin(). *)
DestroyBegin(w, k) ==
  /\ mutex = NoOwner
  /\ mutex' = w
  /\ target' = k
  /\ before' = linked
  /\ it' = NextIn(Header, linked)
  /\ UNCHANGED <<key, linked, readerVars>>

(* Mutant: ++it twice for an entry that stays. *)
DestroyPassSkipping(w) ==
  /\ mutex = w
  /\ it # Header
  /\ key[it] # target
  /\ it' = NextIn(NextIn(it, linked), linked)
  /\ UNCHANGED <<key, linked, mutex, target, before, readerVars>>

(* The iterator is at another entry: the for statement's ++it. *)
DestroyPass(w) ==
  /\ mutex = w
  /\ it # Header
  /\ key[it] # target
  /\ it' = NextIn(it, linked)
  /\ UNCHANGED <<key, linked, mutex, target, before, readerVars>>

(* Mutant: it++ without the erase. *)
DestroyErasesNothing(w) ==
  /\ mutex = w
  /\ it # Header
  /\ key[it] = target
  /\ it' = NextIn(NextIn(it, linked), linked)
  /\ UNCHANGED <<key, linked, mutex, target, before, readerVars>>

(* erase(it++), and then the for statement's ++it as well, even of end():  *)
(* undefined, and begin() again in libstdc++.                              *)
DestroyErase(w) ==
  /\ mutex = w
  /\ it # Header
  /\ key[it] = target
  /\ linked' = linked \ {it}
  /\ it' = NextIn(NextIn(it, linked), linked')
  /\ UNCHANGED <<key, mutex, target, before, readerVars>>

DestroyEnd(w) ==
  /\ mutex = w
  /\ it = Header
  /\ mutex' = NoOwner
  /\ target' = NoKey
  /\ before' = {}
  /\ UNCHANGED <<key, linked, it, readerVars>>

-----------------------------------------------------------------------------
(* The range-based for of DoLoop and OnMessageReceived.                    *)

MoveTo(r, n) ==
  /\ cur' = [cur EXCEPT ![r] = n]
  /\ rpc' = [rpc EXCEPT ![r] = IF n = Header THEN "done" ELSE "visit"]

StartPass(r) ==
  /\ rpc[r] \in {"idle", "done"}
  /\ started' = [started EXCEPT ![r] = linked]
  /\ seen' = [seen EXCEPT ![r] = {}]
  /\ MoveTo(r, NextIn(Header, linked))
  /\ UNCHANGED writerVars

(* Mutant: no break after the reply. *)
VisitGoesOn(r) ==
  /\ rpc[r] = "visit"
  /\ cur[r] \in linked
  /\ seen' = [seen EXCEPT ![r] = @ \cup {cur[r]}]
  /\ rpc' = [rpc EXCEPT ![r] = "advance"]
  /\ UNCHANGED <<writerVars, cur, started>>

(* The body of the loop; it ends the loop when the maker replies. *)
Visit(r) ==
  /\ rpc[r] = "visit"
  /\ cur[r] \in linked
  /\ seen' = [seen EXCEPT ![r] = @ \cup {cur[r]}]
  /\ rpc' = [rpc EXCEPT ![r] = IF key[cur[r]] \in Replying THEN "done" ELSE "advance"]
  /\ UNCHANGED <<writerVars, cur, started>>

(* Mutant: two entries further, as in Destroy. *)
AdvanceTwice(r) ==
  /\ rpc[r] = "advance"
  /\ cur[r] \in linked
  /\ MoveTo(r, NextIn(NextIn(cur[r], linked), linked))
  /\ UNCHANGED <<writerVars, started, seen>>

Advance(r) ==
  /\ rpc[r] = "advance"
  /\ cur[r] \in linked
  /\ MoveTo(r, NextIn(cur[r], linked))
  /\ UNCHANGED <<writerVars, started, seen>>

(* The entry under the iterator has been freed: undefined behaviour, after *)
(* which nothing is known of the reader.                                   *)
UseAfterFree(r) ==
  /\ rpc[r] \in {"visit", "advance"}
  /\ cur[r] \notin linked
  /\ rpc' = [rpc EXCEPT ![r] = "wild"]
  /\ UNCHANGED <<writerVars, cur, started, seen>>

-----------------------------------------------------------------------------
Destroy(w) == DestroyPass(w) \/ DestroyErase(w) \/ DestroyEnd(w)

Next ==
  \/ \E k \in Key : Register(k)
  \/ \E w \in Writer : \/ \E k \in Key : DestroyBegin(w, k)
                       \/ Destroy(w)
  \/ \E r \in Reader : StartPass(r) \/ Visit(r) \/ Advance(r) \/ UseAfterFree(r)

(* A thread inside Destroy keeps running. *)
Fairness == \A w \in Writer : WF_vars(Destroy(w))

Spec == Init /\ [][Next]_vars
FairSpec == Spec /\ Fairness

-----------------------------------------------------------------------------
(* Properties.                                                             *)

TypeOK ==
  /\ key \in Seq(Key) /\ Len(key) <= MaxEntries
  /\ linked \subseteq Entry
  /\ mutex \in Writer \cup {NoOwner}
  /\ target \in Key \cup {NoKey}
  /\ it \in Entry \cup {Header}
  /\ before \subseteq Entry
  /\ rpc \in [Reader -> {"idle", "visit", "advance", "done", "wild"}]
  /\ cur \in [Reader -> Entry \cup {Header}]
  /\ started \in [Reader -> SUBSET Entry]
  /\ seen \in [Reader -> SUBSET Entry]

Matching(S) == {n \in S : key[n] = target}

(* Destroy is about to return. *)
Destroyed == mutex # NoOwner /\ it = Header

(* Destroy takes only entries of its key, and if no two neighbours of the  *)
(* list have that key it takes all of them, although its loop skips an     *)
(* entry after each erasure and may go round past end().                   *)
Neighbours(m, n, S) == m \in S /\ n \in S /\ n = NextIn(m, S)

DestroyTakesIsolated ==
  Destroyed =>
    /\ before \ linked \subseteq Matching(before)
    /\ (\A m, n \in Matching(before) : ~Neighbours(m, n, before))
         => Matching(linked) = {}

(* Of the entries it should take, Destroy takes at least every other one.  *)
DestroyTakesHalf ==
  Destroyed => Cardinality(Matching(linked)) <= Cardinality(before \ linked)

(* The loop of Destroy ends, whatever it skips. *)
DestroyReturns == \A w \in Writer : mutex = w ~> mutex # w

(* A walk that runs to its end has looked, in the order of the list and    *)
(* once, at every entry that was in the list all the time (up to the first *)
(* maker that replies), whatever was registered and destroyed meanwhile.   *)
WalkIsComplete ==
  \A r \in Reader :
    /\ rpc[r] = "visit" => \A n \in seen[r] : n < cur[r]
    /\ rpc[r] = "done" =>
         \A n \in started[r] \cap linked :
           n \in seen[r] \/ \E m \in seen[r] : m < n /\ key[m] \in Replying

(* Only the first reply maker that would reply does: every earlier one     *)
(* looked at declined.                                                     *)
FirstMakerReplies ==
  \A r \in Reader : \A m, n \in seen[r] : m < n => key[m] \notin Replying

(* BotEngine.hpp:32, 33 and 36: all the entries of the key are destroyed.  *)
DestroysAll == Destroyed => Matching(linked) = {}
=============================================================================
