---------------------------- MODULE HttpService ----------------------------
(***************************************************************************)
(* What the HTTP server promises for each request it has parsed: it is     *)
(* answered at most once, and otherwise dropped, once and for all.         *)
(***************************************************************************)
CONSTANT Request

VARIABLES
  pending,    \* requests received and neither answered nor dropped
  answered,   \* requests whose response was handed to a connection
  dropped     \* requests whose response will never be handed over

vars == <<pending, answered, dropped>>

Init ==
  /\ pending = {}
  /\ answered = {}
  /\ dropped = {}

Receive(r) ==
  /\ r \notin pending \cup answered \cup dropped
  /\ pending' = pending \cup {r}
  /\ UNCHANGED <<answered, dropped>>

Answer(r) ==
  /\ r \in pending
  /\ pending' = pending \ {r}
  /\ answered' = answered \cup {r}
  /\ UNCHANGED dropped

(* The server may drop several requests at once: it does so when it stops. *)
Drop(S) ==
  /\ S # {}
  /\ S \subseteq pending
  /\ pending' = pending \ S
  /\ dropped' = dropped \cup S
  /\ UNCHANGED answered

Next ==
  \/ \E r \in Request : Receive(r) \/ Answer(r)
  \/ \E S \in SUBSET pending : Drop(S)

Spec == Init /\ [][Next]_vars
=============================================================================
