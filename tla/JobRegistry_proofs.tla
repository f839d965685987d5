------------------------- MODULE JobRegistry_proofs -------------------------
(***************************************************************************)
(* The registry for any number of entries, keys, writers and readers: what *)
(* the loop of Destroy removes although it skips entries, and what a walk  *)
(* that takes no lock sees.                                                *)
(***************************************************************************)
EXTENDS JobRegistry, FiniteSetTheorems, TLAPS, WellFoundedInduction

(* The successor of an entry is the least later one, or the header. *)
LEMMA NextInLeast ==
  ASSUME NEW S, S \subseteq Nat \ {0}, NEW n \in Nat
  PROVE  /\ Later(n, S) = {} => NextIn(n, S) = Header
         /\ Later(n, S) # {} => /\ NextIn(n, S) \in S
                                /\ NextIn(n, S) > n
                                /\ \A o \in Later(n, S) : NextIn(n, S) <= o
<1>1. CASE Later(n, S) = {}
  BY <1>1 DEF NextIn
<1>2. CASE Later(n, S) # {}
  <2> DEFINE R == {ss \in Nat \X Nat : ss[1] < ss[2]}
  <2>1. IsWellFoundedOn(R, Nat)
    BY NatLessThanWellFounded, Zenon DEF OpToRel
  <2>2. Later(n, S) \subseteq Nat
    BY DEF Later
  <2>3. PICK x \in Later(n, S) : \A y \in Later(n, S) : ~(<<y, x>> \in R)
    BY <1>2, <2>1, <2>2, WFMin
  <2>4. ASSUME NEW y \in Later(n, S)
        PROVE  x <= y
    <3>1. x \in Nat /\ y \in Nat /\ ~(<<y, x>> \in R)
      BY <2>2, <2>3
    <3>2. <<y, x>> \in R <=> y < x
      BY <3>1
    <3>3. QED
      BY <3>1, <3>2
  <2>5. /\ NextIn(n, S) \in Later(n, S)
        /\ \A o \in Later(n, S) : NextIn(n, S) <= o
    BY <1>2, <2>3, <2>4 DEF NextIn
  <2>6. QED
    BY <1>2, <2>5 DEF Later
<1>3. QED
  BY <1>1, <1>2

LEMMA NextInType ==
  ASSUME NEW S, S \subseteq Nat \ {0}, NEW n \in Nat
  PROVE  NextIn(n, S) \in S \cup {Header}
  BY NextInLeast

-----------------------------------------------------------------------------
LEMMA EntryType == TypeOK => Entry \subseteq Nat \ {0} /\ linked \subseteq Nat \ {0}
  BY DEF TypeOK, Entry

LEMMA TypeStep == TypeOK /\ [Next]_vars => TypeOK'
<1> SUFFICES ASSUME TypeOK, [Next]_vars
             PROVE  TypeOK'
  OBVIOUS
<1>0. /\ Entry \subseteq Nat \ {0}
      /\ linked \subseteq Nat \ {0}
      /\ Header \in Nat
  BY EntryType DEF Header
<1> USE DEF TypeOK
<1>1. ASSUME NEW k \in Key, Register(k)
      PROVE  TypeOK'
  <2>1. key' \in Seq(Key) /\ Len(key') = Len(key) + 1 /\ Len(key') <= MaxEntries
    BY <1>1, RegistryAssumption DEF Register
  <2>2. Entry \subseteq Entry' /\ Len(key) + 1 \in Entry'
    BY <2>1 DEF Entry
  <2>3. QED
    BY <1>1, <2>1, <2>2 DEF Register, readerVars
<1>2. ASSUME NEW w \in Writer, NEW k \in Key, DestroyBegin(w, k)
      PROVE  TypeOK'
  <2>1. NextIn(Header, linked) \in linked \cup {Header}
    BY <1>0, NextInType
  <2>2. QED
    BY <1>2, <2>1 DEF DestroyBegin, readerVars, Entry
<1>3. ASSUME NEW w \in Writer, DestroyPass(w)
      PROVE  TypeOK'
  <2>1. it \in Nat
    BY <1>0
  <2>2. NextIn(it, linked) \in linked \cup {Header}
    BY <1>0, <2>1, NextInType
  <2>3. QED
    BY <1>3, <2>2 DEF DestroyPass, readerVars, Entry
<1>4. ASSUME NEW w \in Writer, DestroyErase(w)
      PROVE  TypeOK'
  <2>1. it \in Nat /\ linked' = linked \ {it} /\ linked' \subseteq Nat \ {0}
    BY <1>0, <1>4 DEF DestroyErase
  <2> DEFINE next == NextIn(it, linked)
  <2>2. next \in linked \cup {Header}
    BY <1>0, <2>1, NextInType
  <2>3. next \in Nat
    BY <1>0, <2>2
  <2>4. it' = NextIn(next, linked')
    BY <1>4 DEF DestroyErase
  <2>5. it' \in linked' \cup {Header}
    <3> HIDE DEF next
    <3>1. QED
      BY <2>1, <2>3, <2>4, NextInType
  <2>6. QED
    BY <1>4, <2>1, <2>5 DEF DestroyErase, readerVars, Entry
<1>5. ASSUME NEW w \in Writer, DestroyEnd(w)
      PROVE  TypeOK'
  BY <1>5 DEF DestroyEnd, readerVars, Entry
<1>6. ASSUME NEW r \in Reader, StartPass(r)
      PROVE  TypeOK'
  <2>1. NextIn(Header, linked) \in linked \cup {Header}
    BY <1>0, NextInType
  <2>2. QED
    BY <1>6, <2>1 DEF StartPass, MoveTo, writerVars, Entry
<1>7. ASSUME NEW r \in Reader, Visit(r)
      PROVE  TypeOK'
  BY <1>7 DEF Visit, writerVars, Entry
<1>8. ASSUME NEW r \in Reader, Advance(r)
      PROVE  TypeOK'
  <2>1. NextIn(cur[r], linked) \in linked \cup {Header}
    BY <1>0, <1>8, NextInType DEF Advance
  <2>2. QED
    BY <1>8, <2>1 DEF Advance, MoveTo, writerVars, Entry
<1>9. ASSUME NEW r \in Reader, UseAfterFree(r)
      PROVE  TypeOK'
  BY <1>9 DEF UseAfterFree, writerVars, Entry
<1>10. CASE UNCHANGED vars
  BY <1>10 DEF vars, Entry
<1>11. QED
  BY <1>1, <1>2, <1>3, <1>4, <1>5, <1>6, <1>7, <1>8, <1>9, <1>10 DEF Next, Destroy

LEMMA TypeInit == Init => TypeOK
<1> SUFFICES ASSUME Init
             PROVE  TypeOK
  OBVIOUS
<1>1. key \in Seq(Key) /\ Len(key) = 0 /\ Len(key) <= MaxEntries
  BY RegistryAssumption DEF Init
<1>2. rpc \in [Reader -> {"idle", "visit", "advance", "done", "wild"}]
  BY DEF Init
<1>3. cur \in [Reader -> Entry \cup {Header}]
  BY DEF Init
<1>4. started \in [Reader -> SUBSET Entry] /\ seen \in [Reader -> SUBSET Entry]
  BY DEF Init
<1>5. QED
  BY <1>1, <1>2, <1>3, <1>4 DEF Init, TypeOK

(* The list, the iterators and the histories keep their types, for any     *)
(* number of entries, writers and readers.                                 *)
THEOREM TypeCorrect == Spec => []TypeOK
<1>1. Init => TypeOK
  BY TypeInit
<1>2. TypeOK /\ [Next]_vars => TypeOK'
  BY TypeStep
<1>3. QED
  BY <1>1, <1>2, PTL DEF Spec

-----------------------------------------------------------------------------
(***************************************************************************)
(* What the loop of Destroy leaves.  When no two neighbours match, either  *)
(* nothing matches any more (the loop may then go round past end()), or    *)
(* all that still matches is ahead of the iterator and all that was erased *)
(* is behind it.                                                           *)
(***************************************************************************)
Isolated == \A m, n \in Matching(before) : ~Neighbours(m, n, before)

AllAhead ==
  /\ it # Header
  /\ \A n \in Matching(linked) : it <= n
  /\ \A n \in before \ linked : n < it

DestroyInv ==
  mutex # NoOwner =>
    /\ linked \subseteq before
    /\ before \ linked \subseteq Matching(before)
    /\ it # Header => it \in linked
    /\ Isolated => Matching(linked) = {} \/ AllAhead

(* Steps that change nothing that Destroy uses. *)
LEMMA DestroyInvUnchanged ==
  ASSUME DestroyInv, UNCHANGED <<key, linked, mutex, target, it, before>>
  PROVE  DestroyInv'
  BY DEF DestroyInv, Isolated, AllAhead, Matching, Neighbours, NextIn, Later

LEMMA DestroyStep == TypeOK /\ DestroyInv /\ [Next]_vars => DestroyInv'
<1> SUFFICES ASSUME TypeOK, DestroyInv, [Next]_vars
             PROVE  DestroyInv'
  OBVIOUS
<1>0. /\ Entry \subseteq Nat \ {0} /\ linked \subseteq Nat \ {0}
      /\ before \subseteq Nat \ {0}
      /\ Header \in Nat /\ Header = 0
      /\ \A w \in Writer : w # NoOwner
  BY EntryType, RegistryAssumption DEF TypeOK, Header
<1>1. ASSUME NEW k \in Key, Register(k)
      PROVE  DestroyInv'
  BY <1>1 DEF Register, DestroyInv
<1>2. ASSUME NEW w \in Writer, NEW k \in Key, DestroyBegin(w, k)
      PROVE  DestroyInv'
  <2>1. linked' = before' /\ it' = NextIn(Header, linked')
    BY <1>2 DEF DestroyBegin
  <2>2. linked' \subseteq Nat \ {0}
    BY <1>0, <1>2 DEF DestroyBegin
  <2>3. it' # Header => it' \in linked'
    BY <1>0, <2>1, <2>2, NextInType
  <2>4. Later(Header, linked') = linked'
    <3>1. \A n \in linked' : n > Header
      BY <2>2 DEF Header
    <3>2. QED
      BY <3>1 DEF Later
  <2>5. linked' # {} => it' # Header /\ \A n \in linked' : it' <= n
    <3>1. linked' # {} => /\ NextIn(Header, linked') \in linked'
                          /\ \A n \in linked' : NextIn(Header, linked') <= n
      BY <1>0, <2>2, <2>4, NextInLeast
    <3>2. QED
      BY <1>0, <2>1, <2>2, <3>1
  <2>6. Matching(linked)' = {} \/ AllAhead'
    BY <2>1, <2>5 DEF Matching, AllAhead
  <2>7. QED
    BY <2>1, <2>3, <2>6 DEF DestroyInv
<1>3. ASSUME NEW w \in Writer, DestroyPass(w)
      PROVE  DestroyInv'
  <2>1. /\ mutex # NoOwner /\ it # Header /\ it \in linked
        /\ it' = NextIn(it, linked)
        /\ UNCHANGED <<key, linked, mutex, target, before>>
        /\ it \notin Matching(linked)
    BY <1>0, <1>3 DEF DestroyPass, DestroyInv, Matching
  <2>2. it \in Nat
    BY <1>0, <2>1
  <2>3. it' # Header => it' \in linked'
    BY <1>0, <2>1, <2>2, NextInType
  <2>4. ASSUME Isolated, Matching(linked) # {}
        PROVE  AllAhead'
    <3>1. AllAhead
      BY <2>1, <2>4 DEF DestroyInv
    <3>2. Matching(linked) \subseteq Later(it, linked)
      <4>1. ASSUME NEW n \in Matching(linked)
            PROVE  n \in linked /\ n > it
        <5>1. n \in linked /\ n \in Nat /\ n # it /\ it <= n
          BY <1>0, <2>1, <3>1 DEF AllAhead, Matching
        <5>2. QED
          BY <2>2, <5>1
      <4>2. QED
        BY <4>1 DEF Later
    <3>3. it' # Header /\ it' > it /\ \A n \in Later(it, linked) : it' <= n
      BY <1>0, <2>1, <2>2, <2>4, <3>2, NextInLeast
    <3>4. /\ Matching(linked)' = Matching(linked)
          /\ before' \ linked' = before \ linked
      BY <2>1 DEF Matching
    <3>5. \A n \in before \ linked : n < it'
      <4>1. ASSUME NEW n \in before \ linked
            PROVE  n < it'
        <5>1. n \in Nat /\ n < it /\ it' \in Nat
          BY <1>0, <2>1, <2>3, <3>1, <3>3 DEF AllAhead
        <5>2. QED
          BY <2>2, <3>3, <5>1
      <4>2. QED
        BY <4>1
    <3>6. QED
      BY <3>2, <3>3, <3>4, <3>5 DEF AllAhead
  <2>5. /\ Isolated' = Isolated
        /\ Matching(linked)' = Matching(linked)
        /\ Matching(before)' = Matching(before)
    BY <2>1 DEF Isolated, Matching, Neighbours, NextIn, Later
  <2>6. QED
    BY <2>1, <2>3, <2>4, <2>5 DEF DestroyInv
<1>4. ASSUME NEW w \in Writer, DestroyErase(w)
      PROVE  DestroyInv'
  <2> DEFINE next == NextIn(it, linked)
  <2>1. /\ mutex # NoOwner /\ it # Header /\ it \in linked
        /\ linked' = linked \ {it}
        /\ it' = NextIn(next, linked')
        /\ UNCHANGED <<key, mutex, target, before>>
        /\ it \in Matching(linked) /\ it \in Matching(before)
        /\ linked \subseteq before
    BY <1>0, <1>4 DEF DestroyErase, DestroyInv, Matching
  <2>2. it \in Nat /\ next \in Nat /\ next \in linked \cup {Header}
    BY <1>0, <2>1, NextInType
  <2>3. it' # Header => it' \in linked'
    <3> HIDE DEF next
    <3>1. QED
      BY <1>0, <2>1, <2>2, NextInType
  <2>4. /\ before' \ linked' = (before \ linked) \cup {it}
        /\ linked' \subseteq before'
    BY <2>1
  <2>5. /\ Isolated' = Isolated
        /\ Matching(before)' = Matching(before)
        /\ Matching(linked)' = Matching(linked) \ {it}
    BY <2>1 DEF Isolated, Matching, Neighbours, NextIn, Later
  <2>6. ASSUME Isolated, Matching(linked)' # {}
        PROVE  AllAhead'
    <3>1. AllAhead
      BY <2>1, <2>6 DEF DestroyInv
    <3>2. Matching(linked)' \subseteq Later(it, linked)
      <4>1. ASSUME NEW n \in Matching(linked)'
            PROVE  n \in linked /\ n > it
        <5>1. n \in Matching(linked) /\ n \in linked /\ n # it /\ n \in Nat
          BY <1>0, <2>1, <2>5 DEF Matching
        <5>2. it <= n
          BY <3>1, <5>1 DEF AllAhead
        <5>3. QED
          BY <2>2, <5>1, <5>2
      <4>2. QED
        BY <4>1 DEF Later
    <3>3. /\ next \in linked /\ next > it
          /\ \A n \in Later(it, linked) : next <= n
      BY <1>0, <2>2, <2>6, <3>2, NextInLeast
    <3>4. Later(it, before) = Later(it, linked)
      <4>1. ASSUME NEW n \in before, n > it
            PROVE  n \in linked
        <5>1. n \notin linked => n < it
          BY <3>1 DEF AllAhead
        <5>2. n \in Nat
          BY <1>0
        <5>3. QED
          BY <2>2, <4>1, <5>1, <5>2
      <4>2. QED
        BY <2>1, <4>1 DEF Later
    <3>5. next = NextIn(it, before)
      BY <3>4 DEF NextIn
    <3>6. next \notin Matching(linked)
      BY <2>1, <2>6, <3>3, <3>5 DEF Isolated, Neighbours, Matching
    <3>7. Matching(linked)' \subseteq Later(next, linked')
      <4> HIDE DEF next
      <4>1. ASSUME NEW n \in Matching(linked)'
            PROVE  n > next /\ n \in linked'
        <5>1. n \in linked /\ n # next /\ next <= n /\ n \in Nat /\ n \in linked'
          BY <1>0, <2>1, <2>5, <3>2, <3>3, <3>6 DEF Matching
        <5>2. QED
          BY <2>2, <5>1
      <4>2. QED
        BY <4>1 DEF Later
    <3>8. it' # Header /\ it' > next /\ \A n \in Later(next, linked') : it' <= n
      <4> HIDE DEF next
      <4>1. linked' \subseteq Nat \ {0}
        BY <1>0, <2>1
      <4>2. QED
        BY <1>0, <2>1, <2>2, <2>6, <3>7, <4>1, NextInLeast
    <3>9. \A n \in before' \ linked' : n < it'
      <4> HIDE DEF next
      <4>1. it' \in Nat
        BY <1>0, <2>1, <2>3, <3>8
      <4>2. ASSUME NEW n \in (before \ linked) \cup {it}
            PROVE  n < it'
        <5>1. n \in Nat /\ n <= it
          <6>1. n \in Nat
            BY <1>0, <2>2
          <6>2. n # it => n < it
            BY <3>1 DEF AllAhead
          <6>3. QED
            BY <2>2, <6>1, <6>2
        <5>2. QED
          BY <2>2, <3>3, <3>8, <4>1, <5>1
      <4>3. QED
        BY <2>4, <4>2
    <3>10. QED
      BY <3>7, <3>8, <3>9 DEF AllAhead
  <2>7. before' \ linked' \subseteq Matching(before)'
    BY <2>1, <2>4, <2>5 DEF DestroyInv
  <2>8. QED
    BY <2>3, <2>4, <2>5, <2>6, <2>7 DEF DestroyInv
<1>5. ASSUME NEW w \in Writer, DestroyEnd(w)
      PROVE  DestroyInv'
  BY <1>5 DEF DestroyEnd, DestroyInv
<1>6. ASSUME NEW r \in Reader,
             StartPass(r) \/ Visit(r) \/ Advance(r) \/ UseAfterFree(r)
      PROVE  DestroyInv'
  <2>1. UNCHANGED <<key, linked, mutex, target, it, before>>
    BY <1>6 DEF StartPass, Visit, Advance, UseAfterFree, writerVars
  <2>2. QED
    BY <2>1, DestroyInvUnchanged
<1>7. CASE UNCHANGED vars
  BY <1>7, DestroyInvUnchanged DEF vars
<1>8. QED
  BY <1>1, <1>2, <1>3, <1>4, <1>5, <1>6, <1>7 DEF Next, Destroy

(* However long the list: Destroy erases only what matches, and all of it  *)
(* when no two neighbours match.                                           *)
THEOREM IsolatedAreDestroyed == Spec => []DestroyTakesIsolated
<1>1. Init => TypeOK /\ DestroyInv
  BY TypeInit DEF Init, DestroyInv
<1>2. TypeOK /\ DestroyInv /\ [Next]_vars => (TypeOK /\ DestroyInv)'
  BY TypeStep, DestroyStep
<1>3. TypeOK /\ DestroyInv => DestroyTakesIsolated
  BY DEF DestroyInv, DestroyTakesIsolated, Destroyed, Isolated, AllAhead
<1>4. QED
  BY <1>1, <1>2, <1>3, PTL DEF Spec

-----------------------------------------------------------------------------
(***************************************************************************)
(* What the loop skips.  Each erasure lets at most one entry go by that    *)
(* matches; going round past end() puts all of them ahead again.           *)
(***************************************************************************)
Behind == {n \in Matching(linked) : it = Header \/ n < it}

HalfInv == mutex # NoOwner => Cardinality(Behind) <= Cardinality(before \ linked)

LEMMA ListsFinite ==
  ASSUME TypeOK
  PROVE  /\ IsFiniteSet(before \ linked) /\ Cardinality(before \ linked) \in Nat
         /\ IsFiniteSet(Behind) /\ Cardinality(Behind) \in Nat
<1>1. IsFiniteSet(Entry)
  BY FS_Interval DEF Entry, TypeOK
<1>2. before \ linked \in SUBSET Entry /\ Behind \in SUBSET Entry
  BY DEF TypeOK, Behind, Matching
<1>3. QED
  BY <1>1, <1>2, FS_Subset, FS_CardinalityType

LEMMA HalfStep == TypeOK /\ DestroyInv /\ HalfInv /\ [Next]_vars => HalfInv'
<1> SUFFICES ASSUME TypeOK, DestroyInv, HalfInv, [Next]_vars, mutex' # NoOwner
             PROVE  Cardinality(Behind') <= Cardinality(before' \ linked')
  BY DEF HalfInv
<1>0. /\ Entry \subseteq Nat \ {0} /\ linked \subseteq Nat \ {0}
      /\ Header \in Nat /\ Header = 0
      /\ \A w \in Writer : w # NoOwner
  BY EntryType, RegistryAssumption DEF Header
<1>1. CASE UNCHANGED <<key, linked, mutex, target, it, before>>
  <2>1. Behind' = Behind /\ before' \ linked' = before \ linked
    BY <1>1 DEF Behind, Matching
  <2>2. QED
    BY <1>1, <2>1 DEF HalfInv
<1>2. ASSUME NEW w \in Writer, NEW k \in Key, DestroyBegin(w, k)
      PROVE  Cardinality(Behind') <= Cardinality(before' \ linked')
  <2>1. linked' = linked /\ before' = linked /\ it' = NextIn(Header, linked)
    BY <1>2 DEF DestroyBegin
  <2>2. \A n \in linked : n \in Later(Header, linked)
    BY <1>0 DEF Later
  <2>3. Behind' = {}
    <3> SUFFICES ASSUME NEW n \in linked, it' = Header \/ n < it'
                 PROVE  FALSE
      BY <2>1 DEF Behind, Matching
    <3>1. it' # Header /\ it' <= n /\ it' \in linked
      BY <1>0, <2>1, <2>2, NextInLeast
    <3>2. QED
      BY <1>0, <3>1
  <2>4. before' \ linked' = {}
    BY <2>1
  <2>5. QED
    BY <2>3, <2>4, FS_EmptySet
<1>3. ASSUME NEW w \in Writer, DestroyPass(w)
      PROVE  Cardinality(Behind') <= Cardinality(before' \ linked')
  <2>1. /\ mutex # NoOwner /\ it # Header /\ it \in linked /\ it \notin Matching(linked)
        /\ it' = NextIn(it, linked)
        /\ UNCHANGED <<key, linked, mutex, target, before>>
    BY <1>0, <1>3 DEF DestroyPass, DestroyInv, Matching
  <2>2. ASSUME NEW n \in Matching(linked), it' = Header \/ n < it'
        PROVE  n < it
    <3>1. n \in linked /\ n \in Nat /\ it \in Nat /\ n # it
      BY <1>0, <2>1 DEF Matching
    <3>2. CASE n > it
      <4>1. n \in Later(it, linked)
        BY <3>1, <3>2 DEF Later
      <4>2. it' # Header /\ it' <= n /\ it' \in Nat
        BY <1>0, <2>1, <3>1, <4>1, NextInLeast
      <4>3. QED
        BY <2>2, <3>1, <4>2
    <3>3. QED
      BY <3>1, <3>2
  <2>3. Behind' \in SUBSET Behind
    BY <2>1, <2>2 DEF Behind, Matching
  <2>4. Cardinality(Behind') <= Cardinality(Behind) /\ Cardinality(Behind') \in Nat
    BY <2>3, ListsFinite, FS_Subset, FS_CardinalityType
  <2>5. QED
    BY <2>1, <2>4, ListsFinite DEF HalfInv
<1>4. ASSUME NEW w \in Writer, DestroyErase(w)
      PROVE  Cardinality(Behind') <= Cardinality(before' \ linked')
  <2> DEFINE next == NextIn(it, linked)
  <2>1. /\ mutex # NoOwner /\ it # Header /\ it \in linked /\ it \in before
        /\ linked' = linked \ {it} /\ it' = NextIn(next, linked')
        /\ UNCHANGED <<key, mutex, target, before>>
    BY <1>0, <1>4 DEF DestroyErase, DestroyInv
  <2>2. Cardinality(before' \ linked') = Cardinality(before \ linked) + 1
    <3>1. before' \ linked' = (before \ linked) \cup {it} /\ it \notin before \ linked
      BY <2>1
    <3>2. QED
      BY <3>1, ListsFinite, FS_AddElement
  <2>3. it \in Nat /\ next \in Nat /\ linked' \subseteq Nat \ {0}
    <3>1. it \in Nat /\ next \in linked \cup {Header}
      BY <1>0, <2>1, NextInType
    <3>2. QED
      BY <1>0, <2>1, <3>1
  <2>4. ASSUME NEW n \in linked', it' = Header \/ n < it'
        PROVE  n <= next /\ next # Header
    <3>1. n \in Nat /\ n # Header
      BY <1>0, <2>3
    <3>2. n \notin Later(next, linked')
      <4>1. ASSUME n \in Later(next, linked')
            PROVE  FALSE
        <5> HIDE DEF next
        <5>1. it' # Header /\ it' <= n /\ it' \in linked'
          BY <1>0, <2>1, <2>3, <4>1, NextInLeast
        <5>2. it' \in Nat
          BY <2>3, <5>1
        <5>3. QED
          BY <2>4, <3>1, <5>1, <5>2
      <4>2. QED
        BY <4>1
    <3>3. n <= next
      BY <2>3, <2>4, <3>1, <3>2 DEF Later
    <3>4. QED
      BY <1>0, <2>3, <3>1, <3>3
  <2>5. ASSUME NEW n \in linked', n < next, next # Header
        PROVE  n < it
    <3>1. n \in linked /\ n # it /\ n \in Nat
      BY <1>0, <2>1
    <3>2. CASE n > it
      <4>1. n \in Later(it, linked)
        BY <3>1, <3>2 DEF Later
      <4>2. next <= n
        BY <1>0, <2>3, <4>1, NextInLeast
      <4>3. QED
        BY <2>3, <2>5, <3>1, <4>2
    <3>3. QED
      BY <2>3, <3>1, <3>2
  <2> HIDE DEF next
  <2>6. Behind' \in SUBSET (Behind \cup {next})
    <3> SUFFICES ASSUME NEW n \in linked', key[n] = target, it' = Header \/ n < it', n # next
                 PROVE  n \in Behind
      BY <2>1 DEF Behind, Matching
    <3>1. n \in Nat /\ n \in linked
      BY <1>0, <2>1
    <3>2. n < it
      BY <2>3, <2>4, <2>5, <3>1
    <3>3. QED
      BY <3>1, <3>2 DEF Behind, Matching
  <2>7. /\ IsFiniteSet(Behind \cup {next})
        /\ Cardinality(Behind \cup {next}) <= Cardinality(Behind) + 1
        /\ Cardinality(Behind \cup {next}) \in Nat
    <3>1. IsFiniteSet(Behind) /\ Cardinality(Behind) \in Nat
      BY ListsFinite
    <3>2. /\ IsFiniteSet(Behind \cup {next})
          /\ Cardinality(Behind \cup {next}) =
               IF next \in Behind THEN Cardinality(Behind) ELSE Cardinality(Behind) + 1
      BY <3>1, FS_AddElement
    <3>3. QED
      BY <3>1, <3>2
  <2>8. Cardinality(Behind') <= Cardinality(Behind \cup {next}) /\ Cardinality(Behind') \in Nat
    BY <2>6, <2>7, FS_Subset, FS_CardinalityType
  <2>9. Cardinality(Behind) <= Cardinality(before \ linked)
    BY <2>1 DEF HalfInv
  <2>10. QED
    BY <2>2, <2>7, <2>8, <2>9, ListsFinite
<1>5. QED
  BY <1>1, <1>2, <1>3, <1>4
  DEF Next, Destroy, Register, DestroyEnd, StartPass, Visit, Advance, UseAfterFree, vars,
      writerVars

(* However long the list, and although the loop of Destroy skips the entry *)
(* after each one it erases: it erases at least as many entries of its key *)
(* as it leaves.                                                           *)
THEOREM HalfIsDestroyed == Spec => []DestroyTakesHalf
<1>1. Init => TypeOK /\ DestroyInv /\ HalfInv
  BY TypeInit DEF Init, DestroyInv, HalfInv
<1>2. TypeOK /\ DestroyInv /\ HalfInv /\ [Next]_vars => (TypeOK /\ DestroyInv /\ HalfInv)'
  BY TypeStep, DestroyStep, HalfStep
<1>3. HalfInv => DestroyTakesHalf
  <2> SUFFICES ASSUME HalfInv, Destroyed
               PROVE  Cardinality(Matching(linked)) <= Cardinality(before \ linked)
    BY DEF DestroyTakesHalf
  <2>1. Behind = Matching(linked)
    BY DEF Destroyed, Behind
  <2>2. QED
    BY <2>1 DEF HalfInv, Destroyed
<1>4. QED
  BY <1>1, <1>2, <1>3, PTL DEF Spec

-----------------------------------------------------------------------------
(***************************************************************************)
(* What a walk has seen.  Everything behind the iterator that was there    *)
(* from the start and still is has been looked at, and declined.           *)
(***************************************************************************)
Covered(r, n) == n \in started[r] \cap linked => n \in seen[r]

WalkInv ==
  \A r \in Reader :
    /\ rpc[r] \in {"visit", "advance"} =>
         /\ cur[r] \in Entry
         /\ \A m \in seen[r] : key[m] \notin Replying
    /\ rpc[r] = "visit" =>
         /\ \A m \in seen[r] : m < cur[r]
         /\ \A n \in Entry : n < cur[r] => Covered(r, n)
    /\ rpc[r] = "advance" =>
         /\ \A m \in seen[r] : m <= cur[r]
         /\ \A n \in Entry : n <= cur[r] => Covered(r, n)
    /\ rpc[r] = "done" =>
         \A n \in Entry :
           Covered(r, n) \/ \E m \in seen[r] : m < n /\ key[m] \in Replying
    /\ \A m, n \in seen[r] : m < n => key[m] \notin Replying

(* No step of a writer brings an entry back or changes its key. *)
LEMMA WriterStep ==
  ASSUME TypeOK, WalkInv, UNCHANGED readerVars, Entry \subseteq Entry',
         \A n \in Entry : key'[n] = key[n],
         \A n \in Entry : n \in linked' => n \in linked
  PROVE  WalkInv'
<1>1. \A r \in Reader : started[r] \subseteq Entry /\ seen[r] \subseteq Entry
  BY DEF TypeOK
<1>2. \A r \in Reader, n \in Entry : Covered(r, n) => Covered(r, n)'
  BY DEF Covered, readerVars
<1>3. \A r \in Reader, n \in Entry' : n \notin Entry => Covered(r, n)'
  BY <1>1 DEF Covered, readerVars
<1>4. \A r \in Reader : \A m \in seen'[r] : key'[m] = key[m] /\ m \in Entry
  BY <1>1 DEF readerVars
<1>5. QED
  <2> SUFFICES ASSUME NEW r \in Reader
               PROVE  WalkInv!(r)'
    BY DEF WalkInv
  <2>1. rpc'[r] = rpc[r] /\ cur'[r] = cur[r] /\ seen'[r] = seen[r]
    BY DEF readerVars
  <2>2. WalkInv!(r)
    BY DEF WalkInv
  <2>3. QED
    BY <1>1, <1>2, <1>3, <1>4, <2>1, <2>2

LEMMA WalkStep == TypeOK /\ WalkInv /\ [Next]_vars => WalkInv'
<1> SUFFICES ASSUME TypeOK, WalkInv, [Next]_vars
             PROVE  WalkInv'
  OBVIOUS
<1>0. /\ Entry \subseteq Nat \ {0} /\ linked \subseteq Nat \ {0}
      /\ Header = 0
      /\ \A r \in Reader : started[r] \subseteq Entry /\ seen[r] \subseteq Entry
      /\ linked \subseteq Entry
      /\ \A n \in Entry : n \in Nat /\ n > 0
      /\ \A r \in Reader : \A m \in seen[r] : m \in Entry /\ m \in Nat
  <2>1. \A n \in Entry : n \in Nat /\ n > 0
    BY DEF Entry, TypeOK
  <2>2. QED
    BY <2>1, EntryType DEF TypeOK, Header
<1>1. ASSUME NEW k \in Key, Register(k)
      PROVE  WalkInv'
  <2>1. Entry \subseteq Entry' /\ Len(key) + 1 \notin Entry
    BY <1>1 DEF Register, Entry, TypeOK
  <2>2. \A n \in Entry : key'[n] = key[n]
    BY <1>1 DEF Register, Entry, TypeOK
  <2>3. UNCHANGED readerVars /\ \A n \in Entry : n \in linked' => n \in linked
    BY <1>1, <2>1 DEF Register
  <2>4. QED
    BY <2>1, <2>2, <2>3, WriterStep
<1>2. ASSUME NEW w \in Writer,
             Destroy(w) \/ \E k \in Key : DestroyBegin(w, k)
      PROVE  WalkInv'
  <2>1. UNCHANGED <<readerVars, key>> /\ linked' \subseteq linked
    BY <1>2 DEF Destroy, DestroyBegin, DestroyPass, DestroyErase, DestroyEnd
  <2>2. UNCHANGED readerVars /\ key' = key /\ Entry' = Entry
    BY <2>1 DEF Entry
  <2>3. QED
    BY <2>1, <2>2, WriterStep
<1>3. ASSUME NEW r \in Reader, StartPass(r)
      PROVE  WalkInv'
  <2> DEFINE first == NextIn(Header, linked)
  <2>1. first \in linked \cup {Header}
    BY <1>0, NextInType
  <2>2. linked = {} \/ (first \in linked /\ \A n \in linked : first <= n)
    <3>1. \A n \in linked : n > Header
      BY <1>0
    <3>2. Later(Header, linked) = linked
      BY <3>1 DEF Later
    <3>3. QED
      BY <1>0, <3>2, NextInLeast
  <2> HIDE DEF first
  <2>3. /\ cur' = [cur EXCEPT ![r] = first]
        /\ rpc' = [rpc EXCEPT ![r] = IF first = Header THEN "done" ELSE "visit"]
        /\ started' = [started EXCEPT ![r] = linked]
        /\ seen' = [seen EXCEPT ![r] = {}]
        /\ key' = key /\ linked' = linked /\ Entry' = Entry
    BY <1>3 DEF StartPass, MoveTo, writerVars, Entry, first
  <2>4. ASSUME NEW q \in Reader
        PROVE  WalkInv!(q)'
    <3>1. CASE q # r
      BY <2>3, <3>1 DEF WalkInv, Covered, TypeOK
    <3>2. CASE q = r
      <4>1. /\ cur'[r] = first /\ seen'[r] = {} /\ started'[r] = linked
            /\ rpc'[r] = IF first = Header THEN "done" ELSE "visit"
        BY <2>3 DEF TypeOK
      <4>2. CASE first = Header
        <5>1. linked = {}
          BY <1>0, <2>2, <4>2
        <5>2. QED
          BY <2>3, <3>2, <4>1, <4>2, <5>1 DEF Covered
      <4>3. CASE first # Header
        <5>1. first \in Entry /\ first \in Nat
          BY <1>0, <2>1, <4>3
        <5>2. \A n \in Entry : n < first => n \notin linked
          BY <1>0, <2>2, <5>1
        <5>3. \A n \in Entry : n < first => Covered(r, n)'
          BY <2>3, <4>1, <5>2 DEF Covered
        <5>4. rpc'[r] = "visit" /\ cur'[r] = first /\ seen'[r] = {} /\ Entry' = Entry
          BY <2>3, <4>1, <4>3
        <5>5. QED
          BY <3>2, <5>1, <5>3, <5>4
      <4>4. QED
        BY <4>2, <4>3
    <3>3. QED
      BY <3>1, <3>2
  <2>5. QED
    BY <2>4 DEF WalkInv
<1>4. ASSUME NEW r \in Reader, Visit(r)
      PROVE  WalkInv'
  <2>1. /\ rpc[r] = "visit" /\ cur[r] \in linked
        /\ seen' = [seen EXCEPT ![r] = @ \cup {cur[r]}]
        /\ rpc' = [rpc EXCEPT ![r] = IF key[cur[r]] \in Replying THEN "done" ELSE "advance"]
        /\ UNCHANGED <<cur, started, key, linked>> /\ Entry' = Entry
    BY <1>4 DEF Visit, writerVars, Entry
  <2>2. ASSUME NEW q \in Reader
        PROVE  WalkInv!(q)'
    <3>1. CASE q # r
      BY <2>1, <3>1 DEF WalkInv, Covered, TypeOK
    <3>2. CASE q = r
      <4>1. /\ seen'[r] = seen[r] \cup {cur[r]} /\ cur'[r] = cur[r]
            /\ rpc'[r] = IF key[cur[r]] \in Replying THEN "done" ELSE "advance"
        BY <2>1 DEF TypeOK
      <4>2. /\ cur[r] \in Entry
            /\ \A m \in seen[r] : key[m] \notin Replying /\ m < cur[r]
            /\ \A n \in Entry : n < cur[r] => Covered(r, n)
        BY <2>1 DEF WalkInv
      <4>n. cur[r] \in Nat /\ \A n \in Entry : n \in Nat
        BY <1>0, <4>2
      <4>3. \A n \in Entry : n <= cur[r] => Covered(r, n)'
        <5>1. \A n \in Entry : Covered(r, n) => Covered(r, n)'
          BY <2>1, <4>1 DEF Covered
        <5>2. Covered(r, cur[r])'
          BY <2>1, <4>1 DEF Covered
        <5>3. \A n \in Entry : n <= cur[r] => n < cur[r] \/ n = cur[r]
          <6> TAKE n \in Entry
          <6>1. n \in Nat
            BY <4>n
          <6>2. QED
            BY <4>n, <6>1
        <5>4. QED
          BY <2>1, <4>2, <5>1, <5>2, <5>3
      <4>4. \A m \in seen'[r] : m <= cur[r] /\ m \in Nat
        <5>1. \A m \in seen[r] : m < cur[r] /\ m \in Nat
          BY <1>0, <4>2
        <5>2. QED
          BY <4>1, <4>n, <5>1
      <4>5. \A m, n \in seen'[r] : m < n => key[m] \notin Replying
        BY <1>0, <4>1, <4>2, <4>4
      <4>6. CASE key[cur[r]] \in Replying
        <5>1. \A n \in Entry : Covered(r, n)' \/ cur[r] < n
          <6> TAKE n \in Entry
          <6>1. n \in Nat
            BY <4>n
          <6>2. CASE n <= cur[r]
            BY <4>3, <6>2
          <6>3. CASE ~(n <= cur[r])
            BY <4>n, <6>1, <6>3
          <6>4. QED
            BY <6>2, <6>3
        <5>2. \A n \in Entry : Covered(r, n)' \/ \E m \in seen'[r] : m < n /\ key[m] \in Replying
          BY <4>1, <4>6, <5>1
        <5>3. QED
          BY <2>1, <3>2, <4>1, <4>5, <4>6, <5>2
      <4>7. CASE key[cur[r]] \notin Replying
        <5>1. \A m \in seen'[r] : key[m] \notin Replying
          BY <4>1, <4>2, <4>7
        <5>2. QED
          BY <2>1, <3>2, <4>1, <4>2, <4>3, <4>4, <4>5, <4>7, <5>1
      <4>8. QED
        BY <4>6, <4>7
    <3>3. QED
      BY <3>1, <3>2
  <2>3. QED
    BY <2>2 DEF WalkInv
<1>5. ASSUME NEW r \in Reader, Advance(r)
      PROVE  WalkInv'
  <2> DEFINE next == NextIn(cur[r], linked)
  <2>1. /\ rpc[r] = "advance" /\ cur[r] \in linked
        /\ cur' = [cur EXCEPT ![r] = next]
        /\ rpc' = [rpc EXCEPT ![r] = IF next = Header THEN "done" ELSE "visit"]
        /\ UNCHANGED <<seen, started, key, linked>> /\ Entry' = Entry
    BY <1>5 DEF Advance, MoveTo, writerVars, Entry
  <2>2. /\ next = Header => \A n \in linked : n <= cur[r]
        /\ next # Header => /\ next \in linked /\ next > cur[r]
                            /\ \A n \in linked : n > cur[r] => next <= n
    <3>1. cur[r] \in Nat
      BY <1>0, <2>1
    <3>2. next \in linked \cup {Header}
      BY <1>0, <3>1, NextInType
    <3>3. Later(cur[r], linked) = {} => \A n \in linked : n <= cur[r]
      <4>1. \A n \in linked : n \in Nat
        BY <1>0
      <4>2. QED
        BY <3>1, <4>1 DEF Later
    <3>4. Later(cur[r], linked) # {} => /\ next \in linked /\ next > cur[r]
                                       /\ \A n \in Later(cur[r], linked) : next <= n
      BY <1>0, <3>1, NextInLeast
    <3>5. Later(cur[r], linked) = {} => next = Header
      BY <1>0, <3>1, NextInLeast
    <3>6. Header \notin linked
      BY <1>0
    <3>7. QED
      BY <3>3, <3>4, <3>5, <3>6 DEF Later
  <2> HIDE DEF next
  <2>3. ASSUME NEW q \in Reader
        PROVE  WalkInv!(q)'
    <3>1. CASE q # r
      BY <2>1, <3>1 DEF WalkInv, Covered, TypeOK
    <3>2. CASE q = r
      <4>1. /\ cur'[r] = next
            /\ rpc'[r] = IF next = Header THEN "done" ELSE "visit"
        BY <2>1 DEF TypeOK
      <4>2. /\ cur[r] \in Entry
            /\ \A m \in seen[r] : key[m] \notin Replying /\ m <= cur[r]
            /\ \A n \in Entry : n <= cur[r] => Covered(r, n)
        BY <2>1 DEF WalkInv
      <4>3. \A n \in Entry : Covered(r, n)' <=> Covered(r, n)
        BY <2>1 DEF Covered
      <4>4. CASE next = Header
        <5>1. \A n \in Entry : Covered(r, n)
          BY <2>2, <4>2, <4>4 DEF Covered
        <5>2. QED
          BY <2>1, <3>2, <4>1, <4>2, <4>3, <4>4, <5>1 DEF WalkInv
      <4>5. CASE next # Header
        <5>1. next \in Entry /\ next \in Nat /\ cur[r] \in Nat /\ next > cur[r]
          BY <1>0, <2>1, <2>2, <4>5
        <5>2. \A n \in Entry : n < next => Covered(r, n)
          <6>1. ASSUME NEW n \in Entry, n < next, n \in linked
                PROVE  n <= cur[r]
            BY <1>0, <2>2, <4>5, <5>1, <6>1
          <6>2. QED
            BY <4>2, <6>1 DEF Covered
        <5>3. \A m \in seen[r] : m < next
          BY <1>0, <4>2, <5>1
        <5>4. QED
          BY <2>1, <3>2, <4>1, <4>2, <4>3, <4>5, <5>1, <5>2, <5>3 DEF WalkInv
      <4>6. QED
        BY <4>4, <4>5
    <3>3. QED
      BY <3>1, <3>2
  <2>4. QED
    BY <2>3 DEF WalkInv
<1>6. ASSUME NEW r \in Reader, UseAfterFree(r)
      PROVE  WalkInv'
  BY <1>6 DEF UseAfterFree, writerVars, WalkInv, Covered, TypeOK, Entry
<1>7. CASE UNCHANGED vars
  BY <1>7 DEF vars, WalkInv, Covered, Entry
<1>8. QED
  BY <1>1, <1>2, <1>3, <1>4, <1>5, <1>6, <1>7 DEF Next

(* A walk without the lock sees, in order and once, all that was in the    *)
(* list throughout, for any number of readers and writers.                 *)
THEOREM WalksAreComplete == Spec => []WalkIsComplete
<1>1. Init => TypeOK /\ WalkInv
  BY TypeInit DEF Init, WalkInv
<1>2. TypeOK /\ WalkInv /\ [Next]_vars => (TypeOK /\ WalkInv)'
  BY TypeStep, WalkStep
<1>3. TypeOK /\ WalkInv => WalkIsComplete
  BY DEF TypeOK, WalkInv, WalkIsComplete, Covered
<1>4. QED
  BY <1>1, <1>2, <1>3, PTL DEF Spec

(* At most one reply maker answers a message, and the earlier ones that    *)
(* were asked declined.                                                    *)
THEOREM OneMakerReplies == Spec => []FirstMakerReplies
<1>1. Init => TypeOK /\ WalkInv
  BY TypeInit DEF Init, WalkInv
<1>2. TypeOK /\ WalkInv /\ [Next]_vars => (TypeOK /\ WalkInv)'
  BY TypeStep, WalkStep
<1>3. WalkInv => FirstMakerReplies
  BY DEF WalkInv, FirstMakerReplies
<1>4. QED
  BY <1>1, <1>2, <1>3, PTL DEF Spec
=============================================================================
