----------------------------- MODULE StorageProofs -----------------------------
(***************************************************************************)
(* Theorems about what is stored once and must stay: the rows of earlier   *)
(* versions that a migration takes over, for any number of processes that  *)
(* open the store; the results that model calls were paid for, for any     *)
(* number of runs, sessions and faults; and what is stored of a conversation*)
(* of Antigravity, for any number of steps, calls and snapshots.           *)
(***************************************************************************)
EXTENDS StoreOpen, TranscriptEnrichment, AntigravityCapture, FiniteSetTheorems, WellFoundedInduction, TLAPS

(***************************************************************************)
(* Migrations.                                                             *)
(***************************************************************************)
OpenSteps == {"closed", "looking", "applying", "backfilling", "identifying", "media", "serving"}
OpenerStates == [step : OpenSteps, at : Nat \ {0}]

AllApplied == \A m \in 1..Migrations : applied[m] = 1
InOrder == \A m \in 1..Migrations : m > 1 /\ applied[m] = 1 => applied[m - 1] = 1

\* What a process that is at x has made sure of.
HasDone(x) ==
    /\ x.step \in {"looking", "applying"} => \A m \in 1..Migrations : m < x.at => applied[m] = 1
    /\ x.step = "applying" => x.at \in 1..Migrations
    /\ x.step \in {"backfilling", "identifying", "media", "serving"} => AllApplied
    /\ x.step \in {"media", "serving"} => "identity" \in backfilled
    /\ x.step = "serving" => "media" \in backfilled

OpeningInv ==
    /\ applied \in [1..Migrations -> 0..1]
    /\ openers \in [Openers -> OpenerStates]
    /\ InOrder
    /\ "media" \in backfilled => "identity" \in backfilled
    /\ \A o \in Openers : HasDone(openers[o])

LEMMA OpeningInit == ASSUME StoreAssumption, StoreInit PROVE OpeningInv
<1>1. applied \in [1..Migrations -> 0..1] /\ InOrder
  BY DEF StoreInit, StoreAssumption, InOrder
<1>2. Closed \in OpenerStates  BY DEF Closed, OpenerStates, OpenSteps
<1> QED  BY <1>1, <1>2 DEF StoreInit, OpeningInv, HasDone, Closed

\* One process moves; what was done stays done.
LEMMA OneMoves ==
  ASSUME OpeningInv, NEW o \in Openers, NEW x \in OpenerStates,
         openers' = [openers EXCEPT ![o] = x],
         applied' \in [1..Migrations -> 0..1],
         \A m \in 1..Migrations : applied[m] = 1 => applied'[m] = 1,
         backfilled \subseteq backfilled', InOrder', HasDone(x)',
         "media" \in backfilled' => "identity" \in backfilled'
  PROVE  OpeningInv'
<1>1. openers' \in [Openers -> OpenerStates]  BY DEF OpeningInv
<1>2. AllApplied => AllApplied'  BY DEF AllApplied
<1>3. \A p \in Openers : HasDone(openers[p])'
  <2> SUFFICES ASSUME NEW p \in Openers PROVE HasDone(openers[p])'  OBVIOUS
  <2>1. CASE p = o
    <3>1. openers'[p] = x  BY <2>1 DEF OpeningInv
    <3> QED  BY <3>1 DEF HasDone
  <2>2. CASE p # o
    <3>1. PICK y : y = openers[p]  OBVIOUS
    <3>2. openers'[p] = y  BY <2>2, <3>1 DEF OpeningInv
    <3>3. HasDone(y)  BY <3>1 DEF OpeningInv
    <3>4. HasDone(y)'  BY <1>2, <3>3 DEF HasDone
    <3> QED  BY <3>2, <3>4 DEF HasDone
  <2> QED  BY <2>1, <2>2
<1> QED  BY <1>1, <1>3 DEF OpeningInv

\* The same, where nothing else that matters changes.
LEMMA OneGoesOn ==
  ASSUME OpeningInv, NEW o \in Openers, NEW x \in OpenerStates,
         openers' = [openers EXCEPT ![o] = x], UNCHANGED applied,
         backfilled \subseteq backfilled', HasDone(x)',
         "media" \in backfilled' => "identity" \in backfilled'
  PROVE  OpeningInv'
<1>1. InOrder'  BY DEF OpeningInv, InOrder
<1> QED  BY <1>1, OneMoves DEF OpeningInv

LEMMA ClosedFits ==
  ASSUME OpeningInv, NEW o \in Openers, Fails(o), UNCHANGED <<applied, backfilled>>
  PROVE  OpeningInv'
<1>1. Closed \in OpenerStates /\ HasDone(Closed)'
  BY DEF Closed, OpenerStates, OpenSteps, HasDone
<1>2. openers' = [openers EXCEPT ![o] = Closed]  BY DEF Fails
<1> QED  BY <1>1, <1>2, OneGoesOn DEF OpeningInv

LEMMA OpeningStays ==
  ASSUME OpeningInv, UNCHANGED <<applied, openers, backfilled>>
  PROVE  OpeningInv'
BY DEF OpeningInv, InOrder, HasDone, AllApplied

LEMMA OpeningStep ==
  ASSUME StoreAssumption, OpeningInv, [StoreNext]_storeVars
  PROVE  OpeningInv'
<1>1. \A o \in Openers : openers[o] \in OpenerStates /\ HasDone(openers[o])
  BY DEF OpeningInv
<1>2. ASSUME NEW o \in Openers, Open(o)
      PROVE  OpeningInv'
  <2>1. PICK x : x = [step |-> "looking", at |-> 1]  OBVIOUS
  <2>2. x \in OpenerStates  BY <2>1 DEF OpenerStates, OpenSteps
  <2>3. openers' = [openers EXCEPT ![o] = x] /\ UNCHANGED <<applied, backfilled>>
    BY <1>2, <2>1 DEF Open
  <2>4. HasDone(x)'  BY <2>1 DEF HasDone
  <2> QED  BY <2>2, <2>3, <2>4, OneGoesOn DEF OpeningInv
<1>3. ASSUME NEW o \in Openers, Look(o)
      PROVE  OpeningInv'
  <2>1. PICK x : x = openers[o]  OBVIOUS
  <2>2. x \in OpenerStates /\ HasDone(x) /\ x.step = "looking" /\ UNCHANGED <<applied, backfilled>>
    BY <1>1, <1>3, <2>1 DEF Look
  <2>3. PICK y \in OpenerStates : openers' = [openers EXCEPT ![o] = y] /\ HasDone(y)
    <3>1. CASE x.at > Migrations
      <4>1. PICK y : y = [x EXCEPT !.step = "backfilling"]  OBVIOUS
      <4>2. y \in OpenerStates /\ y.step = "backfilling" /\ y.at = x.at
        BY <2>2, <4>1 DEF OpenerStates, OpenSteps
      <4>3. openers' = [openers EXCEPT ![o] = y]
        BY <1>3, <2>1, <3>1, <4>1 DEF Look, Proceeds, OpeningInv
      <4>4. AllApplied
        BY <2>2, <3>1 DEF HasDone, AllApplied, OpenerStates, StoreAssumption
      <4> QED  BY <4>2, <4>3, <4>4 DEF HasDone
    <3>2. CASE x.at <= Migrations /\ applied[x.at] = 0
      <4>1. PICK y : y = [x EXCEPT !.step = "applying"]  OBVIOUS
      <4>2. y \in OpenerStates /\ y.step = "applying" /\ y.at = x.at
        BY <2>2, <4>1 DEF OpenerStates, OpenSteps
      <4>3. openers' = [openers EXCEPT ![o] = y]
        BY <1>3, <2>1, <2>2, <3>2, <4>1 DEF Look, Proceeds, OpeningInv, OpenerStates, StoreAssumption
      <4>4. x.at \in 1..Migrations
        BY <2>2, <3>2 DEF OpenerStates, StoreAssumption
      <4> QED  BY <2>2, <4>2, <4>3, <4>4 DEF HasDone
    <3>3. CASE x.at <= Migrations /\ applied[x.at] # 0
      <4>1. PICK next \in Nat \ {0} : next = x.at + 1  BY <2>2 DEF OpenerStates
      <4>2. PICK y : y = [x EXCEPT !.at = next]  OBVIOUS
      <4>3. y \in OpenerStates /\ y.step = "looking" /\ y.at = next
        BY <2>2, <4>1, <4>2 DEF OpenerStates
      <4>4. openers' = [openers EXCEPT ![o] = y]
        BY <1>3, <2>1, <2>2, <3>3, <4>1, <4>2 DEF Look, OpeningInv, OpenerStates, StoreAssumption
      <4>5. applied[x.at] = 1
        BY <2>2, <3>3 DEF OpeningInv, OpenerStates, StoreAssumption
      <4>6. \A m \in 1..Migrations : m < next => applied[m] = 1
        BY <2>2, <4>1, <4>5 DEF HasDone, OpenerStates
      <4> QED  BY <4>3, <4>4, <4>6 DEF HasDone
    <3> QED  BY <2>2, <3>1, <3>2, <3>3 DEF OpenerStates, StoreAssumption
  <2>4. HasDone(y)'  BY <2>2, <2>3 DEF HasDone, AllApplied
  <2> QED  BY <2>2, <2>3, <2>4, OneGoesOn DEF OpeningInv
<1>4. ASSUME NEW o \in Openers, Apply(o)
      PROVE  OpeningInv'
  <2>1. PICK m : m = openers[o].at  OBVIOUS
  <2>2. m \in 1..Migrations /\ \A k \in 1..Migrations : k < m => applied[k] = 1
    BY <1>1, <1>4, <2>1 DEF Apply, HasDone
  <2>3. CASE applied[m] = 0
    <3>1. PICK next \in Nat \ {0} : next = m + 1  BY <2>2 DEF StoreAssumption
    <3>2. PICK x : x = [step |-> "looking", at |-> next]  OBVIOUS
    <3>3. /\ x \in OpenerStates /\ applied' = [applied EXCEPT ![m] = 1]
          /\ openers' = [openers EXCEPT ![o] = x] /\ UNCHANGED backfilled
      BY <1>4, <2>1, <2>2, <2>3, <3>1, <3>2 DEF Apply, OpenerStates, OpenSteps, OpeningInv
    <3>4. /\ applied' \in [1..Migrations -> 0..1] /\ applied'[m] = 1
          /\ \A k \in 1..Migrations : k # m => applied'[k] = applied[k]
      BY <2>2, <3>3 DEF OpeningInv
    <3>5. InOrder'
      <4> SUFFICES ASSUME NEW k \in 1..Migrations, k > 1, applied'[k] = 1
                   PROVE  applied'[k - 1] = 1
        BY DEF InOrder
      <4>1. k - 1 \in 1..Migrations  BY DEF StoreAssumption
      <4>2. CASE k = m
        <5>1. applied[k - 1] = 1  BY <2>2, <4>1, <4>2 DEF StoreAssumption
        <5> QED  BY <3>4, <4>1, <4>2, <5>1
      <4>3. CASE k # m
        <5>1. applied[k - 1] = 1  BY <3>4, <4>3 DEF OpeningInv, InOrder
        <5> QED  BY <3>4, <4>1, <5>1
      <4> QED  BY <4>2, <4>3
    <3>6. HasDone(x)'
      <4>1. \A k \in 1..Migrations : k < next => applied'[k] = 1
        BY <2>2, <3>1, <3>4 DEF StoreAssumption
      <4> QED  BY <3>2, <4>1 DEF HasDone
    <3>7. \A k \in 1..Migrations : applied[k] = 1 => applied'[k] = 1  BY <3>4
    <3> QED  BY <3>3, <3>4, <3>5, <3>6, <3>7, OneMoves DEF OpeningInv
  <2>4. CASE applied[m] # 0
    BY <1>4, <2>1, <2>4, ClosedFits DEF Apply
  <2> QED  BY <2>3, <2>4
<1>5. ASSUME NEW o \in Openers, NEW step \in {"media", "identifying"},
             openers[o].step = "backfilling", Proceeds(o, step),
             step = "media" => "identity" \in backfilled, UNCHANGED <<applied, backfilled>>
      PROVE  OpeningInv'
  <2>1. PICK x : x = openers[o]  OBVIOUS
  <2>2. PICK y : y = [x EXCEPT !.step = step]  OBVIOUS
  <2>3. y \in OpenerStates /\ y.step = step  BY <1>1, <2>1, <2>2 DEF OpenerStates, OpenSteps
  <2>4. openers' = [openers EXCEPT ![o] = y]
    BY <1>5, <2>1, <2>2 DEF Proceeds, OpeningInv
  <2>5. AllApplied  BY <1>1, <1>5 DEF HasDone
  <2>6. HasDone(y)'  BY <1>5, <2>3, <2>5 DEF HasDone, AllApplied
  <2> QED  BY <1>5, <2>3, <2>4, <2>6, OneGoesOn DEF OpeningInv
<1>6. ASSUME NEW o \in Openers, LookForIdentity(o)
      PROVE  OpeningInv'
  BY <1>5, <1>6 DEF LookForIdentity
<1>7. ASSUME NEW o \in Openers, Identify(o)
      PROVE  OpeningInv'
  <2>1. CASE Private \/ "identity" \in backfilled
    BY <1>7, <2>1, ClosedFits DEF Identify
  <2>2. CASE ~Private /\ "identity" \notin backfilled
    <3>1. PICK x : x = openers[o]  OBVIOUS
    <3>2. PICK y : y = [x EXCEPT !.step = "media"]  OBVIOUS
    <3>3. y \in OpenerStates /\ y.step = "media"  BY <1>1, <3>1, <3>2 DEF OpenerStates, OpenSteps
    <3>4. /\ openers' = [openers EXCEPT ![o] = y] /\ UNCHANGED applied
          /\ backfilled' = backfilled \cup {"identity"} /\ x.step = "identifying"
      BY <1>7, <2>2, <3>1, <3>2 DEF Identify, IdentifyRows, Proceeds, OpeningInv
    <3>5. AllApplied'  BY <1>1, <3>1, <3>4 DEF HasDone, AllApplied
    <3>6. HasDone(y)'  BY <3>3, <3>4, <3>5 DEF HasDone
    <3> QED  BY <3>3, <3>4, <3>6, OneGoesOn
  <2> QED  BY <2>1, <2>2
<1>8. ASSUME NEW o \in Openers, BackfillMedia(o)
      PROVE  OpeningInv'
  <2>1. PICK x : x = openers[o]  OBVIOUS
  <2>2. PICK y : y = [x EXCEPT !.step = "serving"]  OBVIOUS
  <2>3. y \in OpenerStates /\ y.step = "serving"  BY <1>1, <2>1, <2>2 DEF OpenerStates, OpenSteps
  <2>4. /\ openers' = [openers EXCEPT ![o] = y] /\ UNCHANGED applied /\ x.step = "media"
        /\ backfilled' = backfilled \cup {"media"}
    BY <1>8, <2>1, <2>2 DEF BackfillMedia, Proceeds, OpeningInv
  <2>5. "identity" \in backfilled /\ AllApplied'  BY <1>1, <2>1, <2>4 DEF HasDone, AllApplied
  <2>6. HasDone(y)'  BY <2>3, <2>4, <2>5 DEF HasDone
  <2> QED  BY <2>3, <2>4, <2>5, <2>6, OneGoesOn
<1>9. ASSUME NEW o \in Openers, NEW i \in Items, NEW m \in Materials, Capture(o, i, m)
      PROVE  OpeningInv'
  BY <1>9, OpeningStays DEF Capture
<1>10. ASSUME NEW o \in Openers, Close(o)
       PROVE  OpeningInv'
  BY <1>10, ClosedFits DEF Close
<1>11. CASE UNCHANGED storeVars
  BY <1>11, OpeningStays DEF storeVars
<1> QED  BY <1>2, <1>3, <1>4, <1>6, <1>7, <1>8, <1>9, <1>10, <1>11 DEF StoreNext

(***************************************************************************)
(* What the operators of the backfill give.                                *)
(***************************************************************************)
LEMMA LeastExists ==
  ASSUME NEW T \in SUBSET Nat, T # {}
  PROVE  \E x \in T : \A y \in T : x <= y
<1>1. PICK x \in T : \A y \in T : ~(<<y, x>> \in OpToRel(<, Nat))
  BY NatLessThanWellFounded, WFMin
<1>2. \A y \in T : ~(y < x)
  BY <1>1 DEF OpToRel
<1> QED  BY <1>2

LEMMA GreatestExists ==
  ASSUME NEW n \in Nat, NEW T \in SUBSET (1..n), T # {}
  PROVE  \E x \in T : \A y \in T : x >= y
<1>1. PICK Above : Above = {k \in Nat : \A y \in T : k >= y}  OBVIOUS
<1>2. n \in Above /\ Above \in SUBSET Nat  BY <1>1
<1>3. PICK k \in Above : \A j \in Above : k <= j  BY <1>2, LeastExists
<1>4. k \in T
  <2>1. SUFFICES ASSUME k \notin T PROVE FALSE  OBVIOUS
  <2>0. PICK y \in T : TRUE  OBVIOUS
  <2>2. y \in 1..n /\ y >= 1  BY <2>0
  <2>3. k \in Nat /\ k >= 1 /\ \A x \in T : k >= x /\ k # x  BY <1>1, <2>1, <2>2
  <2>4. k - 1 \in Above  BY <1>1, <2>3
  <2> QED  BY <1>3, <2>3, <2>4
<1> QED  BY <1>1, <1>4

\* The history found in the file.
Found == legacy \in Histories

LEMMA LegacyIsTyped ==
  ASSUME StoreAssumption, Found
  PROVE  /\ LegacyIds = 1..Len(legacy) /\ Len(legacy) \in Nat /\ LegacyIds \subseteq Nat
         /\ \A f \in LegacyIds : legacy[f].item \in Items /\ legacy[f].material \in Materials
         /\ Nothing \notin Ids /\ \A i \in Items : i \notin LegacyIds
<1>0. PICK S : S = [item : Items, material : Materials, private : BOOLEAN]  OBVIOUS
<1>1. legacy \in Seq(S)  BY <1>0 DEF StoreAssumption, Found
<1>2. LegacyIds = 1..Len(legacy) /\ Len(legacy) \in Nat  BY <1>1 DEF LegacyIds
<1>3. \A f \in LegacyIds : legacy[f].item \in Items /\ legacy[f].material \in Materials
  <2> SUFFICES ASSUME NEW f \in LegacyIds PROVE legacy[f] \in S  BY <1>0
  <2> QED  BY <1>1, <1>2
<1> QED  BY <1>2, <1>3 DEF StoreAssumption, Ids

LEMMA CanonicalIsARow ==
  ASSUME StoreAssumption, Found, NEW i \in Items, Rows(i) # {}
  PROVE  Canonical(i) \in LegacyIds /\ legacy[Canonical(i)].item = i
<1>1. Rows(i) \in SUBSET (1..Len(legacy)) /\ Len(legacy) \in Nat  BY LegacyIsTyped DEF Rows
<1>2. \E x \in Rows(i) : \A y \in Rows(i) : x >= y  BY <1>1, GreatestExists
<1>3. Canonical(i) \in Rows(i)  BY <1>2 DEF Canonical, Max
<1> QED  BY <1>3 DEF Rows

LEMMA FirstOfMaterial ==
  ASSUME StoreAssumption, Found, NEW i \in Items, NEW f \in Rows(i)
  PROVE  \E g \in Firsts(i) : legacy[g].material = legacy[f].material
<1>1. PICK Same : Same = {g \in Rows(i) : legacy[g].material = legacy[f].material}  OBVIOUS
<1>2. Same \in SUBSET Nat /\ Same # {}  BY <1>1, LegacyIsTyped DEF Rows
<1>3. PICK g \in Same : \A h \in Same : g <= h  BY <1>2, LeastExists
<1>4. g \in Rows(i) /\ legacy[g].material = legacy[f].material /\ g \in Nat  BY <1>1, <1>2
<1>5. \A h \in Rows(i) : h < g => legacy[h].material # legacy[g].material
  BY <1>1, <1>2, <1>3, <1>4
<1> QED  BY <1>4, <1>5 DEF Firsts

LEMMA FirstsDiffer ==
  ASSUME StoreAssumption, Found, NEW i \in Items, NEW f \in Firsts(i), NEW g \in Firsts(i),
         legacy[f].material = legacy[g].material
  PROVE  f = g
<1>1. f \in Nat /\ g \in Nat /\ f \in Rows(i) /\ g \in Rows(i)  BY LegacyIsTyped DEF Firsts, Rows
<1>2. ~(f < g) /\ ~(g < f)  BY <1>1 DEF Firsts
<1> QED  BY <1>1, <1>2

\* Ordinals of an item's legacy revisions rise with the rows, up to their number.
UpTo(i, f) == {g \in Firsts(i) : g <= f}

LEMMA OrdinalsRise ==
  ASSUME StoreAssumption, Found, NEW i \in Items
  PROVE  /\ IsFiniteSet(Firsts(i))
         /\ \A f \in Firsts(i) : Cardinality(UpTo(i, f)) \in Nat
                                 /\ Cardinality(UpTo(i, f)) <= Cardinality(Firsts(i))
         /\ \A f, g \in Firsts(i) : f < g => Cardinality(UpTo(i, f)) < Cardinality(UpTo(i, g))
<1>1. Firsts(i) \in SUBSET LegacyIds /\ IsFiniteSet(LegacyIds) /\ LegacyIds \subseteq Nat
  BY LegacyIsTyped, FS_Interval DEF Firsts, Rows
<1>2. IsFiniteSet(Firsts(i))  BY <1>1, FS_Subset
<1>3. ASSUME NEW f \in Firsts(i)
      PROVE  /\ Cardinality(UpTo(i, f)) \in Nat /\ IsFiniteSet(UpTo(i, f))
             /\ Cardinality(UpTo(i, f)) <= Cardinality(Firsts(i))
  <2>1. UpTo(i, f) \in SUBSET Firsts(i)  BY DEF UpTo
  <2> QED  BY <1>2, <2>1, FS_Subset, FS_CardinalityType
<1>4. ASSUME NEW f \in Firsts(i), NEW g \in Firsts(i), f < g
      PROVE  Cardinality(UpTo(i, f)) < Cardinality(UpTo(i, g))
  <2>1. f \in Nat /\ g \in Nat  BY <1>1
  <2>a. \A h \in Firsts(i) : h <= f => h <= g  BY <1>1, <1>4, <2>1
  <2>b. g <= g /\ ~(g <= f)  BY <1>4, <2>1
  <2>2. UpTo(i, f) \in SUBSET UpTo(i, g) /\ g \in UpTo(i, g) /\ g \notin UpTo(i, f)
    BY <2>a, <2>b DEF UpTo
  <2>3. /\ Cardinality(UpTo(i, f)) <= Cardinality(UpTo(i, g))
        /\ Cardinality(UpTo(i, f)) # Cardinality(UpTo(i, g))
    BY <1>3, <2>2, FS_Subset
  <2> QED  BY <1>3, <2>3
<1> QED  BY <1>2, <1>3, <1>4

(***************************************************************************)
(* The rows.                                                               *)
(***************************************************************************)
RevisionRows == [fragment : Ids, material : Materials, ordinal : Nat, legacy : LegacyIds \cup {Nothing}]
RowTypes ==
    /\ Found
    /\ identities \in [Items -> Ids \cup {Nothing}]
    /\ aliases \in [Ids -> Ids]
    /\ current \in [Ids -> Materials \cup {Nothing}]
    /\ taken \in [Items -> Seq(Materials)]
    /\ IsFiniteSet(revisions) /\ revisions \subseteq RevisionRows

\* Before the identity backfill there is only what was found.
NothingYet ==
    /\ revisions = {}
    /\ \A i \in Items : identities[i] = Nothing

\* After it every row that was found is somewhere.
Resolved ==
    /\ \A i \in Items :
          identities[i] \in (IF Rows(i) # {} THEN {Canonical(i)} ELSE {Nothing, i})
    /\ \A i \in Items : \A f \in Rows(i) :
          /\ aliases[f] = Canonical(i)
          /\ \E r \in revisions : r.fragment = Canonical(i) /\ r.material = legacy[f].material
    /\ \A i \in Items : identities[i] # Nothing => current[identities[i]] = LastOf(i)

\* Revisions differ in their material, and are numbered as they were observed.
RevisionsOf(f) == {r \in revisions : r.fragment = f}
OneOfEach == \A r, s \in revisions : r.fragment = s.fragment /\ r.material = s.material => r = s
Numbered ==
    /\ \A r \in revisions : r.ordinal <= Cardinality(RevisionsOf(r.fragment))
    /\ \A r, s \in revisions : r.fragment = s.fragment /\ r.legacy # Nothing
           /\ (s.legacy = Nothing \/ r.legacy < s.legacy) /\ r # s => r.ordinal < s.ordinal

\* Before the media backfill nothing was captured and no attachment is placed.
Unplaced ==
    /\ refs = {}
    /\ \A i \in Items : taken[i] = <<>>
    /\ \A f \in LegacyIds : attachments[f] = 1..MediaIn[legacy[f].material]
    /\ \A r \in revisions : r.legacy \in LegacyIds /\ r.material = legacy[r.legacy].material

\* After it every revision has the media of its material.
RefsOf(fragment, material) == {x \in refs : x.fragment = fragment /\ x.material = material}
MediaRefs(fragment, material, by) ==
    {[fragment |-> fragment, material |-> material, position |-> p, by |-> by] : p \in 1..MediaIn[material]}
Placed ==
    /\ \A r \in revisions : \E by \in {"backfill", "capture"} :
          RefsOf(r.fragment, r.material) = MediaRefs(r.fragment, r.material, by)
    /\ \A x \in refs : \E r \in revisions : r.fragment = x.fragment /\ r.material = x.material

RowsInv ==
    /\ RowTypes /\ OneOfEach /\ Numbered
    /\ "identity" \notin backfilled => NothingYet
    /\ "identity" \in backfilled => Resolved
    /\ "media" \notin backfilled => Unplaced
    /\ "media" \in backfilled => Placed

LEMMA RowsInit == ASSUME StoreAssumption, StoreInit PROVE RowsInv
<1>1. Found /\ backfilled = {} /\ revisions = {} /\ refs = {}  BY DEF StoreInit, Found
<1>2. RowTypes
  <2>1. identities \in [Items -> Ids \cup {Nothing}] /\ aliases \in [Ids -> Ids]
        /\ current \in [Ids -> Materials \cup {Nothing}]
    BY DEF StoreInit
  <2>2. taken \in [Items -> Seq(Materials)]
    <3>1. <<>> \in Seq(Materials)  OBVIOUS
    <3> QED  BY <3>1 DEF StoreInit
  <2>3. IsFiniteSet(revisions)  BY <1>1, FS_EmptySet
  <2> QED  BY <1>1, <2>1, <2>2, <2>3 DEF RowTypes
<1>3. NothingYet  BY DEF StoreInit, NothingYet
<1>4. Unplaced
  <2>1. \A f \in LegacyIds : attachments[f] = 1..MediaIn[legacy[f].material]
    BY DEF StoreInit, Ids
  <2> QED  BY <1>1, <2>1 DEF StoreInit, Unplaced
<1> QED  BY <1>1, <1>2, <1>3, <1>4 DEF RowsInv, OneOfEach, Numbered

\* What leaves the rows alone.
LEMMA RowsStay ==
  ASSUME RowsInv, UNCHANGED <<legacy, backfilled, rowsOfStore>>
  PROVE  RowsInv'
<1>1. UNCHANGED <<legacy, backfilled, identities, aliases, revisions, current, attachments, refs, taken>>
  BY DEF rowsOfStore
<1>2. RowTypes'  BY <1>1 DEF RowsInv, RowTypes, Found, Ids, LegacyIds, RevisionRows
<1>3. OneOfEach' /\ Numbered'  BY <1>1 DEF RowsInv, OneOfEach, Numbered, RevisionsOf
<1>4. "identity" \notin backfilled' => NothingYet'  BY <1>1 DEF RowsInv, NothingYet
<1>5. "identity" \in backfilled' => Resolved'
  <2> SUFFICES ASSUME Resolved PROVE Resolved'  BY <1>1 DEF RowsInv
  <2>1. \A i \in Items : Rows(i)' = Rows(i)  BY <1>1 DEF Rows, LegacyIds
  <2>2. \A i \in Items : Canonical(i)' = Canonical(i)  BY <1>1 DEF Canonical, Rows, LegacyIds
  <2>3. \A i \in Items : LastOf(i)' = LastOf(i)  BY <1>1, <2>1, <2>2 DEF LastOf
  <2>4. \A i \in Items :
            identities'[i] \in (IF Rows(i)' # {} THEN {Canonical(i)'} ELSE {Nothing, i})
    BY <1>1, <2>1, <2>2 DEF Resolved
  <2>5. \A i \in Items : identities'[i] # Nothing => current'[identities'[i]] = LastOf(i)'
    BY <1>1, <2>3 DEF Resolved
  <2>6. \A i \in Items : \A f \in Rows(i)' :
          /\ aliases'[f] = Canonical(i)'
          /\ \E r \in revisions' : r.fragment = Canonical(i)' /\ r.material = legacy'[f].material
    BY <1>1, <2>1, <2>2 DEF Resolved
  <2> QED  BY <2>4, <2>5, <2>6 DEF Resolved
<1>6. "media" \notin backfilled' => Unplaced'
  BY <1>1 DEF RowsInv, Unplaced, LegacyIds
<1>7. "media" \in backfilled' => Placed'
  <2> SUFFICES ASSUME Placed PROVE Placed'  BY <1>1 DEF RowsInv
  <2>1. \A a, b : RefsOf(a, b)' = RefsOf(a, b)  BY <1>1 DEF RefsOf
  <2> QED  BY <1>1, <2>1 DEF Placed, MediaRefs
<1> QED  BY <1>2, <1>3, <1>4, <1>5, <1>6, <1>7 DEF RowsInv

(***************************************************************************)
(* The identity backfill.                                                  *)
(***************************************************************************)
RevisionOfRow(i, f) ==
    [fragment |-> Canonical(i), material |-> legacy[f].material,
     ordinal |-> Cardinality(UpTo(i, f)), legacy |-> f]
LegacyRevisions == UNION {Revisions(i) : i \in HasRows}

LEMMA RevisionsAre ==
  ASSUME NEW i \in Items
  PROVE  Revisions(i) = {RevisionOfRow(i, f) : f \in Firsts(i)}
BY DEF Revisions, RevisionOfRow, UpTo

\* A legacy revision is that of one row of one item.
LEMMA LegacyRevision ==
  ASSUME StoreAssumption, Found, NEW r \in LegacyRevisions
  PROVE  \E i \in Items, f \in LegacyIds :
            /\ f \in Firsts(i) /\ Rows(i) # {}
            /\ r.fragment = Canonical(i) /\ r.material = legacy[f].material
            /\ r.ordinal = Cardinality(UpTo(i, f)) /\ r.legacy = f
            /\ r = RevisionOfRow(i, f)
<1>1. PICK i \in HasRows : r \in Revisions(i)  BY DEF LegacyRevisions
<1>2. i \in Items /\ Rows(i) # {}  BY <1>1 DEF HasRows
<1>3. PICK f \in Firsts(i) : r = RevisionOfRow(i, f)  BY <1>1, <1>2, RevisionsAre
<1>4. f \in LegacyIds  BY <1>3 DEF Firsts, Rows
<1> QED  BY <1>2, <1>3, <1>4 DEF RevisionOfRow

LEMMA OneItemPerFragment ==
  ASSUME StoreAssumption, Found, NEW i \in Items, NEW j \in Items, Rows(i) # {}, Rows(j) # {},
         Canonical(i) = Canonical(j)
  PROVE  i = j
BY CanonicalIsARow

LEMMA LegacyRevisionsFit ==
  ASSUME StoreAssumption, Found
  PROVE  /\ IsFiniteSet(LegacyRevisions) /\ LegacyRevisions \subseteq RevisionRows
         /\ \A r, s \in LegacyRevisions : r.fragment = s.fragment /\ r.material = s.material => r = s
         /\ \A r, s \in LegacyRevisions :
               r.fragment = s.fragment /\ r.legacy < s.legacy => r.ordinal < s.ordinal
         /\ \A r \in LegacyRevisions :
               r.ordinal <= Cardinality({s \in LegacyRevisions : s.fragment = r.fragment})
<1>1. \A r, s \in LegacyRevisions : r.fragment = s.fragment /\ r.material = s.material => r = s
  <2> SUFFICES ASSUME NEW r \in LegacyRevisions, NEW s \in LegacyRevisions,
                      r.fragment = s.fragment, r.material = s.material
               PROVE  r = s
    OBVIOUS
  <2>1. PICK i \in Items, f \in LegacyIds :
           f \in Firsts(i) /\ Rows(i) # {} /\ r.fragment = Canonical(i)
           /\ r.material = legacy[f].material /\ r = RevisionOfRow(i, f)
    BY LegacyRevision
  <2>2. PICK j \in Items, g \in LegacyIds :
           g \in Firsts(j) /\ Rows(j) # {} /\ s.fragment = Canonical(j)
           /\ s.material = legacy[g].material /\ s = RevisionOfRow(j, g)
    BY LegacyRevision
  <2>3. i = j  BY <2>1, <2>2, OneItemPerFragment
  <2>4. f = g  BY <2>1, <2>2, <2>3, FirstsDiffer
  <2> QED  BY <2>1, <2>2, <2>3, <2>4
<1>2. \A r, s \in LegacyRevisions :
          r.fragment = s.fragment /\ r.legacy < s.legacy => r.ordinal < s.ordinal
  <2> SUFFICES ASSUME NEW r \in LegacyRevisions, NEW s \in LegacyRevisions,
                      r.fragment = s.fragment, r.legacy < s.legacy
               PROVE  r.ordinal < s.ordinal
    OBVIOUS
  <2>1. PICK i \in Items, f \in LegacyIds :
           f \in Firsts(i) /\ Rows(i) # {} /\ r.fragment = Canonical(i)
           /\ r.legacy = f /\ r.ordinal = Cardinality(UpTo(i, f))
    BY LegacyRevision
  <2>2. PICK j \in Items, g \in LegacyIds :
           g \in Firsts(j) /\ Rows(j) # {} /\ s.fragment = Canonical(j)
           /\ s.legacy = g /\ s.ordinal = Cardinality(UpTo(j, g))
    BY LegacyRevision
  <2>3. i = j  BY <2>1, <2>2, OneItemPerFragment
  <2> QED  BY <2>1, <2>2, <2>3, OrdinalsRise
<1>3. IsFiniteSet(LegacyRevisions) /\ LegacyRevisions \subseteq RevisionRows
  <2>1. ASSUME NEW r \in LegacyRevisions
        PROVE  r \in RevisionRows
    <3>1. PICK i \in Items, f \in LegacyIds :
             f \in Firsts(i) /\ Rows(i) # {} /\ r = RevisionOfRow(i, f)
      BY LegacyRevision
    <3>2. Canonical(i) \in Ids  BY <3>1, CanonicalIsARow DEF Ids
    <3>3. legacy[f].material \in Materials  BY LegacyIsTyped
    <3>4. Cardinality(UpTo(i, f)) \in Nat  BY <3>1, OrdinalsRise
    <3> QED  BY <3>1, <3>2, <3>3, <3>4 DEF RevisionOfRow, RevisionRows
  <2>2. PICK N : N = LegacyIds  OBVIOUS
  <2>3. PICK f : f = [r \in LegacyRevisions |-> r.legacy]  OBVIOUS
  <2>4. \A r \in LegacyRevisions : r.legacy \in N
    <3> SUFFICES ASSUME NEW r \in LegacyRevisions PROVE r.legacy \in LegacyIds  BY <2>2
    <3> QED  BY LegacyRevision
  <2>5. \A r, s \in LegacyRevisions : r.legacy = s.legacy => r = s
    <3> SUFFICES ASSUME NEW r \in LegacyRevisions, NEW s \in LegacyRevisions, r.legacy = s.legacy
                 PROVE  r = s
      OBVIOUS
    <3>1. PICK i \in Items, g \in LegacyIds :
             g \in Firsts(i) /\ r.legacy = g /\ r = RevisionOfRow(i, g)
      BY LegacyRevision
    <3>2. PICK j \in Items, h \in LegacyIds :
             h \in Firsts(j) /\ s.legacy = h /\ s = RevisionOfRow(j, h)
      BY LegacyRevision
    <3>3. i = j  BY <3>1, <3>2 DEF Firsts, Rows
    <3> QED  BY <3>1, <3>2, <3>3
  <2>6. f \in Injection(LegacyRevisions, N)
    BY <2>3, <2>4, <2>5 DEF Injection, IsInjective
  <2>7. IsFiniteSet(N)  BY <2>2, LegacyIsTyped, FS_Interval
  <2> QED  BY <2>1, <2>6, <2>7, FS_Injection
<1>4. \A r \in LegacyRevisions :
          r.ordinal <= Cardinality({s \in LegacyRevisions : s.fragment = r.fragment})
  <2> SUFFICES ASSUME NEW r \in LegacyRevisions
               PROVE  r.ordinal <= Cardinality({s \in LegacyRevisions : s.fragment = r.fragment})
    OBVIOUS
  <2>1. PICK i \in Items, f \in LegacyIds :
           f \in Firsts(i) /\ Rows(i) # {} /\ r.fragment = Canonical(i)
           /\ r.ordinal = Cardinality(UpTo(i, f))
    BY LegacyRevision
  <2>2. PICK R : R = {s \in LegacyRevisions : s.fragment = r.fragment}  OBVIOUS
  <2>3. IsFiniteSet(R) /\ Cardinality(R) \in Nat
    BY <1>3, <2>2, FS_Subset, FS_CardinalityType
  <2>4. PICK S : S = Firsts(i)  OBVIOUS
  <2>5. PICK g : g = [h \in S |-> RevisionOfRow(i, h)]  OBVIOUS
  <2>6. \A h \in S : RevisionOfRow(i, h) \in R /\ RevisionOfRow(i, h).legacy = h
    <3> SUFFICES ASSUME NEW h \in S
                 PROVE  RevisionOfRow(i, h) \in R /\ RevisionOfRow(i, h).legacy = h
      OBVIOUS
    <3>1. RevisionOfRow(i, h) \in Revisions(i)  BY <2>4, RevisionsAre
    <3>2. i \in HasRows  BY <2>1 DEF HasRows
    <3>3. RevisionOfRow(i, h) \in LegacyRevisions  BY <3>1, <3>2 DEF LegacyRevisions
    <3>4. RevisionOfRow(i, h).fragment = Canonical(i) /\ RevisionOfRow(i, h).legacy = h
      BY DEF RevisionOfRow
    <3> QED  BY <2>1, <2>2, <3>3, <3>4
  <2>7. g \in Injection(S, R)
    <3>1. g \in [S -> R]  BY <2>5, <2>6
    <3>2. \A a, b \in S : g[a] = g[b] => a = b  BY <2>5, <2>6
    <3> QED  BY <3>1, <3>2 DEF Injection, IsInjective
  <2>8. Cardinality(S) <= Cardinality(R) /\ IsFiniteSet(S)  BY <2>3, <2>7, FS_Injection
  <2>9. r.ordinal <= Cardinality(S) /\ r.ordinal \in Nat  BY <2>1, <2>4, OrdinalsRise
  <2>10. Cardinality(S) \in Nat  BY <2>8, FS_CardinalityType
  <2> QED  BY <2>2, <2>3, <2>8, <2>9, <2>10
<1> QED  BY <1>1, <1>2, <1>3, <1>4

LEMMA SameHistory ==
  ASSUME UNCHANGED legacy
  PROVE  /\ LegacyIds' = LegacyIds /\ Ids' = Ids /\ Found' = Found
         /\ \A i \in Items : Rows(i)' = Rows(i) /\ Canonical(i)' = Canonical(i)
         /\ RevisionRows' = RevisionRows
<1>1. LegacyIds' = LegacyIds  BY DEF LegacyIds
<1>2. Ids' = Ids  BY <1>1 DEF Ids
<1>3. \A i \in Items : Rows(i)' = Rows(i)  BY <1>1 DEF Rows
<1>4. \A i \in Items : Canonical(i)' = Canonical(i)  BY <1>3 DEF Canonical
<1>5. RevisionRows' = RevisionRows  BY <1>1, <1>2 DEF RevisionRows
<1> QED  BY <1>1, <1>2, <1>3, <1>4, <1>5 DEF Found

LEMMA IdentifyStep ==
  ASSUME StoreAssumption, OpeningInv, RowsInv, NEW o \in Openers, Identify(o)
  PROVE  RowsInv'
<1>1. CASE Private \/ "identity" \in backfilled
  BY <1>1, RowsStay DEF Identify
<1>2. CASE ~Private /\ "identity" \notin backfilled
  <2>1. IdentifyRows(o) /\ UNCHANGED <<legacy, attachments, refs, taken>>
        /\ backfilled' = backfilled \cup {"identity"}
    BY <1>2 DEF Identify, IdentifyRows
  <2>2. /\ RowTypes /\ NothingYet /\ Unplaced /\ Found
        /\ "media" \notin backfilled' /\ "identity" \in backfilled'
    BY <1>2, <2>1 DEF OpeningInv, RowsInv, RowTypes
  <2>3. revisions' = LegacyRevisions
    BY <2>1, <2>2 DEF IdentifyRows, NothingYet, LegacyRevisions
  <2>4. /\ LegacyIds' = LegacyIds /\ Ids' = Ids /\ Found'
        /\ RevisionRows' = RevisionRows
        /\ \A i \in Items : Rows(i)' = Rows(i) /\ Canonical(i)' = Canonical(i)
    BY <2>1, <2>2, SameHistory
  <2>5. \A i \in Items : identities'[i] = IF Rows(i) # {} THEN Canonical(i) ELSE Nothing
    BY <2>1, <2>2 DEF IdentifyRows, HasRows, NothingYet
  <2>6. \A i \in Items : \A f \in Rows(i) :
          aliases'[f] = Canonical(i) /\ current'[f] = legacy[f].material
    <3> SUFFICES ASSUME NEW i \in Items, NEW f \in Rows(i)
                 PROVE  aliases'[f] = Canonical(i) /\ current'[f] = legacy[f].material
      OBVIOUS
    <3>1. f \in LegacyIds /\ f \in Ids /\ legacy[f].item = i  BY DEF Rows, Ids
    <3> QED  BY <2>1, <3>1 DEF IdentifyRows, Select
  <2>7. RowTypes'
    <3>1. identities' \in [Items -> Ids \cup {Nothing}]
      <4>1. \A i \in Items : Rows(i) # {} => Canonical(i) \in Ids
        BY <2>2, CanonicalIsARow DEF Ids
      <4>2. \E g : identities' = [i \in Items |-> g[i]]  BY <2>1 DEF IdentifyRows
      <4> QED  BY <2>5, <4>1, <4>2
    <3>2. aliases' \in [Ids -> Ids]
      <4>1. \A f \in LegacyIds : Canonical(legacy[f].item) \in Ids
        <5> SUFFICES ASSUME NEW f \in LegacyIds PROVE Canonical(legacy[f].item) \in Ids  OBVIOUS
        <5>1. PICK i \in Items : i = legacy[f].item  BY <2>2, LegacyIsTyped
        <5>2. f \in Rows(i)  BY <5>1 DEF Rows
        <5> QED  BY <2>2, <5>1, <5>2, CanonicalIsARow DEF Ids
      <4> QED  BY <2>1, <2>2, <4>1 DEF IdentifyRows, RowTypes
    <3>3. current' \in [Ids -> Materials \cup {Nothing}]
      BY <2>1, <2>2, LegacyIsTyped DEF IdentifyRows, RowTypes, Select
    <3>4. taken' \in [Items -> Seq(Materials)]  BY <2>1, <2>2 DEF RowTypes
    <3>5. IsFiniteSet(revisions') /\ revisions' \subseteq RevisionRows
      BY <2>2, <2>3, LegacyRevisionsFit
    <3> QED  BY <2>4, <3>1, <3>2, <3>3, <3>4, <3>5 DEF RowTypes
  <2>8. OneOfEach'  BY <2>2, <2>3, LegacyRevisionsFit DEF OneOfEach
  <2>9. \A r \in LegacyRevisions : r.legacy \in LegacyIds /\ r.material = legacy[r.legacy].material
    <3> SUFFICES ASSUME NEW r \in LegacyRevisions
                 PROVE  r.legacy \in LegacyIds /\ r.material = legacy[r.legacy].material
      OBVIOUS
    <3>1. PICK i \in Items, f \in LegacyIds : r.material = legacy[f].material /\ r.legacy = f
      BY <2>2, LegacyRevision
    <3> QED  BY <3>1
  <2>10. Numbered'
    <3>1. \A r \in LegacyRevisions : r.legacy # Nothing
      BY <2>2, <2>9, LegacyIsTyped DEF Ids
    <3>2. \A f : RevisionsOf(f)' = {s \in LegacyRevisions : s.fragment = f}
      BY <2>3 DEF RevisionsOf
    <3> QED  BY <2>2, <2>3, <3>1, <3>2, LegacyRevisionsFit DEF Numbered
  <2>11. Resolved'
    <3>1. \A i \in Items : identities'[i] \in (IF Rows(i) # {} THEN {Canonical(i)} ELSE {Nothing, i})
      BY <2>5
    <3>2. \A i \in Items : \A f \in Rows(i) :
             \E r \in revisions' : r.fragment = Canonical(i) /\ r.material = legacy[f].material
      <4> SUFFICES ASSUME NEW i \in Items, NEW f \in Rows(i)
                   PROVE  \E r \in LegacyRevisions :
                             r.fragment = Canonical(i) /\ r.material = legacy[f].material
        BY <2>3
      <4>1. PICK g \in Firsts(i) : legacy[g].material = legacy[f].material
        BY <2>2, FirstOfMaterial
      <4>2. i \in HasRows /\ RevisionOfRow(i, g) \in Revisions(i)  BY RevisionsAre DEF HasRows
      <4>3. RevisionOfRow(i, g) \in LegacyRevisions  BY <4>2 DEF LegacyRevisions
      <4> QED  BY <4>1, <4>3 DEF RevisionOfRow
    <3>3. \A i \in Items : identities'[i] # Nothing => current'[identities'[i]] = LastOf(i)'
      <4> SUFFICES ASSUME NEW i \in Items, identities'[i] # Nothing
                   PROVE  current'[identities'[i]] = LastOf(i)'
        OBVIOUS
      <4>1. Rows(i) # {} /\ identities'[i] = Canonical(i)  BY <2>5
      <4>2. Canonical(i) \in Rows(i)  BY <2>2, <4>1, CanonicalIsARow DEF Rows
      <4>3. current'[Canonical(i)] = legacy[Canonical(i)].material  BY <2>6, <4>2
      <4>4. taken'[i] = <<>>  BY <2>1, <2>2 DEF Unplaced
      <4>5. LastOf(i)' = legacy[Canonical(i)].material  BY <2>1, <2>4, <4>1, <4>4 DEF LastOf
      <4> QED  BY <4>1, <4>3, <4>5
    <3>4. \A i \in Items : identities'[i] \in (IF Rows(i)' # {} THEN {Canonical(i)'} ELSE {Nothing, i})
      BY <2>4, <3>1
    <3>5. \A i \in Items : \A f \in Rows(i)' :
             /\ aliases'[f] = Canonical(i)'
             /\ \E r \in revisions' : r.fragment = Canonical(i)' /\ r.material = legacy'[f].material
      <4> SUFFICES ASSUME NEW i \in Items, NEW f \in Rows(i)
                   PROVE  /\ aliases'[f] = Canonical(i)
                          /\ \E r \in revisions' :
                                r.fragment = Canonical(i) /\ r.material = legacy[f].material
        BY <2>1, <2>4
      <4>1. aliases'[f] = Canonical(i)  BY <2>6
      <4>2. \E r \in revisions' : r.fragment = Canonical(i) /\ r.material = legacy[f].material
        BY <3>2
      <4> QED  BY <4>1, <4>2
    <3> QED  BY <3>3, <3>4, <3>5 DEF Resolved
  <2>12. Unplaced'  BY <2>1, <2>2, <2>3, <2>4, <2>9 DEF Unplaced
  <2> QED  BY <2>2, <2>7, <2>8, <2>10, <2>11, <2>12 DEF RowsInv
<1> QED  BY <1>1, <1>2

(***************************************************************************)
(* The media backfill.                                                     *)
(***************************************************************************)
LEMMA BackfillStep ==
  ASSUME StoreAssumption, OpeningInv, RowsInv, NEW o \in Openers, BackfillMedia(o)
  PROVE  RowsInv'
<1>1. UNCHANGED <<legacy, identities, aliases, revisions, current, attachments, taken>>
  BY DEF BackfillMedia
<1>2. CASE "media" \in backfilled
  BY <1>1, <1>2, RowsStay DEF BackfillMedia, rowsOfStore
<1>3. CASE "media" \notin backfilled
  <2>1. "identity" \in backfilled  BY DEF OpeningInv, HasDone, BackfillMedia
  <2>2. RowTypes /\ Resolved /\ Unplaced /\ OneOfEach /\ Numbered /\ Found
    BY <1>3, <2>1 DEF RowsInv, RowTypes
  <2>3. backfilled' = backfilled \cup {"media"}
        /\ refs' = UNION {Backfilled(f) : f \in Projected}
    <3>1. \A r : ~Taken(r)  BY <2>2 DEF Taken, Unplaced
    <3> QED  BY <1>3, <2>2, <3>1 DEF BackfillMedia, Unplaced
  <2>4. RowTypes' /\ OneOfEach' /\ Numbered' /\ Resolved'
    <3>1. RowTypes'
      BY <1>1, <2>2, SameHistory DEF RowTypes
    <3>2. OneOfEach' /\ Numbered'  BY <1>1, <2>2 DEF OneOfEach, Numbered, RevisionsOf
    <3>3. \A i \in Items : Rows(i)' = Rows(i) /\ Canonical(i)' = Canonical(i)
      BY <1>1, SameHistory
    <3>4. \A i \in Items : LastOf(i)' = LastOf(i)  BY <1>1, <3>3 DEF LastOf
    <3>5. Resolved'  BY <1>1, <2>2, <3>3, <3>4 DEF Resolved
    <3> QED  BY <3>1, <3>2, <3>5
  \* Every reference is to a revision of the row it comes from.
  <2>5. ASSUME NEW x
        PROVE  x \in refs' <=> \E r \in revisions :
                                 x \in MediaRefs(r.fragment, r.material, "backfill")
    <3>1. \A r \in revisions : r.legacy \in LegacyIds /\ r.legacy \in Projected
                               /\ attachments[r.legacy] = 1..MediaIn[r.material]
      BY <2>2 DEF Unplaced, Projected, Ids
    <3>2. ASSUME NEW r \in revisions
          PROVE  RevisionOf(r.legacy) = {s \in revisions : s.legacy = r.legacy}
      BY DEF RevisionOf
    <3>3. ASSUME NEW f \in Projected, NEW r \in RevisionOf(f)
          PROVE  r \in revisions /\ r.legacy = f
      BY <2>2, LegacyIsTyped DEF RevisionOf, Unplaced, Ids
    <3>4. ASSUME x \in refs'
          PROVE  \E r \in revisions : x \in MediaRefs(r.fragment, r.material, "backfill")
      <4>1. PICK f \in Projected : x \in Backfilled(f)  BY <2>3, <3>4
      <4>2. PICK r \in RevisionOf(f), p \in attachments[f] :
               x = [fragment |-> r.fragment, material |-> r.material, position |-> p, by |-> "backfill"]
        BY <4>1 DEF Backfilled
      <4>3. r \in revisions /\ p \in 1..MediaIn[r.material]  BY <3>1, <3>3, <4>2
      <4> QED  BY <4>2, <4>3 DEF MediaRefs
    <3>5. ASSUME NEW r \in revisions, x \in MediaRefs(r.fragment, r.material, "backfill")
          PROVE  x \in refs'
      <4>1. PICK p \in 1..MediaIn[r.material] :
               x = [fragment |-> r.fragment, material |-> r.material, position |-> p, by |-> "backfill"]
        BY <3>5 DEF MediaRefs
      <4>2. PICK f : f = r.legacy  OBVIOUS
      <4>3. f \in Projected /\ r \in RevisionOf(f) /\ p \in attachments[f]  BY <3>1, <3>2, <4>1, <4>2
      <4>4. x \in Backfilled(f)  BY <4>1, <4>3 DEF Backfilled
      <4> QED  BY <2>3, <4>3, <4>4
    <3> QED  BY <3>4, <3>5
  <2>6. Placed'
    <3>1. ASSUME NEW r \in revisions
          PROVE  RefsOf(r.fragment, r.material)' = MediaRefs(r.fragment, r.material, "backfill")
      <4>1. PICK a, b : a = r.fragment /\ b = r.material  OBVIOUS
      <4>2. \A s \in revisions : \A x \in MediaRefs(s.fragment, s.material, "backfill") :
              x.fragment = s.fragment /\ x.material = s.material
        BY DEF MediaRefs
      <4>3. RefsOf(a, b)' = {x \in refs' : x.fragment = a /\ x.material = b}  BY DEF RefsOf
      <4>4. \A x : x \in RefsOf(a, b)' <=> x \in MediaRefs(a, b, "backfill")
        BY <2>2, <2>5, <4>1, <4>2, <4>3
      <4>5. RefsOf(a, b)' = MediaRefs(a, b, "backfill")  BY <4>4
      <4> QED  BY <4>1, <4>5
    <3>2. \A x \in refs' : \E r \in revisions : r.fragment = x.fragment /\ r.material = x.material
      BY <2>5 DEF MediaRefs
    <3> QED  BY <1>1, <3>1, <3>2 DEF Placed, MediaRefs
  <2> QED  BY <2>1, <2>3, <2>4, <2>6 DEF RowsInv
<1> QED  BY <1>2, <1>3

(***************************************************************************)
(* A capture.                                                              *)
(***************************************************************************)
LEMMA CaptureStep ==
  ASSUME StoreAssumption, OpeningInv, RowsInv, NEW o \in Openers, NEW i \in Items,
         NEW m \in Materials, Capture(o, i, m)
  PROVE  RowsInv'
<1>1. "identity" \in backfilled /\ "media" \in backfilled
  <2>1. openers[o].step = "serving" /\ HasDone(openers[o])
    BY DEF Capture, Serving, OpeningInv
  <2> QED  BY <2>1 DEF HasDone
<1>2. RowTypes /\ Resolved /\ OneOfEach /\ Numbered /\ Placed /\ Found
  BY <1>1 DEF RowsInv, RowTypes
<1>3. PICK f : f = IF identities[i] = Nothing THEN i ELSE identities[i]  OBVIOUS
<1>4. /\ UNCHANGED <<legacy, backfilled, aliases>>
      /\ taken' = [taken EXCEPT ![i] = Append(@, m)]
      /\ identities' = [identities EXCEPT ![i] = f]
      /\ current' = [current EXCEPT ![f] = m]
  BY <1>3 DEF Capture
<1>5. /\ LegacyIds' = LegacyIds /\ Ids' = Ids /\ Found' /\ RevisionRows' = RevisionRows
      /\ \A j \in Items : Rows(j)' = Rows(j) /\ Canonical(j)' = Canonical(j)
  BY <1>2, <1>4, SameHistory
<1>6. f \in Ids /\ f # Nothing /\ f \in (IF Rows(i) # {} THEN {Canonical(i)} ELSE {i})
  <2>1. Nothing \notin Ids /\ i \in Ids  BY <1>2, LegacyIsTyped DEF Ids
  <2>2. CASE Rows(i) # {}
    <3>1. Canonical(i) \in Ids  BY <1>2, <2>2, CanonicalIsARow DEF Ids
    <3>2. identities[i] = Canonical(i)  BY <1>2, <2>2 DEF Resolved
    <3> QED  BY <1>3, <2>1, <2>2, <3>1, <3>2
  <2>3. CASE Rows(i) = {}
    <3>1. identities[i] \in {Nothing, i}  BY <1>2, <2>3 DEF Resolved
    <3> QED  BY <1>3, <2>1, <2>3, <3>1
  <2> QED  BY <2>2, <2>3
\* The fragment is no other item's.
<1>7. ASSUME NEW j \in Items, j # i, identities[j] # Nothing
      PROVE  identities[j] # f
  <2>1. identities[j] \in (IF Rows(j) # {} THEN {Canonical(j)} ELSE {j})
    BY <1>2, <1>7 DEF Resolved
  <2>2. \A k \in Items : Rows(k) # {} => Canonical(k) \in LegacyIds /\ legacy[Canonical(k)].item = k
    BY <1>2, CanonicalIsARow
  <2>3. \A k \in Items : k \notin LegacyIds  BY <1>2, LegacyIsTyped
  <2> QED  BY <1>6, <1>7, <2>1, <2>2, <2>3
<1>8. PICK old : old = taken[i]  OBVIOUS
<1>9. /\ old \in Seq(Materials) /\ taken'[i] = Append(old, m)
      /\ \A j \in Items : j # i => taken'[j] = taken[j]
      /\ taken' \in [Items -> Seq(Materials)]
  BY <1>2, <1>4, <1>8 DEF RowTypes
<1>10. LastOf(i)' = m
  <2>1. Append(old, m) # <<>> /\ Last(Append(old, m)) = m  BY <1>9 DEF Last
  <2> QED  BY <1>9, <2>1 DEF LastOf
<1>11. revisions \subseteq revisions'  BY DEF Capture
<1>12. Resolved'
  <2>1. /\ identities'[i] = f
        /\ \A j \in Items : j # i => identities'[j] = identities[j]
    BY <1>2, <1>4 DEF RowTypes
  <2>2. \A j \in Items : identities'[j] \in (IF Rows(j) # {} THEN {Canonical(j)} ELSE {Nothing, j})
    BY <1>2, <1>6, <2>1 DEF Resolved
  <2>3. \A j \in Items : \A g \in Rows(j) :
          /\ aliases'[g] = Canonical(j)
          /\ \E r \in revisions' : r.fragment = Canonical(j) /\ r.material = legacy'[g].material
    BY <1>2, <1>4, <1>11 DEF Resolved
  <2>4. \A j \in Items : identities'[j] # Nothing => current'[identities'[j]] = LastOf(j)'
    <3> SUFFICES ASSUME NEW j \in Items, identities'[j] # Nothing
                 PROVE  current'[identities'[j]] = LastOf(j)'
      OBVIOUS
    <3>1. CASE j = i
      <4>1. current'[f] = m  BY <1>2, <1>4, <1>6 DEF RowTypes
      <4> QED  BY <1>10, <2>1, <3>1, <4>1
    <3>2. CASE j # i
      <4>1. PICK g : g = identities[j]  OBVIOUS
      <4>2. g = identities'[j] /\ g # Nothing /\ g # f /\ g \in Ids
        BY <1>2, <1>7, <2>1, <3>2, <4>1 DEF RowTypes
      <4>3. current'[g] = current[g] /\ current[g] = LastOf(j)
        BY <1>2, <1>4, <4>1, <4>2 DEF RowTypes, Resolved
      <4>4. LastOf(j)' = LastOf(j)  BY <1>4, <1>5, <1>9, <3>2 DEF LastOf
      <4> QED  BY <4>2, <4>3, <4>4
    <3> QED  BY <3>1, <3>2
  <2>5. \A j \in Items :
            identities'[j] \in (IF Rows(j)' # {} THEN {Canonical(j)'} ELSE {Nothing, j})
    BY <1>5, <2>2
  <2>6. \A j \in Items : \A g \in Rows(j)' :
          /\ aliases'[g] = Canonical(j)'
          /\ \E r \in revisions' : r.fragment = Canonical(j)' /\ r.material = legacy'[g].material
    BY <1>5, <2>3
  <2> QED  BY <2>4, <2>5, <2>6 DEF Resolved
<1>13. /\ identities' \in [Items -> Ids \cup {Nothing}] /\ aliases' \in [Ids -> Ids]
       /\ current' \in [Ids -> Materials \cup {Nothing}]
  BY <1>2, <1>4, <1>6 DEF RowTypes
<1>14. CASE \E r \in RevisionsOf(f) : r.material = m
  <2>1. UNCHANGED <<revisions, refs>>
    BY <1>3, <1>14 DEF Capture, RevisionsOf
  <2>2. RowTypes'  BY <1>2, <1>5, <1>9, <1>13, <2>1 DEF RowTypes
  <2>3. OneOfEach' /\ Numbered'  BY <1>2, <2>1 DEF OneOfEach, Numbered, RevisionsOf
  <2>4. Placed'
    <3>1. \A a, b : RefsOf(a, b)' = RefsOf(a, b)  BY <2>1 DEF RefsOf
    <3> QED  BY <1>2, <2>1, <3>1 DEF Placed, MediaRefs
  <2> QED  BY <1>1, <1>4, <1>12, <2>2, <2>3, <2>4 DEF RowsInv
<1>15. CASE \A r \in RevisionsOf(f) : r.material # m
  <2>1. PICK H : H = RevisionsOf(f)  OBVIOUS
  <2>2. IsFiniteSet(H) /\ Cardinality(H) \in Nat
    BY <1>2, <2>1, FS_Subset, FS_CardinalityType DEF RowTypes, RevisionsOf
  <2>3. PICK n \in Nat : n = Cardinality(H) + 1  BY <2>2
  <2>4. PICK row : row = [fragment |-> f, material |-> m, ordinal |-> n, legacy |-> Nothing]
    OBVIOUS
  <2>5. revisions' = revisions \cup {row} /\ refs' = refs \cup MediaRefs(f, m, "capture")
    BY <1>3, <1>15, <2>1, <2>3, <2>4 DEF Capture, RevisionsOf, MediaRefs
  <2>6. /\ row.fragment = f /\ row.material = m /\ row.ordinal = n /\ row.legacy = Nothing
        /\ row \in RevisionRows
    BY <1>6, <2>4 DEF RevisionRows
  <2>7. \A r \in revisions : ~(r.fragment = f /\ r.material = m)  BY <1>15 DEF RevisionsOf
  <2>8. RowTypes'
    <3>1. IsFiniteSet(revisions') /\ revisions' \subseteq RevisionRows
      BY <1>2, <2>5, <2>6, FS_AddElement DEF RowTypes
    <3> QED  BY <1>5, <1>9, <1>13, <3>1 DEF RowTypes
  <2>9. OneOfEach'
    <3> SUFFICES ASSUME NEW r \in revisions', NEW s \in revisions',
                        r.fragment = s.fragment, r.material = s.material
                 PROVE  r = s
      BY DEF OneOfEach
    <3> QED  BY <1>2, <2>5, <2>6, <2>7 DEF OneOfEach
  <2>10. Numbered'
    <3>1. RevisionsOf(f)' = H \cup {row} /\ row \notin H
      BY <1>15, <2>1, <2>5, <2>6 DEF RevisionsOf
    <3>2. Cardinality(RevisionsOf(f)') = n  BY <2>2, <2>3, <3>1, FS_AddElement
    <3>3. \A g : g # f => RevisionsOf(g)' = RevisionsOf(g)  BY <2>5, <2>6 DEF RevisionsOf
    <3>4. \A r \in revisions : r.fragment = f => r.ordinal < n
      <4> SUFFICES ASSUME NEW r \in revisions, r.fragment = f PROVE r.ordinal < n  OBVIOUS
      <4>1. r.ordinal <= Cardinality(H) /\ r.ordinal \in Nat
        BY <1>2, <2>1 DEF Numbered, RowTypes, RevisionRows
      <4> QED  BY <2>2, <2>3, <4>1
    <3>5. ASSUME NEW r \in revisions'
          PROVE  r.ordinal <= Cardinality(RevisionsOf(r.fragment)')
      <4>1. CASE r = row  BY <2>6, <3>2, <4>1
      <4>2. CASE r \in revisions /\ r.fragment = f
        <5>1. r.ordinal < n /\ r.ordinal \in Nat  BY <1>2, <3>4, <4>2 DEF RowTypes, RevisionRows
        <5> QED  BY <3>2, <4>2, <5>1
      <4>3. CASE r \in revisions /\ r.fragment # f
        BY <1>2, <3>3, <4>3 DEF Numbered
      <4> QED  BY <2>5, <4>1, <4>2, <4>3
    <3>6. ASSUME NEW r \in revisions', NEW s \in revisions', r.fragment = s.fragment,
                 r.legacy # Nothing, s.legacy = Nothing \/ r.legacy < s.legacy, r # s
          PROVE  r.ordinal < s.ordinal
      <4>1. r \in revisions  BY <2>5, <2>6, <3>6
      <4>2. CASE s = row  BY <2>6, <3>4, <3>6, <4>1, <4>2
      <4>3. CASE s \in revisions  BY <1>2, <3>6, <4>1, <4>3 DEF Numbered
      <4> QED  BY <2>5, <4>2, <4>3
    <3>7. \A r \in revisions' : r.ordinal <= Cardinality(RevisionsOf(r.fragment))'
      <4> SUFFICES ASSUME NEW r \in revisions'
                   PROVE  r.ordinal <= Cardinality(RevisionsOf(r.fragment)')
        OBVIOUS
      <4> QED  BY <3>5
    <3> QED  BY <3>6, <3>7 DEF Numbered
  <2>11. Placed'
    <3>1. \A x \in MediaRefs(f, m, "capture") : x.fragment = f /\ x.material = m
      BY DEF MediaRefs
    <3>2. \A x \in refs : ~(x.fragment = f /\ x.material = m)  BY <1>2, <2>7 DEF Placed
    <3>3. RefsOf(f, m)' = MediaRefs(f, m, "capture")
      <4>1. \A x : x \in RefsOf(f, m)' <=> x \in MediaRefs(f, m, "capture")
        BY <2>5, <3>1, <3>2 DEF RefsOf
      <4> QED  BY <4>1
    <3>4. ASSUME NEW r \in revisions
          PROVE  \E by \in {"backfill", "capture"} :
                    RefsOf(r.fragment, r.material)' = MediaRefs(r.fragment, r.material, by)
      <4>1. PICK a, b : a = r.fragment /\ b = r.material  OBVIOUS
      <4>2. ~(a = f /\ b = m)  BY <2>7, <4>1
      <4>3. RefsOf(a, b)' = RefsOf(a, b)  BY <2>5, <3>1, <4>2 DEF RefsOf
      <4>4. \E by \in {"backfill", "capture"} : RefsOf(a, b) = MediaRefs(a, b, by)
        BY <1>2, <4>1 DEF Placed
      <4> QED  BY <4>1, <4>3, <4>4
    <3>5. \A r \in revisions' : \E by \in {"backfill", "capture"} :
             RefsOf(r.fragment, r.material)' = MediaRefs(r.fragment, r.material, by)
      BY <2>5, <2>6, <3>3, <3>4
    <3>6. ASSUME NEW x \in refs'
          PROVE  \E r \in revisions' : r.fragment = x.fragment /\ r.material = x.material
      BY <1>2, <2>5, <2>6, <3>1 DEF Placed
    <3> QED  BY <3>5, <3>6 DEF Placed, MediaRefs
  <2> QED  BY <1>1, <1>4, <1>12, <2>8, <2>9, <2>10, <2>11 DEF RowsInv
<1> QED  BY <1>14, <1>15

LEMMA RowsStep ==
  ASSUME StoreAssumption, OpeningInv, RowsInv, [StoreNext]_storeVars
  PROVE  RowsInv'
<1>1. ASSUME NEW o \in Openers, Open(o) \/ Look(o) \/ Apply(o) \/ LookForIdentity(o) \/ Close(o)
      PROVE  RowsInv'
  BY <1>1, RowsStay DEF Open, Look, Apply, LookForIdentity, Close
<1>2. CASE UNCHANGED storeVars
  BY <1>2, RowsStay DEF storeVars, rowsOfStore
<1> QED  BY <1>1, <1>2, IdentifyStep, BackfillStep, CaptureStep DEF StoreNext

(***************************************************************************)
(* What a process that captures finds.                                     *)
(***************************************************************************)
LEMMA MediaRefsCount ==
  ASSUME StoreAssumption, NEW fragment, NEW material \in Materials, NEW by
  PROVE  Cardinality(MediaRefs(fragment, material, by)) = MediaIn[material]
<1>1. PICK n \in Nat : n = MediaIn[material]  BY DEF StoreAssumption
<1>2. PICK P : P = 1..n  OBVIOUS
<1>3. PICK R : R = MediaRefs(fragment, material, by)  OBVIOUS
<1>4. PICK g : g = [p \in P |-> [fragment |-> fragment, material |-> material,
                                 position |-> p, by |-> by]]
  OBVIOUS
<1>5. R = {g[p] : p \in P}  BY <1>1, <1>2, <1>3, <1>4 DEF MediaRefs
<1>6. \A p, q \in P : g[p] = g[q] => p = q  BY <1>4
<1>7. g \in Bijection(P, R)
  <2>1. g \in [P -> R]  BY <1>4, <1>5
  <2>2. \A r \in R : \E p \in P : g[p] = r  BY <1>5
  <2> QED  BY <1>6, <2>1, <2>2 DEF Bijection, Injection, Surjection, IsInjective
<1>8. IsFiniteSet(P) /\ Cardinality(P) = n  BY <1>1, <1>2, FS_Interval
<1>9. ExistsBijection(P, R)  BY <1>7 DEF ExistsBijection
<1>10. Cardinality(R) = Cardinality(P)  BY <1>8, <1>9, FS_Bijection
<1> QED  BY <1>1, <1>3, <1>8, <1>10

LEMMA HistoryIsSafe ==
  ASSUME StoreAssumption, OpeningInv, RowsInv
  PROVE  HistorySurvives
<1>1. \A n \in 1..Migrations : applied[n] <= 1 /\ (n > 1 /\ applied[n] = 1 => applied[n - 1] = 1)
  BY DEF OpeningInv, InOrder
<1>2. ASSUME Serving # {}
      PROVE  /\ \A n \in 1..Migrations : applied[n] = 1
             /\ "identity" \in backfilled /\ "media" \in backfilled
  <2>1. PICK o \in Openers : openers[o].step = "serving"  BY <1>2 DEF Serving
  <2> QED  BY <2>1 DEF OpeningInv, HasDone, AllApplied
<1>3. ASSUME Serving # {}
      PROVE  RowTypes /\ Resolved /\ Numbered /\ Placed /\ Found
  BY <1>2, <1>3 DEF RowsInv, RowTypes
<1>4. ASSUME Serving # {}, NEW f \in LegacyIds
      PROVE  \E r \in revisions :
               /\ r.fragment = aliases[f] /\ aliases[f] = identities[legacy[f].item]
               /\ r.material = legacy[f].material
  <2>1. PICK i \in Items : i = legacy[f].item  BY <1>3, <1>4, LegacyIsTyped
  <2>2. f \in Rows(i)  BY <2>1 DEF Rows
  <2>3. identities[i] = Canonical(i)  BY <1>3, <1>4, <2>2 DEF Resolved
  <2> QED  BY <1>3, <1>4, <2>1, <2>2, <2>3 DEF Resolved
<1>5. ASSUME Serving # {}, NEW r \in revisions
      PROVE  Cardinality({s \in refs : s.fragment = r.fragment /\ s.material = r.material})
             = MediaIn[r.material]
  <2>1. PICK by : RefsOf(r.fragment, r.material) = MediaRefs(r.fragment, r.material, by)
    BY <1>3, <1>5 DEF Placed
  <2>2. r.material \in Materials  BY <1>3, <1>5 DEF RowTypes, RevisionRows
  <2> QED  BY <2>1, <2>2, MediaRefsCount DEF RefsOf
<1> QED  BY <1>1, <1>2, <1>3, <1>4, <1>5 DEF HistorySurvives, Resolved, Numbered

\* However many processes open the file at once and whatever one of them has
\* looked at before another changed it, every migration takes effect once and
\* in order, and a process that captures finds each legacy row resolving to the
\* fragment of its item with all its revisions, in order, and their media
\* (migrate, backfillFragmentIdentity, backfillMedia).
THEOREM HistoryIsKept ==
  ASSUME StoreAssumption
  PROVE  StoreSpec => []HistorySurvives
<1>1. StoreInit => OpeningInv /\ RowsInv  BY OpeningInit, RowsInit
<1>2. OpeningInv /\ RowsInv /\ [StoreNext]_storeVars => OpeningInv' /\ RowsInv'
  BY OpeningStep, RowsStep
<1>3. OpeningInv /\ RowsInv => HistorySurvives  BY HistoryIsSafe
<1> QED  BY <1>1, <1>2, <1>3, PTL DEF StoreSpec

(***************************************************************************)
(* Enrichment of transcripts.                                              *)
(***************************************************************************)

WorkSteps ==
    {"none", "todo", "asking", "answered", "valid", "rejected", "fatal", "saved", "halting"}
Works == [step : WorkSteps, part : Nat, attempt : Nat, cost : Nat]
Summaries == [phase : {"new", "running", "ended"}, prior : Nat, sum : Nat, stopped : BOOLEAN]

EnrichmentTypeOK ==
    /\ rows \in [Sessions -> {"none", "ok", "failed"}]
    /\ ledger \in Nat /\ peak \in Nat
    /\ runs \in [Runs -> Summaries]
    /\ work \in [Runs -> [Sessions -> Works]]

\* Only a run in progress works on sessions.
WorkIsOfRuns == \A r \in Runs, s \in Sessions : work[r][s].step # "none" => InProgress(r)
\* Runs that are in progress at the same time are counted.
OverlapIsCounted == \A q, r \in Runs : q # r /\ InProgress(q) /\ InProgress(r) => peak > 1
\* A run that was not forced works on a session with a result only where it
\* has saved that result itself, or overlaps with the run that has.
NoSecondResult ==
    \A r \in Runs \ Forced, s \in Sessions :
        rows[s] = "ok" /\ work[r][s].step \notin {"none", "saved", "halting"} => peak > 1

ResultInv == EnrichmentTypeOK /\ WorkIsOfRuns /\ OverlapIsCounted /\ NoSecondResult

LEMMA MaxOfTwo ==
  ASSUME NEW m \in Nat, NEW n \in Nat
  PROVE  Max({m, n}) \in Nat /\ Max({m, n}) >= m /\ Max({m, n}) >= n
<1>1. \E x \in {m, n} : \A y \in {m, n} : x >= y
  <2>1. CASE m >= n  BY <2>1
  <2>2. CASE n >= m  BY <2>2
  <2> QED  BY <2>1, <2>2
<1>2. Max({m, n}) \in {m, n} /\ \A y \in {m, n} : Max({m, n}) >= y
  BY <1>1 DEF Max
<1> QED  BY <1>2

LEMMA ResultInit == ASSUME EnrichmentConstants, EnrichmentInit PROVE ResultInv
<1>1. EnrichmentTypeOK
  BY DEF EnrichmentInit, EnrichmentTypeOK, NoWork, Works, WorkSteps, Summaries
<1> QED  BY <1>1 DEF EnrichmentInit, ResultInv, WorkIsOfRuns, OverlapIsCounted, NoSecondResult, NoWork, InProgress

\* What a step that works on one session changes.
LEMMA OneSession ==
  ASSUME ResultInv, NEW r \in Runs, NEW s \in Sessions, NEW w \in Works,
         work' = [work EXCEPT ![r] = [@ EXCEPT ![s] = w]],
         work[r][s].step # "none",
         peak' = peak, ledger' \in Nat,
         rows' \in [Sessions -> {"none", "ok", "failed"}],
         \A t \in Sessions : t # s => rows'[t] = rows[t],
         runs' \in [Runs -> Summaries],
         \A q \in Runs : runs'[q].phase = runs[q].phase,
         rows'[s] = "ok" => rows[s] = "ok" \/ w.step \in {"none", "saved", "halting"},
         \/ w.step \in {"none", "saved", "halting"}
         \/ work[r][s].step \notin {"none", "saved", "halting"}
  PROVE  ResultInv'
<1>1. EnrichmentTypeOK'  BY DEF ResultInv, EnrichmentTypeOK
<1>2. \A q \in Runs, t \in Sessions :
          work'[q][t] = IF q = r /\ t = s THEN w ELSE work[q][t]
  BY DEF ResultInv, EnrichmentTypeOK
<1>3. \A q \in Runs : InProgress(q)' <=> InProgress(q)  BY DEF InProgress
<1>4. InProgress(r)  BY DEF ResultInv, WorkIsOfRuns
<1>5. WorkIsOfRuns'  BY <1>2, <1>3, <1>4 DEF ResultInv, WorkIsOfRuns
<1>6. OverlapIsCounted'  BY <1>3 DEF ResultInv, OverlapIsCounted
<1>7. ASSUME NEW q \in Runs \ Forced, NEW t \in Sessions,
             rows'[t] = "ok", work'[q][t].step \notin {"none", "saved", "halting"}
      PROVE  peak' > 1
  <2>1. CASE rows[t] = "ok"
    <3>1. work[q][t].step \notin {"none", "saved", "halting"}  BY <1>2, <1>7
    <3> QED  BY <2>1, <3>1, <1>7 DEF ResultInv, NoSecondResult
  <2>2. CASE rows[t] # "ok"
    <3>1. t = s /\ w.step \in {"none", "saved", "halting"}  BY <1>7, <2>2
    <3>2. q # r  BY <1>2, <1>7, <3>1
    <3>3. InProgress(q)  BY <1>2, <1>7, <3>2 DEF ResultInv, WorkIsOfRuns
    <3> QED  BY <1>4, <3>2, <3>3 DEF ResultInv, OverlapIsCounted
  <2> QED  BY <2>1, <2>2
<1>8. NoSecondResult'  BY <1>7 DEF NoSecondResult
<1> QED  BY <1>1, <1>5, <1>6, <1>8 DEF ResultInv

\* A run that ends.
LEMMA RunEnds ==
  ASSUME ResultInv, NEW r \in Runs,
         runs' = [runs EXCEPT ![r].phase = "ended"],
         work' = [work EXCEPT ![r] = [s \in Sessions |-> NoWork]],
         UNCHANGED <<rows, ledger, peak>>
  PROVE  ResultInv'
<1>1. runs' \in [Runs -> Summaries] /\ \A q \in Runs : q # r => runs'[q] = runs[q]
  BY DEF ResultInv, EnrichmentTypeOK, Summaries
<1>2. runs'[r].phase = "ended"  BY DEF ResultInv, EnrichmentTypeOK, Summaries
<1>3. [s \in Sessions |-> NoWork] \in [Sessions -> Works]  BY DEF NoWork, Works, WorkSteps
<1>4. EnrichmentTypeOK'  BY <1>1, <1>3 DEF ResultInv, EnrichmentTypeOK
<1>5. \A q \in Runs, t \in Sessions :
          work'[q][t] = IF q = r THEN NoWork ELSE work[q][t]
  BY DEF ResultInv, EnrichmentTypeOK
<1>6. \A q \in Runs : InProgress(q)' <=> InProgress(q) /\ q # r  BY <1>1, <1>2 DEF InProgress
<1>7. WorkIsOfRuns'  BY <1>5, <1>6 DEF ResultInv, WorkIsOfRuns, NoWork
<1>8. OverlapIsCounted'  BY <1>6 DEF ResultInv, OverlapIsCounted
<1>9. NoSecondResult'  BY <1>5 DEF ResultInv, NoSecondResult, NoWork
<1> QED  BY <1>4, <1>7, <1>8, <1>9 DEF ResultInv

LEMMA PlanKeeps ==
  ASSUME ResultInv, IsFiniteSet(Runs), NEW r \in Runs, Plan(r)
  PROVE  ResultInv'
<1>1. PICK others : others = {q \in Runs : InProgress(q)}  OBVIOUS
<1>2. IsFiniteSet(others) /\ Cardinality(others) \in Nat
  BY <1>1, FS_Subset, FS_CardinalityType
<1>3. peak \in Nat  BY DEF ResultInv, EnrichmentTypeOK
<1>4. peak' = Max({peak, 1 + Cardinality(others)})  BY <1>1 DEF Plan
<1>5. peak' \in Nat /\ peak' >= peak /\ peak' >= 1 + Cardinality(others)
  <2>1. PICK n \in Nat : n = 1 + Cardinality(others)  BY <1>2
  <2> QED  BY <1>3, <1>4, <2>1, MaxOfTwo
<1>6. \A q \in others : peak' > 1
  <2> SUFFICES ASSUME NEW q \in others PROVE peak' > 1  OBVIOUS
  <2>1. Cardinality(others) # 0  BY <1>2, FS_EmptySet
  <2> QED  BY <1>2, <1>5, <2>1
<1>7. PICK phase \in {"running", "ended"}, w \in [Sessions -> Works] :
        /\ \A q \in Runs : q # r => runs'[q] = runs[q]
        /\ runs' \in [Runs -> Summaries] /\ runs'[r].phase = phase
        /\ work' = [work EXCEPT ![r] = w]
        /\ phase = "ended" => w = work[r]
        /\ phase = "running" => \A s \in Sessions :
               w[s].step # "none" => r \in Forced \/ rows[s] # "ok"
  <2>1. runs \in [Runs -> Summaries] /\ ledger \in Nat /\ work \in [Runs -> [Sessions -> Works]]
    BY DEF ResultInv, EnrichmentTypeOK
  <2>2. CASE runs' = [runs EXCEPT ![r].phase = "running", ![r].prior = ledger]
             /\ \E chosen \in Chosen(r) :
                   work' = [work EXCEPT ![r] = [s \in Sessions |-> IF s \in chosen THEN NotBegun ELSE NoWork]]
    <3>1. PICK chosen \in Chosen(r) :
             work' = [work EXCEPT ![r] = [s \in Sessions |-> IF s \in chosen THEN NotBegun ELSE NoWork]]
      BY <2>2
    <3>2. PICK w : w = [s \in Sessions |-> IF s \in chosen THEN NotBegun ELSE NoWork]  OBVIOUS
    <3>3. w \in [Sessions -> Works]  BY <3>2 DEF NotBegun, NoWork, Works, WorkSteps
    <3>4. \A s \in Sessions : w[s].step # "none" => r \in Forced \/ rows[s] # "ok"
      BY <3>2 DEF Chosen, Selected, NoWork
    <3>5. PICK x : x = runs[r]  OBVIOUS
    <3>6. x \in Summaries /\ runs' = [runs EXCEPT ![r] = [x EXCEPT !.phase = "running", !.prior = ledger]]
      BY <2>1, <2>2, <3>5
    <3>7. [x EXCEPT !.phase = "running", !.prior = ledger] \in Summaries
          /\ [x EXCEPT !.phase = "running", !.prior = ledger].phase = "running"
      BY <2>1, <3>6 DEF Summaries
    <3> QED  BY <2>1, <3>1, <3>2, <3>3, <3>4, <3>6, <3>7
  <2>3. CASE runs' = [runs EXCEPT ![r].phase = "ended", ![r].prior = ledger] /\ UNCHANGED work
    <3>5. PICK x : x = runs[r]  OBVIOUS
    <3>6. x \in Summaries /\ runs' = [runs EXCEPT ![r] = [x EXCEPT !.phase = "ended", !.prior = ledger]]
      BY <2>1, <2>3, <3>5
    <3>7. [x EXCEPT !.phase = "ended", !.prior = ledger] \in Summaries
          /\ [x EXCEPT !.phase = "ended", !.prior = ledger].phase = "ended"
      BY <2>1, <3>6 DEF Summaries
    <3>8. work[r] \in [Sessions -> Works] /\ work' = [work EXCEPT ![r] = work[r]]
      BY <2>1, <2>3
    <3> QED  BY <2>1, <3>6, <3>7, <3>8
  <2> QED  BY <2>2, <2>3 DEF Plan
<1>8. runs[r].phase = "new" /\ UNCHANGED <<rows, ledger>>  BY DEF Plan
<1>9. EnrichmentTypeOK'  BY <1>5, <1>7, <1>8 DEF ResultInv, EnrichmentTypeOK
<1>10. \A q \in Runs, s \in Sessions : work'[q][s] = IF q = r THEN w[s] ELSE work[q][s]
  BY <1>7 DEF ResultInv, EnrichmentTypeOK
<1>11. \A s \in Sessions : work[r][s].step = "none"
  BY <1>8 DEF ResultInv, WorkIsOfRuns, InProgress
<1>12. \A q \in Runs : q # r => (InProgress(q)' <=> q \in others)
  BY <1>1, <1>7 DEF InProgress
<1>13. WorkIsOfRuns'
  <2> SUFFICES ASSUME NEW q \in Runs, NEW s \in Sessions, work'[q][s].step # "none"
               PROVE  InProgress(q)'
    BY DEF WorkIsOfRuns
  <2>1. CASE q = r  BY <1>7, <1>10, <1>11, <2>1 DEF InProgress
  <2>2. CASE q # r  BY <1>1, <1>10, <1>12, <2>2 DEF ResultInv, WorkIsOfRuns
  <2> QED  BY <2>1, <2>2
<1>14. OverlapIsCounted'
  BY <1>6, <1>12 DEF OverlapIsCounted
<1>15. NoSecondResult'
  <2> SUFFICES ASSUME NEW q \in Runs \ Forced, NEW s \in Sessions, rows'[s] = "ok",
                      work'[q][s].step \notin {"none", "saved", "halting"}
               PROVE  peak' > 1
    BY DEF NoSecondResult
  <2>1. q # r  BY <1>7, <1>8, <1>10, <1>11
  <2>2. peak > 1  BY <1>8, <1>10, <2>1 DEF ResultInv, NoSecondResult
  <2> QED  BY <1>3, <1>5, <2>2
<1> QED  BY <1>9, <1>13, <1>14, <1>15 DEF ResultInv

LEMMA WorkIsTyped ==
  ASSUME ResultInv, NEW r \in Runs, NEW s \in Sessions
  PROVE  /\ work[r][s] \in Works /\ runs[r] \in Summaries /\ ledger \in Nat
         /\ rows \in [Sessions -> {"none", "ok", "failed"}] /\ runs \in [Runs -> Summaries]
         /\ work \in [Runs -> [Sessions -> Works]]
BY DEF ResultInv, EnrichmentTypeOK

\* The outcome of a session is added up.
LEMMA AddUpKeeps ==
  ASSUME ResultInv, NEW r \in Runs, NEW s \in Sessions, NEW stop \in BOOLEAN, AddUp(r, s, stop),
         work[r][s].step # "none",
         peak' = peak, ledger' = ledger,
         rows' \in {rows, [rows EXCEPT ![s] = "failed"]}
  PROVE  ResultInv'
<1>1. PICK x \in Summaries, w \in Works : x = runs[r] /\ w = work[r][s]  BY WorkIsTyped
<1>2. PICK total \in Nat, ended \in BOOLEAN : total = x.sum + w.cost /\ ended = (x.stopped \/ stop)
  <2>1. x.sum + w.cost \in Nat  BY <1>1 DEF Summaries, Works
  <2>2. (x.stopped \/ stop) \in BOOLEAN  OBVIOUS
  <2> QED  BY <2>1, <2>2
<1>y. PICK y : y = [x EXCEPT !.sum = total, !.stopped = ended]  OBVIOUS
<1>3. y \in Summaries /\ y.phase = x.phase  BY <1>1, <1>2, <1>y DEF Summaries
<1>4. runs' = [runs EXCEPT ![r] = y]  BY <1>1, <1>2, <1>y DEF AddUp
<1>5. runs' \in [Runs -> Summaries] /\ \A q \in Runs : runs'[q].phase = runs[q].phase
  BY <1>1, <1>3, <1>4, WorkIsTyped
<1>6. NoWork \in Works /\ NoWork.step = "none"  BY DEF NoWork, Works, WorkSteps
<1>7. work' = [work EXCEPT ![r] = [@ EXCEPT ![s] = NoWork]]  BY DEF AddUp, Set
<1>8. /\ rows' \in [Sessions -> {"none", "ok", "failed"}] /\ ledger' \in Nat
      /\ \A t \in Sessions : t # s => rows'[t] = rows[t]
      /\ rows'[s] = "ok" => rows[s] = "ok"
  BY WorkIsTyped
<1> QED  BY <1>5, <1>6, <1>7, <1>8, OneSession

\* A session goes on to another step, and nothing but the ledger changes.
LEMMA GoingOnKeeps ==
  ASSUME ResultInv, NEW r \in Runs, NEW s \in Sessions, NEW w \in Works, Set(r, s, w),
         work[r][s].step # "none", peak' = peak, ledger' \in Nat, UNCHANGED <<rows, runs>>,
         \/ w.step \in {"none", "saved", "halting"}
         \/ work[r][s].step \notin {"none", "saved", "halting"}
  PROVE  ResultInv'
<1>1. work' = [work EXCEPT ![r] = [@ EXCEPT ![s] = w]]  BY DEF Set
<1> QED  BY <1>1, WorkIsTyped, OneSession

LEMMA SteppingKeeps ==
  ASSUME ResultInv, NEW r \in Runs, NEW s \in Sessions, NEW step \in WorkSteps, Step(r, s, step),
         work[r][s].step # "none", peak' = peak, ledger' = ledger, UNCHANGED <<rows, runs>>,
         step \in {"none", "saved", "halting"} \/ work[r][s].step \notin {"none", "saved", "halting"}
  PROVE  ResultInv'
<1>1. PICK v \in Works : v = work[r][s]  BY WorkIsTyped
<1>2. PICK w : w = [v EXCEPT !.step = step]  OBVIOUS
<1>3. w \in Works /\ w.step = step  BY <1>1, <1>2 DEF Works
<1>4. Set(r, s, w)  BY <1>1, <1>2, WorkIsTyped DEF Step, Set
<1>5. ledger' \in Nat  BY WorkIsTyped
<1> QED  BY <1>3, <1>4, <1>5, GoingOnKeeps

LEMMA WorkOnKeeps ==
  ASSUME EnrichmentConstants, ResultInv, NEW r \in Runs, NEW s \in Sessions, WorkOn(r, s)
  PROVE  ResultInv'
<1>1. CASE TakeSession(r, s)
  <2>1. Step(r, s, "asking") /\ work[r][s].step = "todo" /\ UNCHANGED <<rows, runs, ledger, peak>>
    BY <1>1 DEF TakeSession, paidHistory
  <2> QED  BY <2>1, SteppingKeeps DEF WorkSteps
<1>2. CASE Call(r, s)
  <2>1. work[r][s].step = "asking" /\ UNCHANGED <<rows, runs, ledger, peak>>
    BY <1>2 DEF Call
  <2>2. CASE \E step \in Failures : Step(r, s, step)
    BY <2>1, <2>2, SteppingKeeps DEF Failures, WorkSteps
  <2>3. CASE Set(r, s, [work[r][s] EXCEPT !.step = "answered", !.cost = @ + 1])
    <3>1. PICK v \in Works : v = work[r][s]  BY WorkIsTyped
    <3>c. PICK n \in Nat : n = v.cost + 1  BY <3>1 DEF Works
    <3>2. PICK w : w = [v EXCEPT !.step = "answered", !.cost = n]  OBVIOUS
    <3>3. w \in Works  BY <3>1, <3>2 DEF Works, WorkSteps
    <3>4. Set(r, s, w)  BY <2>3, <3>1, <3>2, <3>c
    <3>5. ledger' \in Nat  BY <2>1, WorkIsTyped
    <3> QED  BY <2>1, <3>3, <3>4, <3>5, GoingOnKeeps
  <2> QED  BY <1>2, <2>2, <2>3 DEF Call
<1>3. CASE Record(r, s)
  <2>1. work[r][s].step = "answered" /\ ledger' = ledger + 1 /\ UNCHANGED <<rows, runs, peak>>
    BY <1>3 DEF Record, paidHistory
  <2>2. PICK v \in Works : v = work[r][s]  BY WorkIsTyped
  <2>3. PICK w \in Judged(s, v) : Set(r, s, w)  BY <1>3, <2>2 DEF Record
  <2>4. AfterValid(s, v) \in Works
    <3>1. v.part \in Nat /\ v.part + 1 \in Nat  BY <2>2 DEF Works
    <3>2. [v EXCEPT !.step = "valid"] \in Works  BY <2>2 DEF Works, WorkSteps
    <3>3. [v EXCEPT !.step = "asking", !.part = v.part + 1, !.attempt = 1] \in Works
      BY <2>2, <3>1 DEF Works, WorkSteps
    <3> QED  BY <3>2, <3>3 DEF AfterValid
  <2>5. AfterInvalid(v) \in Works
    BY <2>2 DEF AfterInvalid, Works, WorkSteps
  <2>6. w \in Works  BY <2>3, <2>4, <2>5 DEF Judged
  <2>7. ledger' \in Nat  BY <2>1, WorkIsTyped
  <2> QED  BY <2>1, <2>3, <2>6, <2>7, GoingOnKeeps
<1>4. CASE SaveRow(r, s)
  <2>1. /\ work[r][s].step = "valid" /\ rows' = [rows EXCEPT ![s] = "ok"]
        /\ Step(r, s, "saved") /\ UNCHANGED <<runs, ledger, peak>>
    BY <1>4 DEF SaveRow, paidHistory
  <2>2. PICK v \in Works : v = work[r][s]  BY WorkIsTyped
  <2>3. PICK w : w = [v EXCEPT !.step = "saved"]  OBVIOUS
  <2>4. w \in Works /\ w.step = "saved"  BY <2>2, <2>3 DEF Works, WorkSteps
  <2>5. work' = [work EXCEPT ![r] = [@ EXCEPT ![s] = w]]
    BY <2>1, <2>2, <2>3, WorkIsTyped DEF Step
  <2>6. /\ rows' \in [Sessions -> {"none", "ok", "failed"}] /\ ledger' \in Nat
        /\ \A t \in Sessions : t # s => rows'[t] = rows[t]
    BY <2>1, WorkIsTyped
  <2> QED  BY <2>1, <2>4, <2>5, <2>6, WorkIsTyped, OneSession
<1>5. CASE IndexRow(r, s)
  BY <1>5, AddUpKeeps DEF IndexRow, paidHistory
<1>6. CASE MarkFailedWithCost(r, s)
  BY <1>6, AddUpKeeps DEF MarkFailedWithCost, paidHistory
<1>7. CASE SaveFailure(r, s)
  BY <1>7, AddUpKeeps DEF SaveFailure, paidHistory
<1>8. CASE Halt(r, s)
  BY <1>8, AddUpKeeps DEF Halt, paidHistory
<1> QED  BY <1>1, <1>2, <1>3, <1>4, <1>5, <1>6, <1>7, <1>8 DEF WorkOn

LEMMA FaultsKeep ==
  ASSUME ResultInv, NEW r \in Runs, NEW s \in Sessions,
         ReplyLost(r, s) \/ RecordFails(r, s) \/ SaveFails(r, s) \/ SaveFailureFails(r, s)
  PROVE  ResultInv'
<1>1. CASE ReplyLost(r, s)
  <2>1. PICK step \in Failures \cup {"asking"} : Step(r, s, step)  BY <1>1 DEF ReplyLost
  <2>2. work[r][s].step = "asking" /\ UNCHANGED <<rows, runs, ledger, peak>>
    BY <1>1 DEF ReplyLost
  <2> QED  BY <2>1, <2>2, SteppingKeeps DEF Failures, WorkSteps
<1>2. CASE RecordFails(r, s)
  BY <1>2, SteppingKeeps DEF RecordFails, WorkSteps
<1>3. CASE SaveFails(r, s)
  BY <1>3, SteppingKeeps DEF SaveFails, WorkSteps
<1>4. CASE SaveFailureFails(r, s)
  BY <1>4, AddUpKeeps DEF SaveFailureFails
<1> QED  BY <1>1, <1>2, <1>3, <1>4

LEMMA ResultStep ==
  ASSUME EnrichmentConstants, IsFiniteSet(Runs), ResultInv, [EnrichmentNext]_enrichmentVars
  PROVE  ResultInv'
<1>1. CASE \E r \in Runs : Plan(r) \/ EndRun(r) \/ Crash(r)
  <2>1. PICK r \in Runs : Plan(r) \/ EndRun(r) \/ Crash(r)  BY <1>1
  <2>2. CASE Plan(r)  BY <2>2, PlanKeeps
  <2>3. CASE EndRun(r)  BY <2>3, RunEnds DEF EndRun, paidHistory
  <2>4. CASE Crash(r)  BY <2>4, RunEnds DEF Crash
  <2> QED  BY <2>1, <2>2, <2>3, <2>4
<1>2. CASE \E r \in Runs, s \in Sessions :
           WorkOn(r, s) \/ ReplyLost(r, s) \/ RecordFails(r, s) \/ SaveFails(r, s) \/ SaveFailureFails(r, s)
  BY <1>2, WorkOnKeeps, FaultsKeep
<1>3. CASE UNCHANGED enrichmentVars
  BY <1>3 DEF enrichmentVars, paidHistory, ResultInv, EnrichmentTypeOK, WorkIsOfRuns, OverlapIsCounted, NoSecondResult, InProgress
<1> QED  BY <1>1, <1>2, <1>3 DEF EnrichmentNext

\* The invariant rules out what the property forbids.
LEMMA ResultInvKeeps ==
  ASSUME ResultInv, [EnrichmentNext]_enrichmentVars
  PROVE  KeepsResult
<1> SUFFICES ASSUME NEW s \in Sessions, rows[s] = "ok"
             PROVE  /\ rows'[s] # "ok" =>
                          \/ peak > 1
                          \/ \E r \in Forced : work[r][s] # NoWork
                          \/ \E r \in Runs : work[r][s].step = "halting"
                    /\ \A r \in Runs \ Forced : work[r][s].step = "asking" => peak > 1
  BY DEF KeepsResult
<1>1. \A r \in Runs \ Forced : work[r][s].step = "asking" => peak > 1
  BY DEF ResultInv, NoSecondResult
<1>2. ASSUME rows'[s] # "ok"
      PROVE  \/ peak > 1
             \/ \E r \in Forced : work[r][s] # NoWork
             \/ \E r \in Runs : work[r][s].step = "halting"
  <2>1. PICK r \in Runs, t \in Sessions :
             /\ work[r][t].step \in {"halting", "rejected"}
             /\ rows' \in {rows, [rows EXCEPT ![t] = "failed"]}
    <3>1. rows' # rows  BY <1>2
    <3>2. PICK r \in Runs, t \in Sessions : WorkOn(r, t)
      BY <3>1 DEF EnrichmentNext, enrichmentVars, Plan, EndRun, Crash, ReplyLost, RecordFails, SaveFails, SaveFailureFails
    <3>3. MarkFailedWithCost(r, t) \/ SaveFailure(r, t) \/ SaveRow(r, t)
      BY <3>1, <3>2 DEF WorkOn, TakeSession, Call, Record, IndexRow, Halt
    <3>4. ~SaveRow(r, t)
      <4>1. SUFFICES ASSUME SaveRow(r, t) PROVE FALSE  OBVIOUS
      <4>2. rows' = [rows EXCEPT ![t] = "ok"]  BY <4>1 DEF SaveRow
      <4> QED  BY <1>2, <4>2 DEF ResultInv, EnrichmentTypeOK
    <3> QED  BY <3>3, <3>4 DEF MarkFailedWithCost, SaveFailure
  <2>2. t = s  BY <1>2, <2>1 DEF ResultInv, EnrichmentTypeOK
  <2>3. CASE work[r][s].step = "halting"  BY <2>3
  <2>4. CASE work[r][s].step = "rejected" /\ r \in Forced  BY <2>4 DEF NoWork
  <2>5. CASE work[r][s].step = "rejected" /\ r \notin Forced
    BY <2>5 DEF ResultInv, NoSecondResult
  <2> QED  BY <2>1, <2>2, <2>3, <2>4, <2>5
<1> QED  BY <1>1, <1>2

THEOREM ResultsAreKept ==
  ASSUME EnrichmentConstants, IsFiniteSet(Runs)
  PROVE  EnrichmentSpec => ResultIsKept
<1>1. EnrichmentInit => ResultInv  BY ResultInit
<1>2. ResultInv /\ [EnrichmentNext]_enrichmentVars => ResultInv'  BY ResultStep
<1>3. ResultInv /\ [EnrichmentNext]_enrichmentVars => KeepsResult  BY ResultInvKeeps
<1> QED  BY <1>1, <1>2, <1>3, PTL DEF EnrichmentSpec, ResultIsKept

(***************************************************************************)
(* Sums over a finite set, without induction: the number of pairs of a     *)
(* member and one of as many numbers as the member counts for.             *)
(***************************************************************************)
Tokens(D, n) == {p \in D \X Nat : p[2] \in 1..n[p[1]]}
Total(D, n) == Cardinality(Tokens(D, n))

LEMMA MembersOfTokens ==
  ASSUME NEW D, NEW n, NEW d, NEW i
  PROVE  <<d, i>> \in Tokens(D, n) <=> d \in D /\ i \in Nat /\ i \in 1..n[d]
BY DEF Tokens

LEMMA ColumnCounts ==
  ASSUME NEW d, NEW k \in Nat
  PROVE  IsFiniteSet({d} \X (1..k)) /\ Cardinality({d} \X (1..k)) = k
<1>1. IsFiniteSet({d}) /\ Cardinality({d}) = 1  BY FS_Singleton
<1>2. IsFiniteSet(1..k) /\ Cardinality(1..k) = k  BY FS_Interval
<1>3. /\ IsFiniteSet({d} \X (1..k))
      /\ Cardinality({d} \X (1..k)) = Cardinality({d}) * Cardinality(1..k)
  BY <1>1, <1>2, FS_Product
<1> QED  BY <1>1, <1>2, <1>3

LEMMA TokensAreFinite ==
  ASSUME NEW D, IsFiniteSet(D), NEW n, \A d \in D : n[d] \in Nat
  PROVE  IsFiniteSet(Tokens(D, n)) /\ Total(D, n) \in Nat
<1>1. PICK f : f = [d \in D |-> {d} \X (1..n[d])]  OBVIOUS
<1>2. PICK S : S = {f[d] : d \in D}  OBVIOUS
<1>3. f \in Surjection(D, S)  BY <1>1, <1>2 DEF Surjection
<1>4. IsFiniteSet(S)  BY <1>3, FS_Surjection
<1>5. \A T \in S : IsFiniteSet(T)
  <2> SUFFICES ASSUME NEW d \in D PROVE IsFiniteSet(f[d])  BY <1>2
  <2> QED  BY <1>1, ColumnCounts
<1>6. IsFiniteSet(UNION S)  BY <1>4, <1>5, FS_UNION
<1>7. Tokens(D, n) \subseteq UNION S
  <2> SUFFICES ASSUME NEW p \in Tokens(D, n) PROVE \E d \in D : p \in f[d]  BY <1>2
  <2>1. p \in D \X Nat /\ p[2] \in 1..n[p[1]]  BY DEF Tokens
  <2>2. p[1] \in D /\ p \in {p[1]} \X (1..n[p[1]])  BY <2>1
  <2> QED  BY <1>1, <2>2
<1> QED  BY <1>6, <1>7, FS_Subset, FS_CardinalityType DEF Total

\* Of fewer members that count for less the sum is less.
LEMMA TotalGrows ==
  ASSUME NEW D, NEW E, IsFiniteSet(E), D \subseteq E,
         NEW n, NEW m, \A d \in E : m[d] \in Nat, \A d \in D : n[d] \in Nat /\ n[d] <= m[d]
  PROVE  Total(D, n) <= Total(E, m) /\ Total(D, n) \in Nat /\ Total(E, m) \in Nat
<1>1. IsFiniteSet(D)  BY FS_Subset
<1>2. Tokens(D, n) \subseteq Tokens(E, m)
  <2> SUFFICES ASSUME NEW p \in Tokens(D, n) PROVE p \in Tokens(E, m)  OBVIOUS
  <2>1. p \in D \X Nat /\ p[2] \in 1..n[p[1]]  BY DEF Tokens
  <2>2. p[1] \in D /\ p[2] \in Nat /\ p \in E \X Nat  BY <2>1
  <2>3. p[2] \in 1..m[p[1]]  BY <2>1, <2>2
  <2> QED  BY <2>2, <2>3 DEF Tokens
<1>3. IsFiniteSet(Tokens(E, m)) /\ Total(E, m) \in Nat  BY TokensAreFinite
<1> QED  BY <1>1, <1>2, <1>3, TokensAreFinite, FS_Subset DEF Total

LEMMA TotalIsOfValues ==
  ASSUME NEW D, NEW n, NEW m, \A d \in D : n[d] = m[d]
  PROVE  Total(D, n) = Total(D, m)
<1>1. Tokens(D, n) = Tokens(D, m)
  <2> SUFFICES ASSUME NEW p \in D \X Nat PROVE n[p[1]] = m[p[1]]  BY DEF Tokens
  <2> QED  OBVIOUS
<1> QED  BY <1>1 DEF Total

LEMMA TotalAdds ==
  ASSUME NEW D, IsFiniteSet(D), NEW d, d \notin D,
         NEW n, n[d] \in Nat, \A e \in D : n[e] \in Nat
  PROVE  Total(D \cup {d}, n) = Total(D, n) + n[d]
<1>1. Tokens(D \cup {d}, n) = Tokens(D, n) \cup ({d} \X (1..n[d]))
  <2>0. PICK A, B, C : A = Tokens(D \cup {d}, n) /\ B = Tokens(D, n) /\ C = {d} \X (1..n[d])  OBVIOUS
  <2>1. ASSUME NEW p \in Tokens(D \cup {d}, n) PROVE p \in Tokens(D, n) \cup ({d} \X (1..n[d]))
    <3>1. p \in (D \cup {d}) \X Nat /\ p[2] \in 1..n[p[1]]  BY DEF Tokens
    <3>2. CASE p[1] = d  BY <3>1, <3>2
    <3>3. CASE p[1] \in D
      <4>1. p \in D \X Nat  BY <3>1, <3>3
      <4> QED  BY <3>1, <4>1 DEF Tokens
    <3> QED  BY <3>1, <3>2, <3>3
  <2>2. ASSUME NEW p \in Tokens(D, n) PROVE p \in Tokens(D \cup {d}, n)
    BY DEF Tokens
  <2>3. ASSUME NEW p \in {d} \X (1..n[d]) PROVE p \in Tokens(D \cup {d}, n)
    <3>1. p[1] = d /\ p[2] \in 1..n[p[1]] /\ p[2] \in Nat /\ p \in (D \cup {d}) \X Nat  OBVIOUS
    <3> QED  BY <3>1 DEF Tokens
  <2>6. \A p \in A : p \in B \cup C  BY <2>0, <2>1, Zenon
  <2>7. \A p \in B : p \in A  BY <2>0, <2>2, Zenon
  <2>8. \A p \in C : p \in A  BY <2>0, <2>3, Zenon
  <2>5. A = B \cup C  BY <2>6, <2>7, <2>8
  <2> QED  BY <2>0, <2>5
<1>2. Tokens(D, n) \cap ({d} \X (1..n[d])) = {}
  <2>1. \A p \in Tokens(D, n) : p[1] \in D  BY DEF Tokens
  <2>2. \A p \in {d} \X (1..n[d]) : p[1] = d  OBVIOUS
  <2> QED  BY <2>1, <2>2
<1>3. IsFiniteSet(Tokens(D, n)) /\ Cardinality(Tokens(D, n)) \in Nat  BY TokensAreFinite DEF Total
<1>4. IsFiniteSet({d} \X (1..n[d])) /\ Cardinality({d} \X (1..n[d])) = n[d]  BY ColumnCounts
<1>5. PICK A, B : A = Tokens(D, n) /\ B = {d} \X (1..n[d])  OBVIOUS
<1>6. Cardinality(A \cup B) = Cardinality(A) + Cardinality(B) - Cardinality(A \cap B)
  BY <1>3, <1>4, <1>5, FS_Union
<1>7. Cardinality(A \cap B) = 0  BY <1>2, <1>5, FS_EmptySet
<1>8. Cardinality(Tokens(D \cup {d}, n)) = Cardinality(A \cup B)  BY <1>1, <1>5
<1>9. Cardinality(A) = Total(D, n) /\ Cardinality(A) \in Nat /\ Cardinality(B) = n[d]
  BY <1>3, <1>4, <1>5 DEF Total
<1>10. Cardinality(A \cup B) = Cardinality(A) + n[d]  BY <1>6, <1>7, <1>9
<1> QED  BY <1>8, <1>9, <1>10 DEF Total

\* One member counts for something else.
LEMMA TotalChanges ==
  ASSUME NEW D, IsFiniteSet(D), NEW d \in D,
         NEW n, NEW m, \A e \in D : n[e] \in Nat /\ m[e] \in Nat,
         \A e \in D : e # d => n[e] = m[e]
  PROVE  /\ Total(D, m) + n[d] = Total(D, n) + m[d]
         /\ Total(D, m) \in Nat /\ Total(D, n) \in Nat
<1>1. PICK C : C = D \ {d}  OBVIOUS
<1>2. IsFiniteSet(C) /\ d \notin C /\ D = C \cup {d}  BY <1>1, FS_Subset
<1>3. Total(C, n) = Total(C, m)  BY <1>1, TotalIsOfValues
<1>4. Total(D, n) = Total(C, n) + n[d]  BY <1>2, TotalAdds
<1>5. Total(D, m) = Total(C, m) + m[d]  BY <1>2, TotalAdds
<1>6. Total(C, n) \in Nat  BY <1>2, TokensAreFinite
<1> QED  BY <1>2, <1>3, <1>4, <1>5, <1>6

LEMMA TotalIsBounded ==
  ASSUME NEW D, IsFiniteSet(D), NEW b \in Nat, NEW n, \A d \in D : n[d] \in Nat /\ n[d] <= b
  PROVE  Total(D, n) <= Cardinality(D) * b
<1>1. PICK P : P = D \X (1..b)  OBVIOUS
<1>2. IsFiniteSet(1..b) /\ Cardinality(1..b) = b  BY FS_Interval
<1>3. IsFiniteSet(P) /\ Cardinality(P) = Cardinality(D) * b  BY <1>1, <1>2, FS_Product
<1>4. Tokens(D, n) \subseteq P
  <2> SUFFICES ASSUME NEW p \in Tokens(D, n) PROVE p \in P  OBVIOUS
  <2>1. p \in D \X Nat /\ p[2] \in 1..n[p[1]]  BY DEF Tokens
  <2>2. p[1] \in D /\ p[2] \in 1..b  BY <2>1
  <2> QED  BY <2>1, <2>2, <1>1
<1> QED  BY <1>3, <1>4, FS_Subset DEF Total

LEMMA TotalOfNothing ==
  ASSUME NEW D, NEW n, \A d \in D : n[d] = 0
  PROVE  Total(D, n) = 0
<1>1. Tokens(D, n) = {}
  <2> SUFFICES ASSUME NEW p \in Tokens(D, n) PROVE FALSE  OBVIOUS
  <2>1. p[1] \in D /\ p[2] \in 1..n[p[1]]  BY DEF Tokens
  <2> QED  BY <2>1
<1> QED  BY <1>1, FS_EmptySet DEF Total

\* Where a member counts for one or for nothing, the sum is their number.
LEMMA TotalOfOnes ==
  ASSUME NEW D, IsFiniteSet(D), NEW n, NEW E, E = {d \in D : n[d] = 1},
         \A d \in D : n[d] \in {0, 1}
  PROVE  Total(D, n) = Cardinality(E)
<1>1. Tokens(D, n) = E \X {1}
  <2>1. ASSUME NEW p \in Tokens(D, n) PROVE p \in E \X {1}
    <3>1. p \in D \X Nat /\ p[2] \in 1..n[p[1]]  BY DEF Tokens
    <3>2. n[p[1]] = 1  BY <3>1
    <3> QED  BY <3>1, <3>2
  <2>2. ASSUME NEW p \in E \X {1} PROVE p \in Tokens(D, n)
    <3>1. p \in D \X Nat /\ n[p[1]] = 1 /\ p[2] = 1  OBVIOUS
    <3> QED  BY <3>1 DEF Tokens
  <2> QED  BY <2>1, <2>2
<1>2. IsFiniteSet({1}) /\ Cardinality({1}) = 1  BY FS_Singleton
<1>3. IsFiniteSet(E) /\ Cardinality(E) \in Nat  BY FS_Subset, FS_CardinalityType
<1>4. Cardinality(E \X {1}) = Cardinality(E) * Cardinality({1})  BY <1>2, <1>3, FS_Product
<1> QED  BY <1>1, <1>2, <1>3, <1>4 DEF Total

(***************************************************************************)
(* What enrichment may cost.                                               *)
(***************************************************************************)
Most == [s \in Sessions |-> MostOf(s)]
SpendConstants ==
    /\ EnrichmentConstants
    /\ IsFiniteSet(Runs) /\ Runs # {} /\ IsFiniteSet(Sessions)

LEMMA MostIsTyped == ASSUME SpendConstants PROVE \A s \in Sessions : Most[s] \in Nat /\ Most[s] = MostOf(s)
BY DEF SpendConstants, EnrichmentConstants, Most, MostOf

LEMMA CallsAreTokens ==
  ASSUME SpendConstants, NEW v \in SUBSET Sessions
  PROVE  CallsOf(v) = Tokens(v, Most)
<1>1. ASSUME NEW c \in CallsOf(v) PROVE c \in Tokens(v, Most)
  <2>1. PICK s \in v : c \in {s} \X (1..MostOf(s))  BY DEF CallsOf
  <2>2. c[1] = s /\ c[2] \in 1..Most[c[1]] /\ c \in v \X Nat  BY <2>1, MostIsTyped
  <2> QED  BY <2>2 DEF Tokens
<1>2. ASSUME NEW c \in Tokens(v, Most) PROVE c \in CallsOf(v)
  <2>1. c \in v \X Nat /\ c[2] \in 1..Most[c[1]]  BY DEF Tokens
  <2>2. c[1] \in v /\ c \in {c[1]} \X (1..MostOf(c[1]))  BY <2>1, MostIsTyped
  <2> QED  BY <2>2 DEF CallsOf
<1> QED  BY <1>1, <1>2

\* The budget covers whatever the workers of a run have open.
LEMMA BudgetCovers ==
  ASSUME SpendConstants
  PROVE  /\ OpenBudget \in Nat
         /\ \A r \in Runs : \A v \in SUBSET Sessions :
                Cardinality(v) <= Concurrency[r] => Total(v, Most) <= OpenBudget
<1>1. PICK V : V = {w \in SUBSET Sessions : \E r \in Runs : Cardinality(w) <= Concurrency[r]}  OBVIOUS
<1>2. PICK T : T = {Cardinality(CallsOf(v)) : v \in V}  OBVIOUS
<1>3. \A v \in SUBSET Sessions : /\ Cardinality(CallsOf(v)) = Total(v, Most)
                                 /\ Total(v, Most) \in Nat /\ Total(v, Most) <= Total(Sessions, Most)
  <2> SUFFICES ASSUME NEW v \in SUBSET Sessions
               PROVE  /\ Cardinality(CallsOf(v)) = Total(v, Most)
                      /\ Total(v, Most) \in Nat /\ Total(v, Most) <= Total(Sessions, Most)
    OBVIOUS
  <2>1. \A s \in Sessions : Most[s] \in Nat  BY MostIsTyped
  <2>2. \A s \in v : Most[s] \in Nat /\ Most[s] <= Most[s]  BY <2>1
  <2>3. Total(v, Most) <= Total(Sessions, Most) /\ Total(v, Most) \in Nat
    BY <2>1, <2>2, TotalGrows DEF SpendConstants
  <2> QED  BY <2>3, CallsAreTokens DEF Total
<1>4. PICK b \in Nat : b = Total(Sessions, Most)  BY <1>3
<1>5. \A k \in T : k \in Nat /\ k <= b  BY <1>1, <1>2, <1>3, <1>4
<1>6. {} \in V
  <2>1. PICK r \in Runs : TRUE  BY DEF SpendConstants
  <2>2. Cardinality({}) = 0 /\ Concurrency[r] >= 0
    BY FS_EmptySet DEF SpendConstants, EnrichmentConstants
  <2> QED  BY <1>1, <2>1, <2>2
<1>7. PICK U : U = {k + 1 : k \in T}  OBVIOUS
<1>8. U \in SUBSET (1..(b + 1)) /\ U # {}  BY <1>2, <1>5, <1>6, <1>7
<1>9. PICK x \in U : \A y \in U : x >= y
  <2>1. b + 1 \in Nat  OBVIOUS
  <2> QED  BY <1>8, <2>1, GreatestExists
<1>10. PICK z \in T : x = z + 1  BY <1>7, <1>9
<1>11. \A y \in T : z >= y
  <2> SUFFICES ASSUME NEW y \in T PROVE z >= y  OBVIOUS
  <2>1. y + 1 \in U  BY <1>7
  <2>2. x >= y + 1  BY <1>9, <2>1
  <2> QED  BY <1>5, <1>10, <2>2
<1>12. Max(T) \in T /\ \A y \in T : Max(T) >= y  BY <1>11 DEF Max
<1>13. OpenBudget = Max(T)  BY <1>1, <1>2 DEF OpenBudget
<1>14. OpenBudget \in Nat  BY <1>5, <1>12, <1>13
<1>15. ASSUME NEW r \in Runs, NEW v \in SUBSET Sessions, Cardinality(v) <= Concurrency[r]
       PROVE  Total(v, Most) <= OpenBudget
  <2>1. v \in V  BY <1>1, <1>15
  <2>2. Total(v, Most) \in T  BY <1>2, <1>3, <2>1
  <2> QED  BY <1>3, <1>12, <1>13, <1>14, <2>2
<1> QED  BY <1>14, <1>15

(***************************************************************************)
(* What a run has paid and may still pay.                                  *)
(***************************************************************************)
Bound == TotalCap - 1 + OpenBudget

CostsIn(f) == [s \in Sessions |-> f[s].cost]
AnswersIn(f) == [s \in Sessions |-> IF f[s].step = "answered" THEN 1 ELSE 0]
OpenIn(f) == {s \in Sessions : f[s].step \notin {"none", "todo"}}

\* The cost of a session, by how far it is: no call is paid twice that was answered.
CallsOK(s, w) ==
    /\ w.cost <= MostOf(s)
    /\ w.step \in {"none", "todo"} => w.cost = 0
    /\ w.step \in {"todo", "asking", "answered"} => w.part \in 1..PartsOf[s] /\ w.attempt \in 1..2
    /\ w.step = "asking" => w.cost + 3 <= 2 * w.part + w.attempt
    /\ w.step = "answered" => w.cost >= 1 /\ w.cost + 2 <= 2 * w.part + w.attempt

WorkOK(f) == f \in [Sessions -> Works] /\ \A s \in Sessions : CallsOK(s, f[s])

PaidBy(run, f) == run.sum + Total(Sessions, CostsIn(f))
LeftOf(run, f) ==
    IF run.prior + PaidBy(run, f) <= Bound THEN Bound - (run.prior + PaidBy(run, f)) ELSE 0
AnswersOf(f) == Total(Sessions, AnswersIn(f))
OwedBy(run, f) == LeftOf(run, f) + AnswersOf(f)

\* When a session was begun the sum was below the cap.
InTime(run, f) ==
    \/ run.sum = 0 /\ OpenIn(f) = {}
    \/ run.prior + run.sum + Total(OpenIn(f), Most) <= Bound

LEMMA BoundIsTyped == ASSUME SpendConstants PROVE Bound \in Nat /\ Bound >= TotalCap - 1 /\ TotalCap \in Nat
BY BudgetCovers DEF Bound, SpendConstants, EnrichmentConstants

\* Sums over the sessions of one run.
LEMMA SumsOfRun ==
  ASSUME SpendConstants, NEW f, WorkOK(f)
  PROVE  /\ Total(Sessions, CostsIn(f)) \in Nat /\ AnswersOf(f) \in Nat
         /\ Total(OpenIn(f), Most) \in Nat
         /\ AnswersOf(f) <= Total(Sessions, CostsIn(f))
         /\ Total(Sessions, CostsIn(f)) <= Total(OpenIn(f), Most)
<1>1. IsFiniteSet(Sessions) /\ OpenIn(f) \subseteq Sessions  BY DEF SpendConstants, OpenIn
<1>2. ASSUME NEW s \in Sessions
      PROVE  /\ CostsIn(f)[s] \in Nat /\ AnswersIn(f)[s] \in Nat /\ Most[s] \in Nat
             /\ AnswersIn(f)[s] <= CostsIn(f)[s] /\ CostsIn(f)[s] <= Most[s]
             /\ s \notin OpenIn(f) => CostsIn(f)[s] = 0
  <2>1. f[s] \in Works /\ CallsOK(s, f[s])  BY DEF WorkOK
  <2>2. f[s].cost \in Nat  BY <2>1 DEF Works
  <2> QED  BY <2>1, <2>2, MostIsTyped DEF CostsIn, AnswersIn, OpenIn, CallsOK
<1>3. PICK c, a : c = CostsIn(f) /\ a = AnswersIn(f)  OBVIOUS
<1>4. /\ \A s \in Sessions : c[s] \in Nat
      /\ \A s \in Sessions : a[s] \in Nat /\ a[s] <= c[s]
  BY <1>2, <1>3
<1>5. Total(Sessions, a) <= Total(Sessions, c) /\ Total(Sessions, a) \in Nat /\ Total(Sessions, c) \in Nat
  BY <1>1, <1>4, TotalGrows
<1>6. Tokens(Sessions, c) \subseteq Tokens(OpenIn(f), Most)
  <2> SUFFICES ASSUME NEW p \in Tokens(Sessions, c) PROVE p \in Tokens(OpenIn(f), Most)  OBVIOUS
  <2>1. p \in Sessions \X Nat /\ p[2] \in 1..c[p[1]]  BY DEF Tokens
  <2>2. p[1] \in Sessions /\ p[2] \in Nat  BY <2>1
  <2>3. p[1] \in OpenIn(f)  BY <1>2, <1>3, <2>1, <2>2
  <2>4. p[2] \in 1..Most[p[1]]  BY <1>2, <1>3, <2>1, <2>2
  <2>5. p \in OpenIn(f) \X Nat  BY <2>1, <2>3
  <2> QED  BY <2>4, <2>5 DEF Tokens
<1>7. IsFiniteSet(OpenIn(f))  BY <1>1, FS_Subset
<1>8. \A s \in OpenIn(f) : Most[s] \in Nat  BY <1>1, <1>2
<1>9. IsFiniteSet(Tokens(OpenIn(f), Most)) /\ Total(OpenIn(f), Most) \in Nat
  BY <1>7, <1>8, TokensAreFinite
<1>10. Total(Sessions, c) <= Total(OpenIn(f), Most)  BY <1>6, <1>9, FS_Subset DEF Total
<1> QED  BY <1>3, <1>5, <1>9, <1>10 DEF AnswersOf

\* A run that has paid anything has not paid too much.
LEMMA PaidFits ==
  ASSUME SpendConstants, NEW run \in Summaries, NEW f, WorkOK(f), InTime(run, f),
         run.sum # 0 \/ OpenIn(f) # {}
  PROVE  run.prior + PaidBy(run, f) <= Bound
<1>1. run.prior \in Nat /\ run.sum \in Nat  BY DEF Summaries
<1>2. run.prior + run.sum + Total(OpenIn(f), Most) <= Bound  BY DEF InTime
<1> QED  BY <1>1, <1>2, SumsOfRun, BoundIsTyped DEF PaidBy

LEMMA OwedIsBounded ==
  ASSUME SpendConstants, NEW run \in Summaries, NEW f, WorkOK(f), InTime(run, f)
  PROVE  /\ OwedBy(run, f) \in Nat /\ OwedBy(run, f) <= Bound
         /\ AnswersOf(f) \in Nat /\ AnswersOf(f) <= OwedBy(run, f)
         /\ LeftOf(run, f) \in Nat /\ PaidBy(run, f) \in Nat
<1>1. run.prior \in Nat /\ run.sum \in Nat  BY DEF Summaries
<1>2. PaidBy(run, f) \in Nat /\ AnswersOf(f) <= PaidBy(run, f) /\ AnswersOf(f) \in Nat
  BY <1>1, SumsOfRun DEF PaidBy
<1>3. LeftOf(run, f) \in Nat  BY <1>1, <1>2, BoundIsTyped DEF LeftOf
<1>4. OwedBy(run, f) <= Bound
  <2>1. CASE run.prior + PaidBy(run, f) <= Bound
    BY <1>1, <1>2, <2>1, BoundIsTyped DEF OwedBy, LeftOf
  <2>2. CASE ~(run.prior + PaidBy(run, f) <= Bound)
    <3>1. OpenIn(f) = {}  BY <2>2, PaidFits
    <3>2. \A s \in Sessions : AnswersIn(f)[s] = 0  BY <3>1 DEF AnswersIn, OpenIn
    <3>3. AnswersOf(f) = 0  BY <3>2, TotalOfNothing DEF AnswersOf
    <3> QED  BY <2>2, <3>3, BoundIsTyped DEF OwedBy, LeftOf
  <2> QED  BY <2>1, <2>2
<1> QED  BY <1>2, <1>3, <1>4 DEF OwedBy

Current == {r \in Runs : InProgress(r)}
Answers == [r \in Runs |-> AnswersOf(work[r])]
Owed == [r \in Runs |-> OwedBy(runs[r], work[r])]

SpendInv ==
    /\ ResultInv /\ spent \in Nat /\ unrecorded \in Nat
    /\ \A r \in Runs : runs[r].phase = "new" => runs[r].sum = 0
    /\ \A r \in Runs : WorkOK(work[r])
    /\ \A r \in Runs : InProgress(r) => InTime(runs[r], work[r])
    /\ spent = ledger + unrecorded + Total(Current, Answers)
    /\ ledger + Total(Current, Owed) <= peak * Bound

LEMMA SpendIsTyped ==
  ASSUME SpendConstants, SpendInv
  PROVE  /\ ledger \in Nat /\ peak \in Nat /\ spent \in Nat /\ unrecorded \in Nat
         /\ runs \in [Runs -> Summaries] /\ work \in [Runs -> [Sessions -> Works]]
         /\ \A r \in Runs : runs[r] \in Summaries /\ WorkOK(work[r])
         /\ \A r \in Current : /\ r \in Runs /\ InTime(runs[r], work[r])
                               /\ Answers[r] = AnswersOf(work[r]) /\ Answers[r] \in Nat
                               /\ Owed[r] = OwedBy(runs[r], work[r]) /\ Owed[r] \in Nat
                               /\ Answers[r] <= Owed[r] /\ Owed[r] <= Bound
         /\ IsFiniteSet(Current)
         /\ Total(Current, Answers) \in Nat /\ Total(Current, Owed) \in Nat
         /\ Total(Current, Answers) <= Total(Current, Owed)
<1>1. /\ ledger \in Nat /\ peak \in Nat /\ spent \in Nat /\ unrecorded \in Nat
      /\ runs \in [Runs -> Summaries] /\ work \in [Runs -> [Sessions -> Works]]
  BY DEF SpendInv, ResultInv, EnrichmentTypeOK
<1>2. \A r \in Runs : runs[r] \in Summaries /\ WorkOK(work[r])  BY <1>1 DEF SpendInv
<1>3. ASSUME NEW r \in Current
      PROVE  /\ r \in Runs /\ InTime(runs[r], work[r])
             /\ Answers[r] = AnswersOf(work[r]) /\ Answers[r] \in Nat
             /\ Owed[r] = OwedBy(runs[r], work[r]) /\ Owed[r] \in Nat
             /\ Answers[r] <= Owed[r] /\ Owed[r] <= Bound
  <2>1. r \in Runs /\ InTime(runs[r], work[r])  BY DEF Current, SpendInv
  <2>2. Answers[r] = AnswersOf(work[r]) /\ Owed[r] = OwedBy(runs[r], work[r])
    BY <2>1 DEF Answers, Owed
  <2>3. /\ OwedBy(runs[r], work[r]) \in Nat /\ OwedBy(runs[r], work[r]) <= Bound
        /\ AnswersOf(work[r]) \in Nat /\ AnswersOf(work[r]) <= OwedBy(runs[r], work[r])
    BY <1>2, <2>1, OwedIsBounded
  <2> QED  BY <2>1, <2>2, <2>3
<1>4. IsFiniteSet(Current)  BY FS_Subset DEF Current, SpendConstants
<1>5. PICK a, o : a = Answers /\ o = Owed  OBVIOUS
<1>6. (\A r \in Current : o[r] \in Nat) /\ (\A r \in Current : a[r] \in Nat /\ a[r] <= o[r])
  BY <1>3, <1>5
<1>7. Total(Current, a) <= Total(Current, o) /\ Total(Current, a) \in Nat /\ Total(Current, o) \in Nat
  BY <1>4, <1>6, TotalGrows
<1> QED  BY <1>1, <1>2, <1>3, <1>4, <1>5, <1>7

\* The invariant is about the runs in progress as a whole.
LEMMA InvIsBounded == ASSUME SpendConstants, SpendInv PROVE SpendIsBounded
<1>1. PICK k : k = peak * Bound  OBVIOUS
<1>2. k \in Nat  BY <1>1, SpendIsTyped, BoundIsTyped
<1>3. ledger + Total(Current, Owed) <= k /\ spent = ledger + unrecorded + Total(Current, Answers)
  BY <1>1 DEF SpendInv
<1>4. spent <= k + unrecorded  BY <1>2, <1>3, SpendIsTyped
<1> QED  BY <1>1, <1>4 DEF SpendIsBounded, Bound

LEMMA SpendInit == ASSUME SpendConstants, EnrichmentInit PROVE SpendInv
<1>1. ResultInv  BY ResultInit DEF SpendConstants
<1>2. Current = {}  BY DEF EnrichmentInit, Current, InProgress
<1>3. ASSUME NEW n PROVE Total(Current, n) = 0  BY <1>2, TotalOfNothing
<1>4. ASSUME NEW r \in Runs PROVE WorkOK(work[r])
  <2>1. work[r] = [s \in Sessions |-> NoWork]  BY DEF EnrichmentInit
  <2>2. \A s \in Sessions : MostOf(s) \in Nat  BY MostIsTyped
  <2> QED  BY <2>1, <2>2 DEF WorkOK, NoWork, CallsOK, Works, WorkSteps
<1>5. /\ spent = 0 /\ unrecorded = 0 /\ ledger = 0 /\ peak = 0
      /\ \A r \in Runs : runs[r].phase = "new" /\ runs[r].sum = 0
  BY DEF EnrichmentInit
<1>6. 0 + Total(Current, Owed) <= 0 * Bound  BY <1>3, BoundIsTyped
<1>7. \A r \in Runs : ~InProgress(r)  BY <1>5 DEF InProgress
<1> QED  BY <1>1, <1>3, <1>4, <1>5, <1>6, <1>7 DEF SpendInv

(***************************************************************************)
(* A run goes on, with what it owes and has been answered; or it stops.    *)
(***************************************************************************)
LEMMA OthersStay ==
  ASSUME SpendConstants, SpendInv, NEW r \in Runs, NEW x \in Summaries, NEW f \in [Sessions -> Works],
         runs' = [runs EXCEPT ![r] = x], work' = [work EXCEPT ![r] = f]
  PROVE  /\ runs'[r] = x /\ work'[r] = f
         /\ Answers'[r] = AnswersOf(f) /\ Owed'[r] = OwedBy(x, f)
         /\ \A q \in Runs : q # r => /\ runs'[q] = runs[q] /\ work'[q] = work[q]
                                     /\ Answers'[q] = Answers[q] /\ Owed'[q] = Owed[q]
                                     /\ InProgress(q)' <=> InProgress(q)
<1>1. /\ runs'[r] = x /\ work'[r] = f
      /\ \A q \in Runs : q # r => runs'[q] = runs[q] /\ work'[q] = work[q]
  BY SpendIsTyped
<1>2. \A q \in Runs : Answers'[q] = AnswersOf(work'[q]) /\ Owed'[q] = OwedBy(runs'[q], work'[q])
  BY DEF Answers, Owed, AnswersOf, OwedBy, LeftOf, PaidBy
<1>3. \A q \in Runs : Answers[q] = AnswersOf(work[q]) /\ Owed[q] = OwedBy(runs[q], work[q])
  BY DEF Answers, Owed
<1> QED  BY <1>1, <1>2, <1>3 DEF InProgress

LEMMA RunGoesOn ==
  ASSUME SpendConstants, SpendInv, ResultInv', NEW r \in Runs, InProgress(r),
         NEW x \in Summaries, x.phase = "running", NEW f, WorkOK(f), InTime(x, f),
         runs' = [runs EXCEPT ![r] = x], work' = [work EXCEPT ![r] = f],
         spent' \in Nat, unrecorded' \in Nat, peak' = peak,
         spent' + ledger + unrecorded + AnswersOf(work[r]) = spent + ledger' + unrecorded' + AnswersOf(f),
         ledger' + OwedBy(x, f) <= ledger + OwedBy(runs[r], work[r])
  PROVE  SpendInv'
<1>1. f \in [Sessions -> Works]  BY DEF WorkOK
<1>2. /\ runs'[r] = x /\ work'[r] = f
      /\ Answers'[r] = AnswersOf(f) /\ Owed'[r] = OwedBy(x, f)
      /\ \A q \in Runs : q # r => /\ runs'[q] = runs[q] /\ work'[q] = work[q]
                                  /\ Answers'[q] = Answers[q] /\ Owed'[q] = Owed[q]
                                  /\ InProgress(q)' <=> InProgress(q)
  BY <1>1, OthersStay
<1>3. Current' = Current /\ r \in Current
  BY <1>2 DEF Current, InProgress
<1>4. /\ AnswersOf(f) \in Nat /\ OwedBy(x, f) \in Nat  BY OwedIsBounded
<1>5. \A q \in Current : /\ Answers[q] \in Nat /\ Answers'[q] \in Nat /\ Owed[q] \in Nat /\ Owed'[q] \in Nat
                         /\ q # r => Answers[q] = Answers'[q] /\ Owed[q] = Owed'[q]
  BY <1>2, <1>4, SpendIsTyped
<1>6. PICK a, b, o, p : a = Answers /\ b = Answers' /\ o = Owed /\ p = Owed'  OBVIOUS
<1>f. IsFiniteSet(Current) /\ r \in Current  BY <1>3, SpendIsTyped
<1>g. (\A q \in Current : a[q] \in Nat /\ b[q] \in Nat) /\ \A q \in Current : q # r => a[q] = b[q]
  BY <1>5, <1>6
<1>h. (\A q \in Current : o[q] \in Nat /\ p[q] \in Nat) /\ \A q \in Current : q # r => o[q] = p[q]
  BY <1>5, <1>6
<1>7. /\ Total(Current, b) + a[r] = Total(Current, a) + b[r]
      /\ Total(Current, b) \in Nat /\ Total(Current, a) \in Nat
  BY <1>f, <1>g, TotalChanges
<1>8. /\ Total(Current, p) + o[r] = Total(Current, o) + p[r]
      /\ Total(Current, p) \in Nat /\ Total(Current, o) \in Nat
  BY <1>f, <1>h, TotalChanges
<1>9. a[r] = AnswersOf(work[r]) /\ o[r] = OwedBy(runs[r], work[r]) /\ a[r] \in Nat /\ o[r] \in Nat
  BY <1>3, <1>6, SpendIsTyped
<1>10. ledger \in Nat /\ ledger' \in Nat /\ spent \in Nat /\ unrecorded \in Nat
  BY SpendIsTyped DEF ResultInv, EnrichmentTypeOK
<1>11. Total(Current, Answers)' = Total(Current, b) /\ Total(Current, Owed)' = Total(Current, p)
  BY <1>3, <1>6 DEF Total, Tokens
<1>12. spent' = ledger' + unrecorded' + Total(Current, b)
  <2>1. spent = ledger + unrecorded + Total(Current, a)  BY <1>6 DEF SpendInv
  <2> QED  BY <2>1, <1>2, <1>4, <1>6, <1>7, <1>9, <1>10
<1>13. ledger' + Total(Current, p) <= (peak * Bound)'
  <2>1. PICK k : k = peak * Bound  OBVIOUS
  <2>2. k \in Nat /\ (peak * Bound)' = k  BY <2>1, SpendIsTyped, BoundIsTyped DEF Bound, OpenBudget, CallsOf, MostOf
  <2>3. ledger + Total(Current, o) <= k  BY <2>1, <1>6 DEF SpendInv
  <2> QED  BY <2>2, <2>3, <1>2, <1>4, <1>6, <1>8, <1>9, <1>10
<1>14. ASSUME NEW q \in Runs
       PROVE  /\ runs'[q].phase = "new" => runs'[q].sum = 0
              /\ WorkOK(work[q])'
              /\ InProgress(q)' => InTime(runs[q], work[q])'
  <2>1. CASE q = r  BY <2>1, <1>2
  <2>2. CASE q # r  BY <2>2, <1>2 DEF SpendInv
  <2> QED  BY <2>1, <2>2
<1> QED  BY <1>11, <1>12, <1>13, <1>14 DEF SpendInv

LEMMA ProductGrows ==
  ASSUME NEW i \in Nat, NEW j \in Nat, NEW b \in Nat, i <= j
  PROVE  i * b <= j * b /\ (i + 1) * b = i * b + b /\ i * b \in Nat /\ j * b \in Nat
<1>1. PICK d \in Nat : j = i + d
  <2>1. j - i \in Nat /\ j = i + (j - i)  OBVIOUS
  <2> QED  BY <2>1
<1>2. d * b \in Nat /\ i * b \in Nat  OBVIOUS
<1>3. (i + d) * b = i * b + d * b  OBVIOUS
<1> QED  BY <1>1, <1>2, <1>3

LEMMA BoundStays == Bound' = Bound
BY DEF Bound, OpenBudget, CallsOf, MostOf

LEMMA NothingAnswered ==
  ASSUME NEW f, \A s \in Sessions : f[s].step # "answered"
  PROVE  AnswersOf(f) = 0
<1>1. \A s \in Sessions : AnswersIn(f)[s] = 0  BY DEF AnswersIn
<1> QED  BY <1>1, TotalOfNothing DEF AnswersOf

LEMMA NothingBegun ==
  ASSUME SpendConstants, NEW f, \A s \in Sessions : f[s] \in {NoWork, NotBegun}
  PROVE  /\ AnswersOf(f) = 0 /\ OpenIn(f) = {} /\ Total(Sessions, CostsIn(f)) = 0
         /\ f \in [Sessions -> Works] => WorkOK(f)
<1>1. AnswersOf(f) = 0 /\ OpenIn(f) = {}
  BY NothingAnswered DEF OpenIn, NoWork, NotBegun
<1>2. \A s \in Sessions : CostsIn(f)[s] = 0  BY DEF CostsIn, NoWork, NotBegun
<1>3. Total(Sessions, CostsIn(f)) = 0  BY <1>2, TotalOfNothing
<1>4. \A s \in Sessions : MostOf(s) \in Nat /\ PartsOf[s] \in Nat \ {0}
  BY MostIsTyped DEF SpendConstants, EnrichmentConstants
<1>5. \A s \in Sessions : CallsOK(s, f[s])
  <2> SUFFICES ASSUME NEW s \in Sessions PROVE CallsOK(s, f[s])  OBVIOUS
  <2>1. CASE f[s] = NoWork  BY <2>1, <1>4 DEF CallsOK, NoWork
  <2>2. CASE f[s] = NotBegun  BY <2>2, <1>4 DEF CallsOK, NotBegun
  <2> QED  BY <2>1, <2>2
<1> QED  BY <1>1, <1>3, <1>5 DEF WorkOK

LEMMA RunIsOver ==
  ASSUME SpendConstants, SpendInv, ResultInv', NEW r \in Runs, InProgress(r),
         NEW x \in Summaries, x.phase = "ended", NEW f, WorkOK(f),
         runs' = [runs EXCEPT ![r] = x], work' = [work EXCEPT ![r] = f],
         ledger' = ledger, spent' = spent, peak' = peak,
         unrecorded' = unrecorded + AnswersOf(work[r])
  PROVE  SpendInv'
<1>1. f \in [Sessions -> Works]  BY DEF WorkOK
<1>2. /\ runs'[r] = x /\ work'[r] = f
      /\ \A q \in Runs : q # r => /\ runs'[q] = runs[q] /\ work'[q] = work[q]
                                  /\ Answers'[q] = Answers[q] /\ Owed'[q] = Owed[q]
                                  /\ InProgress(q)' <=> InProgress(q)
  BY <1>1, OthersStay
<1>3. ~InProgress(r)'  BY <1>2 DEF InProgress
<1>4. PICK C, a, b, o, p : /\ C = Current \ {r} /\ a = Answers /\ b = Answers' /\ o = Owed /\ p = Owed'
  OBVIOUS
<1>5. Current' = C /\ Current = C \cup {r} /\ r \notin C /\ r \in Current
  BY <1>2, <1>3, <1>4 DEF Current
<1>6. IsFiniteSet(C)  BY <1>5, SpendIsTyped, FS_Subset
<1>7. /\ \A q \in C : a[q] = b[q] /\ o[q] = p[q] /\ a[q] \in Nat /\ o[q] \in Nat
      /\ a[r] \in Nat /\ o[r] \in Nat /\ a[r] = AnswersOf(work[r])
  <2>1. \A q \in C : q \in Current /\ q # r /\ q \in Runs  BY <1>5, SpendIsTyped
  <2> QED  BY <1>2, <1>4, <1>5, <2>1, SpendIsTyped
<1>8. Total(C, b) = Total(C, a) /\ Total(C, p) = Total(C, o)  BY <1>7, TotalIsOfValues
<1>9. Total(C \cup {r}, a) = Total(C, a) + a[r]  BY <1>5, <1>6, <1>7, TotalAdds
<1>10. Total(C \cup {r}, o) = Total(C, o) + o[r]  BY <1>5, <1>6, <1>7, TotalAdds
<1>11. Total(C, a) \in Nat /\ Total(C, o) \in Nat  BY <1>6, <1>7, TokensAreFinite
<1>12. Total(Current, Answers)' = Total(C, b) /\ Total(Current, Owed)' = Total(C, p)
  BY <1>4, <1>5 DEF Total, Tokens
<1>13. unrecorded' \in Nat /\ spent' = ledger' + unrecorded' + Total(C, b)
  <2>1. spent = ledger + unrecorded + Total(C \cup {r}, a)  BY <1>4, <1>5 DEF SpendInv
  <2> QED  BY <2>1, <1>7, <1>8, <1>9, <1>11, SpendIsTyped
<1>14. ledger' + Total(C, p) <= (peak * Bound)'
  <2>1. PICK k : k = peak * Bound  OBVIOUS
  <2>2. k \in Nat /\ (peak * Bound)' = k  BY <2>1, SpendIsTyped, BoundIsTyped, BoundStays
  <2>3. ledger + Total(C \cup {r}, o) <= k  BY <2>1, <1>4, <1>5 DEF SpendInv
  <2> QED  BY <2>2, <2>3, <1>7, <1>8, <1>10, <1>11, SpendIsTyped
<1>15. ASSUME NEW q \in Runs
       PROVE  /\ runs'[q].phase = "new" => runs'[q].sum = 0
              /\ WorkOK(work[q])'
              /\ InProgress(q)' => InTime(runs[q], work[q])'
  <2>1. CASE q = r  BY <2>1, <1>2, <1>3
  <2>2. CASE q # r  BY <2>2, <1>2 DEF SpendInv
  <2> QED  BY <2>1, <2>2
<1>16. spent' \in Nat  BY SpendIsTyped
<1> QED  BY <1>12, <1>13, <1>14, <1>15, <1>16 DEF SpendInv

LEMMA RunStops ==
  ASSUME SpendConstants, SpendInv, ResultInv', NEW r \in Runs, InProgress(r),
         runs' = [runs EXCEPT ![r].phase = "ended"],
         work' = [work EXCEPT ![r] = [s \in Sessions |-> NoWork]],
         ledger' = ledger, spent' = spent, peak' = peak,
         unrecorded' = unrecorded + AnswersOf(work[r])
  PROVE  SpendInv'
<1>1. PICK f : f = [s \in Sessions |-> NoWork]  OBVIOUS
<1>2. f \in [Sessions -> Works]  BY <1>1 DEF NoWork, Works, WorkSteps
<1>3. WorkOK(f)  BY <1>1, <1>2, NothingBegun
<1>4. PICK x : x = [runs[r] EXCEPT !.phase = "ended"]  OBVIOUS
<1>5. x \in Summaries /\ x.phase = "ended"  BY <1>4, SpendIsTyped DEF Summaries
<1>6. runs' = [runs EXCEPT ![r] = x] /\ work' = [work EXCEPT ![r] = f]  BY <1>1, <1>4
<1> QED  BY <1>3, <1>5, <1>6, RunIsOver

LEMMA EndOfRun ==
  ASSUME SpendConstants, SpendInv, ResultInv', NEW r \in Runs, EndRun(r) \/ Crash(r)
  PROVE  SpendInv'
<1>1. CASE EndRun(r)
  <2>1. AnswersOf(work[r]) = 0  BY <1>1, NothingAnswered DEF EndRun, Active
  <2>2. unrecorded' = unrecorded + AnswersOf(work[r])
    BY <1>1, <2>1, SpendIsTyped DEF EndRun, paidHistory
  <2> QED  BY <1>1, <2>2, RunStops DEF EndRun, paidHistory
<1>2. CASE Crash(r)
  <2>1. PICK E : E = {s \in Sessions : work[r][s].step = "answered"}  OBVIOUS
  <2>2. PICK a : a = AnswersIn(work[r])  OBVIOUS
  <2>3. E = {s \in Sessions : a[s] = 1} /\ \A s \in Sessions : a[s] \in {0, 1}
    BY <2>1, <2>2 DEF AnswersIn
  <2>4. IsFiniteSet(Sessions)  BY DEF SpendConstants
  <2>5. Total(Sessions, a) = Cardinality(E)  BY <2>3, <2>4, TotalOfOnes
  <2>6. unrecorded' = unrecorded + AnswersOf(work[r])
    BY <1>2, <2>1, <2>2, <2>5 DEF Crash, AnswersOf
  <2> QED  BY <1>2, <2>6, RunStops DEF Crash
<1> QED  BY <1>1, <1>2

(***************************************************************************)
(* A run that begins owes what the ledger leaves of its bound, and the     *)
(* others owe no more than theirs each.                                    *)
(***************************************************************************)
LEMMA PlanBegins ==
  ASSUME SpendConstants, SpendInv, ResultInv', NEW r \in Runs, Plan(r),
         NEW x \in Summaries, NEW f, WorkOK(f), AnswersOf(f) = 0, OpenIn(f) = {}, Total(Sessions, CostsIn(f)) = 0,
         runs' = [runs EXCEPT ![r] = x], work' = [work EXCEPT ![r] = f],
         x.phase \in {"running", "ended"}, x.prior = ledger, x.sum = 0
  PROVE  SpendInv'
<1>1. f \in [Sessions -> Works] /\ InTime(x, f)  BY DEF WorkOK, InTime
<1>2. /\ runs'[r] = x /\ work'[r] = f
      /\ Answers'[r] = AnswersOf(f) /\ Owed'[r] = OwedBy(x, f)
      /\ \A q \in Runs : q # r => /\ runs'[q] = runs[q] /\ work'[q] = work[q]
                                  /\ Answers'[q] = Answers[q] /\ Owed'[q] = Owed[q]
                                  /\ InProgress(q)' <=> InProgress(q)
  BY <1>1, OthersStay
<1>3. PICK C, a, b, o, p : C = Current /\ a = Answers /\ b = Answers' /\ o = Owed /\ p = Owed'
  OBVIOUS
<1>4. r \notin C  BY <1>3 DEF Current, InProgress, Plan
<1>5. /\ IsFiniteSet(C)
      /\ \A q \in C : a[q] \in Nat /\ o[q] \in Nat /\ o[q] <= Bound /\ b[q] = a[q] /\ p[q] = o[q]
  <2>1. \A q \in C : q \in Current /\ q # r /\ q \in Runs  BY <1>3, <1>4, SpendIsTyped
  <2> QED  BY <1>2, <1>3, <2>1, SpendIsTyped
<1>6. Total(C, b) = Total(C, a) /\ Total(C, p) = Total(C, o)  BY <1>5, TotalIsOfValues
<1>7. Total(C, a) \in Nat /\ Total(C, o) \in Nat /\ Cardinality(C) \in Nat
  BY <1>5, TokensAreFinite, FS_CardinalityType
<1>8. Total(C, o) <= Cardinality(C) * Bound  BY <1>5, BoundIsTyped, TotalIsBounded
<1>9. peak' \in Nat /\ peak' >= peak /\ peak' >= 1 + Cardinality(C)
  <2>1. PICK n \in Nat : n = 1 + Cardinality(C)  BY <1>7
  <2>2. peak' = Max({peak, n})  BY <1>3, <2>1 DEF Plan, Current
  <2> QED  BY <2>1, <2>2, SpendIsTyped, MaxOfTwo
<1>10. PICK k, l, c : k = peak * Bound /\ l = peak' * Bound /\ c = Cardinality(C) * Bound  OBVIOUS
<1>11. k \in Nat /\ l \in Nat /\ c \in Nat /\ k <= l /\ c + Bound <= l
  <2>1. k <= l /\ k \in Nat /\ l \in Nat  BY <1>9, <1>10, SpendIsTyped, BoundIsTyped, ProductGrows
  <2>2. PICK i \in Nat : i = Cardinality(C)  BY <1>7
  <2>3. PICK j \in Nat : j = i + 1  OBVIOUS
  <2>4. j * Bound <= l  BY <1>9, <1>10, <2>2, <2>3, BoundIsTyped, ProductGrows
  <2>5. j * Bound = c + Bound /\ c \in Nat  BY <1>10, <2>2, <2>3, BoundIsTyped, ProductGrows
  <2> QED  BY <2>1, <2>4, <2>5
<1>12. ledger + Total(C, o) <= k /\ spent = ledger + unrecorded + Total(C, a)
  BY <1>3, <1>10 DEF SpendInv
<1>13. p[r] \in Nat /\ b[r] = 0 /\ (ledger <= Bound => p[r] = Bound - ledger) /\ (ledger > Bound => p[r] = 0)
  <2>1. PaidBy(x, f) = 0  BY DEF PaidBy
  <2>2. p[r] = LeftOf(x, f)  BY <1>2, <1>3, OwedIsBounded, <1>1 DEF OwedBy
  <2> QED  BY <1>2, <1>3, <2>1, <2>2, SpendIsTyped, BoundIsTyped DEF LeftOf
<1>14. UNCHANGED <<ledger, spent, unrecorded>>  BY DEF Plan
<1>15. Total(Current, Answers)' = Total(Current', b) /\ Total(Current, Owed)' = Total(Current', p)
  BY <1>3 DEF Total, Tokens
<1>16. spent = ledger + unrecorded + Total(Current', b) /\ ledger + Total(Current', p) <= l
  <2>1. CASE x.phase = "ended"
    <3>1. Current' = C  BY <1>2, <1>3, <1>4, <2>1 DEF Current, InProgress
    <3> QED  BY <3>1, <1>6, <1>7, <1>11, <1>12, SpendIsTyped
  <2>2. CASE x.phase = "running"
    <3>1. Current' = C \cup {r}  BY <1>2, <1>3, <1>4, <2>2 DEF Current, InProgress
    <3>2. Total(C \cup {r}, b) = Total(C, b) + b[r]  BY <1>4, <1>5, <1>13, TotalAdds
    <3>3. Total(C \cup {r}, p) = Total(C, p) + p[r]  BY <1>4, <1>5, <1>13, TotalAdds
    <3>4. Total(Current', b) = Total(C, a) /\ Total(Current', p) = Total(C, o) + p[r]
      BY <3>1, <3>2, <3>3, <1>6, <1>7, <1>13
    <3>5. CASE ledger <= Bound
      BY <3>4, <3>5, <1>7, <1>8, <1>10, <1>11, <1>12, <1>13, SpendIsTyped, BoundIsTyped
    <3>6. CASE ledger > Bound
      BY <3>4, <3>6, <1>7, <1>11, <1>12, <1>13, SpendIsTyped, BoundIsTyped
    <3> QED  BY <3>5, <3>6, SpendIsTyped, BoundIsTyped
  <2> QED  BY <2>1, <2>2
<1>17. (peak * Bound)' = l  BY <1>10, BoundStays
<1>18. ASSUME NEW q \in Runs
       PROVE  /\ runs'[q].phase = "new" => runs'[q].sum = 0
              /\ WorkOK(work[q])'
              /\ InProgress(q)' => InTime(runs[q], work[q])'
  <2>1. CASE q = r  BY <2>1, <1>1, <1>2
  <2>2. CASE q # r  BY <2>2, <1>2 DEF SpendInv
  <2> QED  BY <2>1, <2>2
<1>19. spent' \in Nat /\ unrecorded' \in Nat  BY <1>14, SpendIsTyped
<1> QED  BY <1>14, <1>15, <1>16, <1>17, <1>18, <1>19 DEF SpendInv

LEMMA PlanSpends ==
  ASSUME SpendConstants, SpendInv, ResultInv', NEW r \in Runs, Plan(r)
  PROVE  SpendInv'
<1>1. runs[r].phase = "new" /\ runs[r].sum = 0  BY DEF Plan, SpendInv
<1>2. \A s \in Sessions : work[r][s].step = "none"
  BY <1>1 DEF SpendInv, ResultInv, WorkIsOfRuns, InProgress
<1>3. PICK y \in Summaries : y = runs[r]  BY SpendIsTyped
<1>4. CASE runs' = [runs EXCEPT ![r].phase = "running", ![r].prior = ledger]
           /\ \E chosen \in Chosen(r) :
                 work' = [work EXCEPT ![r] = [s \in Sessions |-> IF s \in chosen THEN NotBegun ELSE NoWork]]
  <2>1. PICK chosen \in Chosen(r) :
           work' = [work EXCEPT ![r] = [s \in Sessions |-> IF s \in chosen THEN NotBegun ELSE NoWork]]
    BY <1>4
  <2>2. PICK f : f = [s \in Sessions |-> IF s \in chosen THEN NotBegun ELSE NoWork]  OBVIOUS
  <2>3. f \in [Sessions -> Works]  BY <2>2 DEF NotBegun, NoWork, Works, WorkSteps
  <2>4. \A s \in Sessions : f[s] \in {NoWork, NotBegun}  BY <2>2
  <2>5. PICK x : x = [y EXCEPT !.phase = "running", !.prior = ledger]  OBVIOUS
  <2>6. x \in Summaries /\ x.phase = "running" /\ x.prior = ledger /\ x.sum = 0
    BY <1>1, <1>3, <2>5, SpendIsTyped DEF Summaries
  <2>7. runs' = [runs EXCEPT ![r] = x]  BY <1>3, <1>4, <2>5, SpendIsTyped
  <2>8. work' = [work EXCEPT ![r] = f]  BY <2>1, <2>2
  <2> QED  BY <2>3, <2>4, <2>6, <2>7, <2>8, NothingBegun, PlanBegins
<1>5. CASE runs' = [runs EXCEPT ![r].phase = "ended", ![r].prior = ledger] /\ UNCHANGED work
  <2>1. PICK f : f = work[r]  OBVIOUS
  <2>2. WorkOK(f) /\ work' = [work EXCEPT ![r] = f]  BY <1>5, <2>1, SpendIsTyped
  <2>3. OpenIn(f) = {} /\ AnswersOf(f) = 0  BY <1>2, <2>1, NothingAnswered DEF OpenIn
  <2>4. \A s \in Sessions : CostsIn(f)[s] = 0  BY <1>2, <2>1, <2>2 DEF CostsIn, WorkOK, CallsOK
  <2>5. Total(Sessions, CostsIn(f)) = 0  BY <2>4, TotalOfNothing
  <2>6. PICK x : x = [y EXCEPT !.phase = "ended", !.prior = ledger]  OBVIOUS
  <2>7. x \in Summaries /\ x.phase = "ended" /\ x.prior = ledger /\ x.sum = 0
    BY <1>1, <1>3, <2>6, SpendIsTyped DEF Summaries
  <2>8. runs' = [runs EXCEPT ![r] = x]  BY <1>3, <1>5, <2>6, SpendIsTyped
  <2> QED  BY <2>2, <2>3, <2>5, <2>7, <2>8, PlanBegins
<1> QED  BY <1>4, <1>5 DEF Plan

Counted(w) == IF w.step = "answered" THEN 1 ELSE 0

\* One session of a run: what it costs moves into the sum, or grows by an answer.
LEMMA SessionSums ==
  ASSUME SpendConstants, NEW g, WorkOK(g), NEW s \in Sessions, NEW w \in Works, CallsOK(s, w),
         NEW f, f = [g EXCEPT ![s] = w]
  PROVE  /\ WorkOK(f)
         /\ Total(Sessions, CostsIn(f)) + g[s].cost = Total(Sessions, CostsIn(g)) + w.cost
         /\ AnswersOf(f) + Counted(g[s]) = AnswersOf(g) + Counted(w)
<1>1. /\ g \in [Sessions -> Works] /\ f \in [Sessions -> Works] /\ f[s] = w
      /\ \A t \in Sessions : t # s => f[t] = g[t]
      /\ \A t \in Sessions : CallsOK(t, g[t])
  BY DEF WorkOK
<1>2. WorkOK(f)  BY <1>1 DEF WorkOK
<1>3. PICK a, b, c, e : a = CostsIn(g) /\ b = CostsIn(f) /\ c = AnswersIn(g) /\ e = AnswersIn(f)
  OBVIOUS
<1>4. /\ \A t \in Sessions : a[t] \in Nat /\ b[t] \in Nat
      /\ \A t \in Sessions : t # s => a[t] = b[t]
      /\ a[s] = g[s].cost /\ b[s] = w.cost
  BY <1>1, <1>3 DEF CostsIn, Works
<1>5. /\ \A t \in Sessions : c[t] \in Nat /\ e[t] \in Nat
      /\ \A t \in Sessions : t # s => c[t] = e[t]
      /\ c[s] = Counted(g[s]) /\ e[s] = Counted(w)
  BY <1>1, <1>3 DEF AnswersIn, Counted
<1>6. IsFiniteSet(Sessions)  BY DEF SpendConstants
<1>7. Total(Sessions, b) + a[s] = Total(Sessions, a) + b[s]  BY <1>4, <1>6, TotalChanges
<1>8. Total(Sessions, e) + c[s] = Total(Sessions, c) + e[s]  BY <1>5, <1>6, TotalChanges
<1> QED  BY <1>2, <1>3, <1>4, <1>5, <1>7, <1>8 DEF AnswersOf

LEMMA SessionStep ==
  ASSUME SpendConstants, SpendInv, ResultInv', NEW r \in Runs, NEW s \in Sessions,
         work[r][s].step # "none",
         NEW w \in Works, CallsOK(s, w), NEW f, f = [work[r] EXCEPT ![s] = w],
         work' = [work EXCEPT ![r] = f],
         NEW x \in Summaries, runs' = [runs EXCEPT ![r] = x],
         x.phase = runs[r].phase, x.prior = runs[r].prior, InTime(x, f),
         NEW d \in {0, 1}, x.sum + w.cost = runs[r].sum + work[r][s].cost + d,
         d = 1 => OpenIn(f) # {},
         peak' = peak, spent' \in Nat, unrecorded' \in Nat,
         spent' + ledger + unrecorded + Counted(work[r][s]) = spent + ledger' + unrecorded' + Counted(w),
         ledger' + Counted(w) <= ledger + Counted(work[r][s]) + d
  PROVE  SpendInv'
<1>1. InProgress(r)  BY DEF SpendInv, ResultInv, WorkIsOfRuns
<1>2. PICK g, y, v : g = work[r] /\ y = runs[r] /\ v = g[s]  OBVIOUS
<1>3. WorkOK(g) /\ y \in Summaries /\ InTime(y, g)  BY <1>1, <1>2, SpendIsTyped DEF SpendInv
<1>4. /\ WorkOK(f)
      /\ Total(Sessions, CostsIn(f)) + v.cost = Total(Sessions, CostsIn(g)) + w.cost
      /\ AnswersOf(f) + Counted(v) = AnswersOf(g) + Counted(w)
  BY <1>2, <1>3, SessionSums
<1>5. /\ y.sum \in Nat /\ y.prior \in Nat /\ x.sum \in Nat /\ w.cost \in Nat /\ v.cost \in Nat
      /\ Counted(v) \in Nat /\ Counted(w) \in Nat
  <2>1. v \in Works  BY <1>2, <1>3 DEF WorkOK
  <2> QED  BY <1>3, <2>1 DEF Summaries, Works, Counted
<1>6. /\ Total(Sessions, CostsIn(f)) \in Nat /\ Total(Sessions, CostsIn(g)) \in Nat
      /\ AnswersOf(f) \in Nat /\ AnswersOf(g) \in Nat
  BY <1>3, <1>4, SumsOfRun
<1>7. PaidBy(x, f) = PaidBy(y, g) + d /\ PaidBy(y, g) \in Nat
  <2>1. x.sum + w.cost = y.sum + v.cost + d  BY <1>2
  <2>2. PaidBy(x, f) = x.sum + Total(Sessions, CostsIn(f)) /\ PaidBy(y, g) = y.sum + Total(Sessions, CostsIn(g))
    BY DEF PaidBy
  <2>3. PICK m, n : m = Total(Sessions, CostsIn(f)) /\ n = Total(Sessions, CostsIn(g))  OBVIOUS
  <2>4. m \in Nat /\ n \in Nat /\ m + v.cost = n + w.cost /\ d \in Nat  BY <1>4, <1>6, <2>3
  <2>5. x.sum + m = y.sum + n + d /\ y.sum + n \in Nat  BY <2>1, <2>4, <1>5
  <2> QED  BY <2>2, <2>3, <2>5
<1>8. LeftOf(y, g) = LeftOf(x, f) + d
  <2>1. CASE d = 0  BY <1>2, <1>7, <2>1, <1>5, BoundIsTyped DEF LeftOf
  <2>2. CASE d = 1
    <3>1. x.prior + PaidBy(x, f) <= Bound  BY <2>2, <1>4, PaidFits
    <3> QED  BY <1>2, <1>5, <1>7, <2>2, <3>1, BoundIsTyped DEF LeftOf
  <2> QED  BY <2>1, <2>2
<1>9. LeftOf(x, f) \in Nat /\ LeftOf(y, g) \in Nat  BY <1>3, <1>4, OwedIsBounded
<1>10. ledger \in Nat /\ ledger' \in Nat /\ spent \in Nat /\ unrecorded \in Nat
  BY SpendIsTyped DEF ResultInv, EnrichmentTypeOK
<1>11. ledger' + OwedBy(x, f) <= ledger + OwedBy(y, g)
  <2>1. ledger' + Counted(w) <= ledger + Counted(v) + d  BY <1>2
  <2> QED  BY <2>1, <1>4, <1>5, <1>6, <1>8, <1>9, <1>10 DEF OwedBy
<1>12. spent' + ledger + unrecorded + AnswersOf(g) = spent + ledger' + unrecorded' + AnswersOf(f)
  <2>1. spent' + ledger + unrecorded + Counted(v) = spent + ledger' + unrecorded' + Counted(w)  BY <1>2
  <2> QED  BY <2>1, <1>4, <1>5, <1>6, <1>10
<1>13. x.phase = "running"  BY <1>1 DEF InProgress
<1> QED  BY <1>1, <1>2, <1>4, <1>11, <1>12, <1>13, RunGoesOn

\* A session that stays open goes on to another step.
LEMMA OpenGoesOn ==
  ASSUME SpendConstants, SpendInv, ResultInv', NEW r \in Runs, NEW s \in Sessions,
         work[r][s].step \notin {"none", "todo"},
         NEW w \in Works, CallsOK(s, w), w.step \notin {"none", "todo"}, Set(r, s, w), runs' = runs,
         NEW d \in {0, 1}, w.cost = work[r][s].cost + d,
         peak' = peak, spent' \in Nat, unrecorded' \in Nat,
         spent' + ledger + unrecorded + Counted(work[r][s]) = spent + ledger' + unrecorded' + Counted(w),
         ledger' + Counted(w) <= ledger + Counted(work[r][s]) + d
  PROVE  SpendInv'
<1>1. PICK f : f = [work[r] EXCEPT ![s] = w]  OBVIOUS
<1>2. PICK x : x = runs[r]  OBVIOUS
<1>3. WorkOK(work[r]) /\ x \in Summaries /\ InProgress(r)
  BY <1>2, SpendIsTyped DEF SpendInv, ResultInv, WorkIsOfRuns
<1>4. /\ work' = [work EXCEPT ![r] = f] /\ runs' = [runs EXCEPT ![r] = x]
  BY <1>1, <1>2, SpendIsTyped DEF Set
<1>5. OpenIn(f) = OpenIn(work[r]) /\ s \in OpenIn(f)
  BY <1>1, <1>3 DEF OpenIn, WorkOK
<1>6. InTime(x, f)  BY <1>2, <1>3, <1>5 DEF InTime, SpendInv
<1>7. x.sum + w.cost = runs[r].sum + work[r][s].cost + d
  <2>1. x.sum \in Nat /\ work[r][s].cost \in Nat  BY <1>3 DEF Summaries, WorkOK, Works
  <2> QED  BY <1>2, <2>1
<1>8. d = 1 => OpenIn(f) # {}  BY <1>5
<1>9. x.phase = runs[r].phase /\ x.prior = runs[r].prior /\ work[r][s].step # "none"  BY <1>2
<1> QED  BY <1>1, <1>3, <1>4, <1>6, <1>7, <1>8, <1>9, SessionStep

\* A session begins while the sum is below the cap.
LEMMA TakingSpends ==
  ASSUME SpendConstants, SpendInv, ResultInv', NEW r \in Runs, NEW s \in Sessions, TakeSession(r, s)
  PROVE  SpendInv'
<1>1. PICK v : v = work[r][s]  OBVIOUS
<1>2. PICK w : w = [v EXCEPT !.step = "asking"]  OBVIOUS
<1>3. WorkOK(work[r]) /\ runs[r] \in Summaries  BY SpendIsTyped
<1>4. v \in Works /\ CallsOK(s, v) /\ v.step = "todo"  BY <1>1, <1>3 DEF WorkOK, TakeSession
<1>5. w \in Works /\ w.step = "asking" /\ w.cost = v.cost /\ v.cost = 0
  BY <1>2, <1>4 DEF Works, WorkSteps, CallsOK
<1>6. CallsOK(s, w)
  BY <1>2, <1>4, <1>5, MostIsTyped DEF CallsOK, Works, SpendConstants, EnrichmentConstants
<1>7. PICK f : f = [work[r] EXCEPT ![s] = w]  OBVIOUS
<1>8. PICK x : x = runs[r]  OBVIOUS
<1>9. work' = [work EXCEPT ![r] = f] /\ runs' = [runs EXCEPT ![r] = x]
  BY <1>1, <1>2, <1>7, <1>8, SpendIsTyped DEF TakeSession, Step
<1>10. PICK A : A = OpenIn(work[r])  OBVIOUS
<1>11. OpenIn(f) = A \cup {s} /\ s \notin A /\ A = Active(r)
  BY <1>1, <1>3, <1>4, <1>5, <1>7, <1>10 DEF OpenIn, WorkOK, Active
<1>12. Cardinality(A \cup {s}) <= Concurrency[r]
  <2>1. IsFiniteSet(A)  BY <1>10, FS_Subset DEF OpenIn, SpendConstants
  <2>2. Cardinality(A \cup {s}) = Cardinality(A) + 1 /\ Cardinality(A) \in Nat
    BY <1>11, <2>1, FS_AddElement, FS_CardinalityType
  <2>3. Cardinality(A) < Concurrency[r]  BY <1>11 DEF TakeSession
  <2>4. Concurrency[r] \in Nat  BY DEF SpendConstants, EnrichmentConstants
  <2> QED  BY <2>2, <2>3, <2>4
<1>13. Total(OpenIn(f), Most) <= OpenBudget /\ Total(OpenIn(f), Most) \in Nat
  <2>1. OpenIn(f) \in SUBSET Sessions  BY DEF OpenIn
  <2>2. WorkOK(f)  BY <1>3, <1>5, <1>6, <1>7, SessionSums
  <2> QED  BY <1>11, <1>12, <2>1, <2>2, BudgetCovers, SumsOfRun
<1>14. InTime(x, f)
  <2>1. x.prior + x.sum < TotalCap /\ x.prior \in Nat /\ x.sum \in Nat
    BY <1>3, <1>8, BoundIsTyped DEF TakeSession, MayStart, Over, Summaries
  <2>2. x.prior + x.sum + Total(OpenIn(f), Most) <= TotalCap - 1 + OpenBudget
    BY <2>1, <1>13, BudgetCovers, BoundIsTyped
  <2> QED  BY <2>2 DEF InTime, Bound
<1>d. PICK d \in {0, 1} : d = 0  OBVIOUS
<1>15. x.sum + w.cost = runs[r].sum + work[r][s].cost + d /\ (d = 1 => OpenIn(f) # {})
  <2>1. x.sum \in Nat  BY <1>3, <1>8 DEF Summaries
  <2> QED  BY <1>1, <1>5, <1>8, <1>d, <2>1
<1>16. UNCHANGED <<ledger, spent, unrecorded, peak>>  BY DEF TakeSession, paidHistory
<1>17. Counted(w) = 0 /\ Counted(work[r][s]) = 0  BY <1>1, <1>4, <1>5 DEF Counted
<1>18. /\ spent' \in Nat /\ unrecorded' \in Nat
       /\ spent' + ledger + unrecorded + Counted(work[r][s]) = spent + ledger' + unrecorded' + Counted(w)
       /\ ledger' + Counted(w) <= ledger + Counted(work[r][s]) + d
  BY <1>16, <1>17, <1>d, SpendIsTyped
<1>19. x.phase = runs[r].phase /\ x.prior = runs[r].prior /\ work[r][s].step # "none" /\ x \in Summaries
  BY <1>1, <1>3, <1>4, <1>8
<1> QED  BY <1>5, <1>6, <1>7, <1>9, <1>14, <1>15, <1>16, <1>18, <1>19, SessionStep

\* What a session has cost is no more than it was counted for while it was open.
LEMMA AddingSpends ==
  ASSUME SpendConstants, SpendInv, ResultInv', NEW r \in Runs, NEW s \in Sessions,
         work[r][s].step \notin {"none", "todo", "answered"},
         NEW stop \in BOOLEAN, AddUp(r, s, stop),
         ledger' = ledger, spent' = spent, unrecorded' = unrecorded, peak' = peak
  PROVE  SpendInv'
<1>1. PICK v, y, g : g = work[r] /\ v = g[s] /\ y = runs[r]  OBVIOUS
<1>2. WorkOK(g) /\ y \in Summaries /\ v \in Works /\ CallsOK(s, v)
  BY <1>1, SpendIsTyped DEF WorkOK
<1>3. PICK total \in Nat, ended \in BOOLEAN : total = y.sum + v.cost /\ ended = (y.stopped \/ stop)
  <2>1. y.sum + v.cost \in Nat  BY <1>2 DEF Summaries, Works
  <2>2. (y.stopped \/ stop) \in BOOLEAN  OBVIOUS
  <2> QED  BY <2>1, <2>2
<1>4. PICK x : x = [y EXCEPT !.sum = total, !.stopped = ended]  OBVIOUS
<1>5. x \in Summaries /\ x.sum = total /\ x.phase = y.phase /\ x.prior = y.prior
  BY <1>2, <1>3, <1>4 DEF Summaries
<1>6. runs' = [runs EXCEPT ![r] = x]  BY <1>1, <1>3, <1>4 DEF AddUp
<1>7. NoWork \in Works /\ NoWork.step = "none" /\ NoWork.cost = 0  BY DEF NoWork, Works, WorkSteps
<1>8. CallsOK(s, NoWork)  BY <1>7, MostIsTyped DEF CallsOK
<1>9. PICK f : f = [g EXCEPT ![s] = NoWork]  OBVIOUS
<1>10. work' = [work EXCEPT ![r] = f]  BY <1>1, <1>9 DEF AddUp, Set
<1>11. s \in OpenIn(g) /\ OpenIn(g) = OpenIn(f) \cup {s} /\ s \notin OpenIn(f)
  BY <1>1, <1>2, <1>7, <1>9 DEF OpenIn, WorkOK
<1>12. InProgress(r) /\ InTime(y, g)
  BY <1>1 DEF SpendInv, ResultInv, WorkIsOfRuns
<1>13. y.prior + y.sum + Total(OpenIn(g), Most) <= Bound  BY <1>11, <1>12 DEF InTime
<1>14. WorkOK(f)  BY <1>2, <1>7, <1>8, <1>9, SessionSums
<1>15. Total(OpenIn(g), Most) = Total(OpenIn(f), Most) + Most[s]
  <2>1. IsFiniteSet(OpenIn(f))  BY FS_Subset DEF OpenIn, SpendConstants
  <2>2. \A t \in OpenIn(f) : Most[t] \in Nat  BY MostIsTyped DEF OpenIn
  <2> QED  BY <1>11, <2>1, <2>2, MostIsTyped, TotalAdds
<1>16. v.cost <= Most[s] /\ v.cost \in Nat  BY <1>2, MostIsTyped DEF CallsOK, Works
<1>17. InTime(x, f)
  <2>1. y.prior \in Nat /\ y.sum \in Nat /\ Total(OpenIn(f), Most) \in Nat /\ Most[s] \in Nat
    BY <1>2, <1>14, SumsOfRun, MostIsTyped DEF Summaries
  <2>2. x.prior + x.sum + Total(OpenIn(f), Most) <= Bound
    BY <1>3, <1>5, <1>13, <1>15, <1>16, <2>1, BoundIsTyped
  <2> QED  BY <2>2 DEF InTime
<1>d. PICK d \in {0, 1} : d = 0  OBVIOUS
<1>18. x.sum + NoWork.cost = runs[r].sum + work[r][s].cost + d /\ (d = 1 => OpenIn(f) # {})
  BY <1>1, <1>2, <1>3, <1>5, <1>7, <1>d DEF Summaries, Works
<1>19. Counted(NoWork) = 0 /\ Counted(work[r][s]) = 0  BY <1>1, <1>7 DEF Counted
<1>20. /\ spent' \in Nat /\ unrecorded' \in Nat
       /\ spent' + ledger + unrecorded + Counted(work[r][s]) = spent + ledger' + unrecorded' + Counted(NoWork)
       /\ ledger' + Counted(NoWork) <= ledger + Counted(work[r][s]) + d
  BY <1>19, <1>d, SpendIsTyped
<1>21. x.phase = runs[r].phase /\ x.prior = runs[r].prior /\ f = [work[r] EXCEPT ![s] = NoWork] /\ work[r][s].step # "none"
  BY <1>1, <1>5, <1>9
<1> QED  BY <1>5, <1>6, <1>7, <1>8, <1>10, <1>17, <1>18, <1>20, <1>21, SessionStep

LEMMA AmountsAreTyped ==
  ASSUME SpendConstants, SpendInv
  PROVE  ledger \in Nat /\ spent \in Nat /\ unrecorded \in Nat
BY SpendIsTyped

\* A session whose last answer is behind it, or that asks again.
LEMMA StepSpends ==
  ASSUME SpendConstants, SpendInv, ResultInv', NEW r \in Runs, NEW s \in Sessions,
         work[r][s].step \notin {"none", "todo"},
         NEW step \in WorkSteps \ {"none", "todo", "answered"}, Step(r, s, step),
         step = "asking" => work[r][s].step = "asking",
         runs' = runs, ledger' = ledger, peak' = peak, spent' \in Nat, unrecorded' \in Nat,
         spent' + unrecorded + Counted(work[r][s]) = spent + unrecorded'
  PROVE  SpendInv'
<1>1. PICK v : v = work[r][s]  OBVIOUS
<1>2. PICK w : w = [v EXCEPT !.step = step]  OBVIOUS
<1>3. v \in Works /\ CallsOK(s, v)  BY <1>1, SpendIsTyped DEF WorkOK
<1>4. w \in Works /\ w.step = step /\ w.cost = v.cost /\ w.part = v.part /\ w.attempt = v.attempt
  BY <1>2, <1>3 DEF Works
<1>5. CallsOK(s, w)  BY <1>1, <1>3, <1>4 DEF CallsOK
<1>6. Set(r, s, w)  BY <1>1, <1>2, SpendIsTyped DEF Step, Set
<1>7. PICK d \in {0, 1} : d = 0  OBVIOUS
<1>8. w.cost = work[r][s].cost + d  BY <1>1, <1>3, <1>4, <1>7 DEF Works
<1>9. Counted(w) = 0 /\ Counted(work[r][s]) \in Nat  BY <1>4 DEF Counted
<1>10. spent' + ledger + unrecorded + Counted(work[r][s]) = spent + ledger' + unrecorded' + Counted(w)
  BY <1>9, AmountsAreTyped
<1>11. ledger' + Counted(w) <= ledger + Counted(work[r][s]) + d
  BY <1>7, <1>9, AmountsAreTyped
<1>12. w.step \notin {"none", "todo"}  BY <1>4
<1> QED  BY <1>4, <1>5, <1>6, <1>8, <1>10, <1>11, <1>12, OpenGoesOn

LEMMA CallSpends ==
  ASSUME SpendConstants, SpendInv, ResultInv', NEW r \in Runs, NEW s \in Sessions, Call(r, s)
  PROVE  SpendInv'
<1>1. work[r][s].step = "asking" /\ UNCHANGED <<runs, ledger, peak, unrecorded>>  BY DEF Call
<1>2. CASE (\E step \in Failures : Step(r, s, step)) /\ UNCHANGED spent
  <2>1. PICK step \in Failures : Step(r, s, step)  BY <1>2
  <2>2. step \in WorkSteps \ {"none", "todo", "answered"} /\ step # "asking"  BY DEF Failures, WorkSteps
  <2>3. spent' + unrecorded + Counted(work[r][s]) = spent + unrecorded'
    BY <1>1, <1>2, AmountsAreTyped DEF Counted
  <2> QED  BY <1>1, <1>2, <2>1, <2>2, <2>3, SpendIsTyped, StepSpends
<1>3. CASE Set(r, s, [work[r][s] EXCEPT !.step = "answered", !.cost = @ + 1]) /\ spent' = spent + 1
  <2>1. PICK v : v = work[r][s]  OBVIOUS
  <2>2. v \in Works /\ CallsOK(s, v) /\ v.step = "asking"  BY <1>1, <2>1, SpendIsTyped DEF WorkOK
  <2>c. PICK n \in Nat : n = v.cost + 1  BY <2>2 DEF Works
  <2>3. PICK w : w = [v EXCEPT !.step = "answered", !.cost = n]  OBVIOUS
  <2>4. /\ w \in Works /\ w.step = "answered" /\ w.cost = n /\ w.part = v.part /\ w.attempt = v.attempt
        /\ v.part \in Nat /\ v.attempt \in Nat /\ v.cost \in Nat
    BY <2>2, <2>3 DEF Works, WorkSteps
  <2>5. Set(r, s, w)  BY <1>3, <2>1, <2>3, <2>c
  <2>6. CallsOK(s, w)
    <3>1. /\ v.part \in 1..PartsOf[s] /\ v.attempt \in 1..2 /\ v.cost + 3 <= 2 * v.part + v.attempt
          /\ PartsOf[s] \in Nat
      BY <2>2 DEF CallsOK, SpendConstants, EnrichmentConstants
    <3>2. n + 2 <= 2 * v.part + v.attempt /\ n >= 1  BY <3>1, <2>4, <2>c
    <3>3. n <= MostOf(s)  BY <3>1, <3>2, <2>4, <2>c DEF MostOf
    <3> QED  BY <2>4, <3>1, <3>2, <3>3 DEF CallsOK
  <2>7. PICK d \in {0, 1} : d = 1  OBVIOUS
  <2>8. w.cost = work[r][s].cost + d  BY <2>1, <2>4, <2>7, <2>c
  <2>9. Counted(w) = 1 /\ Counted(work[r][s]) = 0  BY <2>4, <1>1 DEF Counted
  <2>10. /\ spent' \in Nat /\ unrecorded' \in Nat
         /\ spent' + ledger + unrecorded + Counted(work[r][s]) = spent + ledger' + unrecorded' + Counted(w)
         /\ ledger' + Counted(w) <= ledger + Counted(work[r][s]) + d
    BY <1>1, <1>3, <2>7, <2>9, AmountsAreTyped
  <2>11. work[r][s].step \notin {"none", "todo"} /\ w.step \notin {"none", "todo"}  BY <1>1, <2>4
  <2> QED  BY <1>1, <2>4, <2>5, <2>6, <2>8, <2>10, <2>11, OpenGoesOn
<1> QED  BY <1>2, <1>3 DEF Call

LEMMA RecordSpends ==
  ASSUME SpendConstants, SpendInv, ResultInv', NEW r \in Runs, NEW s \in Sessions, Record(r, s)
  PROVE  SpendInv'
<1>1. /\ work[r][s].step = "answered" /\ ledger' = ledger + 1
      /\ UNCHANGED <<runs, peak, spent, unrecorded>>
  BY DEF Record, paidHistory
<1>2. PICK v : v = work[r][s]  OBVIOUS
<1>3. v \in Works /\ CallsOK(s, v) /\ v.step = "answered"  BY <1>1, <1>2, SpendIsTyped DEF WorkOK
<1>4. PICK w \in Judged(s, v) : Set(r, s, w)  BY <1>2 DEF Record
<1>5. /\ v.part \in Nat /\ v.attempt \in Nat /\ v.cost \in Nat /\ PartsOf[s] \in Nat
      /\ v.part \in 1..PartsOf[s] /\ v.attempt \in 1..2
      /\ v.cost >= 1 /\ v.cost + 2 <= 2 * v.part + v.attempt /\ v.cost <= MostOf(s)
  BY <1>3 DEF CallsOK, Works, SpendConstants, EnrichmentConstants
<1>6. ASSUME NEW u, u \in {AfterValid(s, v), AfterInvalid(v)}
      PROVE  u \in Works /\ CallsOK(s, u) /\ u.cost = v.cost /\ u.step \in {"asking", "valid", "rejected"}
  <2>1. CASE u = [v EXCEPT !.step = "valid"]
    BY <2>1, <1>3, <1>5 DEF Works, WorkSteps, CallsOK
  <2>2. CASE u = [v EXCEPT !.step = "rejected"]
    BY <2>2, <1>3, <1>5 DEF Works, WorkSteps, CallsOK
  <2>3. CASE u = [v EXCEPT !.step = "asking", !.attempt = 2] /\ v.attempt # 2
    <3>1. u \in Works /\ u.step = "asking" /\ u.attempt = 2 /\ u.part = v.part /\ u.cost = v.cost
      BY <2>3, <1>3, <1>5 DEF Works, WorkSteps
    <3>2. v.attempt = 1  BY <2>3, <1>5
    <3>3. u.cost + 3 <= 2 * u.part + u.attempt  BY <3>1, <3>2, <1>5
    <3> QED  BY <3>1, <3>3, <1>5 DEF CallsOK
  <2>4. CASE u = [v EXCEPT !.step = "asking", !.part = @ + 1, !.attempt = 1] /\ v.part # PartsOf[s]
    <3>n. PICK n \in Nat : n = v.part + 1  BY <1>5
    <3>1. u = [v EXCEPT !.step = "asking", !.part = n, !.attempt = 1]  BY <2>4, <3>n
    <3>2. u \in Works /\ u.step = "asking" /\ u.attempt = 1 /\ u.part = n /\ u.cost = v.cost
      BY <3>1, <1>3, <1>5 DEF Works, WorkSteps
    <3>3. n \in 1..PartsOf[s] /\ v.cost + 3 <= 2 * n + 1  BY <3>n, <2>4, <1>5
    <3> QED  BY <3>2, <3>3, <1>5 DEF CallsOK
  <2> QED  BY <1>6, <2>1, <2>2, <2>3, <2>4 DEF AfterValid, AfterInvalid
<1>7. w \in Works /\ CallsOK(s, w) /\ w.cost = v.cost /\ w.step \in {"asking", "valid", "rejected"}
  BY <1>4, <1>6 DEF Judged
<1>8. PICK d \in {0, 1} : d = 0  OBVIOUS
<1>9. w.cost = work[r][s].cost + d  BY <1>2, <1>5, <1>7, <1>8
<1>10. Counted(w) = 0 /\ Counted(work[r][s]) = 1  BY <1>1, <1>7 DEF Counted
<1>11. /\ spent' \in Nat /\ unrecorded' \in Nat
       /\ spent' + ledger + unrecorded + Counted(work[r][s]) = spent + ledger' + unrecorded' + Counted(w)
       /\ ledger' + Counted(w) <= ledger + Counted(work[r][s]) + d
  BY <1>1, <1>8, <1>10, AmountsAreTyped
<1>12. work[r][s].step \notin {"none", "todo"} /\ w.step \notin {"none", "todo"}  BY <1>1, <1>7
<1> QED  BY <1>1, <1>4, <1>7, <1>9, <1>11, <1>12, OpenGoesOn

LEMMA WorkOnSpends ==
  ASSUME SpendConstants, SpendInv, ResultInv', NEW r \in Runs, NEW s \in Sessions, WorkOn(r, s)
  PROVE  SpendInv'
<1>1. CASE TakeSession(r, s)  BY <1>1, TakingSpends
<1>2. CASE Call(r, s)  BY <1>2, CallSpends
<1>3. CASE Record(r, s)  BY <1>3, RecordSpends
<1>4. CASE SaveRow(r, s)
  <2>1. /\ work[r][s].step = "valid" /\ Step(r, s, "saved")
        /\ UNCHANGED <<runs, ledger, peak, spent, unrecorded>>
    BY <1>4 DEF SaveRow, paidHistory
  <2>2. spent' + unrecorded + Counted(work[r][s]) = spent + unrecorded'
    BY <2>1, AmountsAreTyped DEF Counted
  <2>3. "saved" \in WorkSteps \ {"none", "todo", "answered"}  BY DEF WorkSteps
  <2> QED  BY <2>1, <2>2, <2>3, SpendIsTyped, StepSpends
<1>5. CASE IndexRow(r, s)
  BY <1>5, AddingSpends DEF IndexRow, paidHistory
<1>6. CASE MarkFailedWithCost(r, s)
  BY <1>6, AddingSpends DEF MarkFailedWithCost, paidHistory
<1>7. CASE SaveFailure(r, s)
  BY <1>7, AddingSpends DEF SaveFailure, paidHistory
<1>8. CASE Halt(r, s)
  BY <1>8, AddingSpends DEF Halt, paidHistory
<1> QED  BY <1>1, <1>2, <1>3, <1>4, <1>5, <1>6, <1>7, <1>8 DEF WorkOn

LEMMA FaultsSpend ==
  ASSUME SpendConstants, SpendInv, ResultInv', NEW r \in Runs, NEW s \in Sessions,
         ReplyLost(r, s) \/ RecordFails(r, s) \/ SaveFails(r, s) \/ SaveFailureFails(r, s)
  PROVE  SpendInv'
<1>1. CASE ReplyLost(r, s)
  <2>1. PICK step \in Failures \cup {"asking"} : Step(r, s, step)  BY <1>1 DEF ReplyLost
  <2>2. /\ work[r][s].step = "asking" /\ UNCHANGED <<runs, ledger, peak>>
        /\ spent' = spent + 1 /\ unrecorded' = unrecorded + 1
    BY <1>1 DEF ReplyLost
  <2>3. /\ spent' + unrecorded + Counted(work[r][s]) = spent + unrecorded'
        /\ spent' \in Nat /\ unrecorded' \in Nat
    BY <2>2, AmountsAreTyped DEF Counted
  <2>4. step \in WorkSteps \ {"none", "todo", "answered"}  BY DEF Failures, WorkSteps
  <2> QED  BY <2>1, <2>2, <2>3, <2>4, StepSpends
<1>2. CASE RecordFails(r, s)
  <2>1. /\ work[r][s].step = "answered" /\ Step(r, s, "fatal") /\ UNCHANGED <<runs, ledger, peak, spent>>
        /\ unrecorded' = unrecorded + 1
    BY <1>2 DEF RecordFails
  <2>2. /\ spent' + unrecorded + Counted(work[r][s]) = spent + unrecorded'
        /\ spent' \in Nat /\ unrecorded' \in Nat
    BY <2>1, AmountsAreTyped DEF Counted
  <2>3. "fatal" \in WorkSteps \ {"none", "todo", "answered"}  BY DEF WorkSteps
  <2> QED  BY <2>1, <2>2, <2>3, StepSpends
<1>3. CASE SaveFails(r, s)
  <2>1. /\ work[r][s].step \in {"valid", "saved"} /\ Step(r, s, "halting")
        /\ UNCHANGED <<runs, ledger, peak, spent, unrecorded>>
    BY <1>3 DEF SaveFails
  <2>2. spent' + unrecorded + Counted(work[r][s]) = spent + unrecorded'
    BY <2>1, AmountsAreTyped DEF Counted
  <2>3. "halting" \in WorkSteps \ {"none", "todo", "answered"}  BY DEF WorkSteps
  <2> QED  BY <2>1, <2>2, <2>3, SpendIsTyped, StepSpends
<1>4. CASE SaveFailureFails(r, s)
  BY <1>4, AddingSpends DEF SaveFailureFails
<1> QED  BY <1>1, <1>2, <1>3, <1>4

LEMMA SpendStep ==
  ASSUME SpendConstants, SpendInv, [EnrichmentNext]_enrichmentVars
  PROVE  SpendInv'
<1>1. ResultInv'  BY ResultStep DEF SpendConstants, SpendInv
<1>2. CASE \E r \in Runs : Plan(r) \/ EndRun(r) \/ Crash(r)
  BY <1>1, <1>2, PlanSpends, EndOfRun
<1>3. CASE \E r \in Runs, s \in Sessions :
           WorkOn(r, s) \/ ReplyLost(r, s) \/ RecordFails(r, s) \/ SaveFails(r, s) \/ SaveFailureFails(r, s)
  BY <1>1, <1>3, WorkOnSpends, FaultsSpend
<1>4. CASE UNCHANGED enrichmentVars
  <2>1. UNCHANGED <<ledger, runs, work, spent, unrecorded, peak>>  BY <1>4 DEF enrichmentVars, paidHistory
  <2>2. UNCHANGED <<Current, Answers, Owed>>
    BY <2>1 DEF Current, InProgress, Answers, Owed, AnswersOf, OwedBy, LeftOf, PaidBy
  <2>3. /\ Total(Current, Answers)' = Total(Current, Answers) /\ Total(Current, Owed)' = Total(Current, Owed)
        /\ (peak * Bound)' = peak * Bound
    BY <2>1, <2>2, BoundStays DEF Total, Tokens
  <2>4. \A r \in Runs : /\ runs'[r].phase = "new" => runs'[r].sum = 0
                        /\ WorkOK(work[r])'
                        /\ InProgress(r)' => InTime(runs[r], work[r])'
    BY <2>1 DEF SpendInv, InProgress
  <2> QED  BY <1>1, <2>1, <2>3, <2>4 DEF SpendInv
<1> QED  BY <1>2, <1>3, <1>4 DEF EnrichmentNext

\* The caps on what enrichment may cost: whatever runs overlap, whichever replies
\* are lost or refused and wherever a run dies, no more is paid than the total cap
\* and what the workers of one run have open, once for each run that was in
\* progress at the same time, and what the ledger never learned (execute, ask).
THEOREM SpendingIsBounded ==
  ASSUME SpendConstants
  PROVE  EnrichmentSpec => []SpendIsBounded
<1>1. EnrichmentInit => SpendInv  BY SpendInit
<1>2. SpendInv /\ [EnrichmentNext]_enrichmentVars => SpendInv'  BY SpendStep
<1>3. SpendInv => SpendIsBounded  BY InvIsBounded
<1> QED  BY <1>1, <1>2, <1>3, PTL DEF EnrichmentSpec

(***************************************************************************)
(* Conversations of Antigravity: what an import relies on.                 *)
(***************************************************************************)
ConversationCursors == [next : Nat \ {0}, digest : Nat \cup {Absent}, stamp : Nat]
ReaderStates ==
    [step : {"idle", "read", "check", "accept"}, stamp : Nat, cursor : ConversationCursors \cup {Absent},
     from : Nat \cup {Absent}, batch : Seq(Steps), partial : BOOLEAN]

ConversationTypeOK ==
    /\ steps \in Seq(Steps) /\ stamp \in Nat
    /\ cursor \in ConversationCursors \cup {Absent}
    /\ reader \in ReaderStates

\* Steps were born one after the other, before the next snapshot.
BornInOrder ==
    /\ \A n \in DOMAIN steps : steps[n].born < stamp
    /\ \A m, n \in DOMAIN steps : m < n => steps[m].born < steps[n].born
    /\ \A n \in DOMAIN steps : steps[n].what = "execution" => steps[n].call \in Calls

\* The cursor's identity is one of an earlier snapshot.
CursorIsOld == cursor # Absent /\ cursor.next > 1 => cursor.digest \in Nat /\ cursor.digest < stamp

\* A partial text is remembered as one.
PartialIsEarly == \A n \in DOMAIN turns : turns[n] = "whole" \/ n \in early

\* s is what has become of b: the same step, and as it was if it had ended.
Became(b, s) ==
    /\ s.what = b.what /\ s.call = b.call /\ s.born = b.born
    /\ ~nonTerminal(b) => s.status = b.status

\* What the reader has in hand: steps that had been written, in order, and if
\* one of them is still in place, so are all before it.
InPlace(i) == Number(i) \in DOMAIN steps /\ steps[Number(i)].born = Batch[i].born
HoldsSteps ==
    /\ Incremental => cursor # Absent /\ reader.from = cursor.next /\ reader.from > 1
    /\ \A i \in DOMAIN Batch :
           /\ Batch[i].born < stamp
           /\ Batch[i].what = "execution" => Batch[i].call \in Calls
           /\ InPlace(i) => /\ Incremental => CursorStands(cursor)
                            /\ \A j \in 1..i : Number(j) \in DOMAIN steps /\ Became(Batch[j], steps[Number(j)])
ReaderFits ==
    /\ reader.step # "idle" => reader.cursor = cursor
    /\ reader.step \in {"check", "accept"} => HoldsSteps

ConversationInv ==
    /\ ConversationTypeOK /\ BornInOrder /\ CursorIsOld /\ PartialIsEarly
    /\ ReaderFits /\ ConversationIsStored

LEMMA StepsAreTyped ==
  ASSUME NEW q \in Seq(Steps), NEW i \in DOMAIN q
  PROVE  /\ q[i] \in Steps /\ q[i].born \in Nat /\ q[i].status \in Statuses
         /\ i \in 1..Len(q) /\ Len(q) \in Nat
<1>1. q[i] \in Steps /\ i \in 1..Len(q) /\ Len(q) \in Nat  OBVIOUS
<1>2. q[i].born \in Nat /\ q[i].status \in Statuses  BY <1>1 DEF Steps
<1> QED  BY <1>1, <1>2

LEMMA ConversationInit == ASSUME AntigravityAssumption, AntigravityInit PROVE ConversationInv
<1>1. steps = <<>> /\ cursor = Absent /\ turns = <<>> /\ reader = IdleReader /\ stamp = 1
  BY DEF AntigravityInit
<1>2. DOMAIN steps = {} /\ DOMAIN turns = {}  BY <1>1
<1>3. reader \in ReaderStates /\ reader.step = "idle"
  <2>1. <<>> \in Seq(Steps)  OBVIOUS
  <2> QED  BY <1>1, <2>1 DEF IdleReader, ReaderStates
<1>4. ConversationTypeOK
  <2>1. steps \in Seq(Steps)  BY <1>1
  <2> QED  BY <1>1, <1>3, <2>1 DEF ConversationTypeOK
<1>5. BornInOrder /\ CursorIsOld /\ PartialIsEarly
  BY <1>1, <1>2 DEF BornInOrder, CursorIsOld, PartialIsEarly
<1>6. ReaderFits /\ ConversationIsStored
  BY <1>1, <1>3 DEF ReaderFits, ConversationIsStored, CursorStands
<1> QED  BY <1>4, <1>5, <1>6 DEF ConversationInv

(***************************************************************************)
(* Snapshots: a step that was there before has become what it is, and so   *)
(* have all before it.                                                     *)
(***************************************************************************)
Kept ==
    \A n \in DOMAIN steps' : steps'[n].born < stamp =>
        n \in DOMAIN steps /\ Became(steps[n], steps'[n])

LEMMA SnapshotKeeps ==
  ASSUME AntigravityAssumption, ConversationTypeOK, BornInOrder, NewStep \/ StepChanges \/ TakenBack
  PROVE  /\ steps' \in Seq(Steps) /\ BornInOrder' /\ Kept
         /\ stamp' = stamp + 1 /\ UNCHANGED <<cursor, turns, results, reader, early, passed>>
<1>1. steps \in Seq(Steps) /\ stamp \in Nat  BY DEF ConversationTypeOK
<1>2. stamp' = stamp + 1 /\ UNCHANGED <<cursor, turns, results, reader, early, passed>>
  BY DEF NewStep, StepChanges, TakenBack, Synced
<1>3. \A n \in DOMAIN steps : steps[n] \in Steps /\ steps[n].born \in Nat /\ steps[n].born < stamp
  BY <1>1, StepsAreTyped DEF BornInOrder
<1>4. CASE NewStep
  <2>1. PICK what \in {"turn", "execution", "unsupported"}, status \in {"running", "done"} :
          \E call \in IF what = "turn" THEN Calls \cup {Absent} ELSE IF what = "execution" THEN Calls ELSE {Absent} :
              Synced(Append(steps, MadeStep(what, call, status)))
    BY <1>4 DEF NewStep
  <2>2. PICK call \in IF what = "turn" THEN Calls \cup {Absent} ELSE IF what = "execution" THEN Calls ELSE {Absent} :
          Synced(Append(steps, MadeStep(what, call, status)))
    BY <2>1
  <2>3. PICK s : s = MadeStep(what, call, status)  OBVIOUS
  <2>4. s \in Steps /\ s.born = stamp /\ (s.what = "execution" => s.call \in Calls)
    BY <1>1, <2>2, <2>3 DEF MadeStep, Steps, Statuses, Outcomes
  <2>5. steps' = Append(steps, s)  BY <2>2, <2>3 DEF Synced
  <2>6. /\ steps' \in Seq(Steps) /\ Len(steps') = Len(steps) + 1
        /\ steps'[Len(steps) + 1] = s
        /\ \A n \in 1..Len(steps) : steps'[n] = steps[n]
    BY <1>1, <2>4, <2>5
  <2>7. \A n \in DOMAIN steps' : (n \in DOMAIN steps /\ steps'[n] = steps[n]) \/ (n = Len(steps) + 1 /\ steps'[n] = s)
    BY <1>1, <2>6
  <2>8. BornInOrder'
    <3>1. \A n \in DOMAIN steps' : steps'[n].born \in Nat /\ steps'[n].born < stamp + 1
      BY <1>1, <1>3, <2>4, <2>7
    <3>2. ASSUME NEW m \in DOMAIN steps', NEW n \in DOMAIN steps', m < n
          PROVE  steps'[m].born < steps'[n].born
      <4>1. m \in DOMAIN steps /\ steps'[m] = steps[m]  BY <1>1, <2>6, <3>2
      <4>2. CASE n \in DOMAIN steps /\ steps'[n] = steps[n]  BY <4>1, <4>2, <3>2 DEF BornInOrder
      <4>3. CASE steps'[n] = s  BY <1>3, <2>4, <4>1, <4>3
      <4> QED  BY <2>7, <4>2, <4>3
    <3>3. \A n \in DOMAIN steps' : steps'[n].what = "execution" => steps'[n].call \in Calls
      BY <2>4, <2>7 DEF BornInOrder
    <3> QED  BY <1>2, <3>1, <3>2, <3>3 DEF BornInOrder
  <2>9. Kept
    <3> SUFFICES ASSUME NEW n \in DOMAIN steps', steps'[n].born < stamp
                 PROVE  n \in DOMAIN steps /\ Became(steps[n], steps'[n])
      BY DEF Kept
    <3>1. steps'[n] # s  BY <1>1, <2>4
    <3> QED  BY <2>7, <3>1 DEF Became
  <2> QED  BY <1>2, <2>6, <2>8, <2>9
<1>5. CASE StepChanges
  <2>1. PICK i \in DOMAIN steps, status \in Statuses :
          nonTerminal(steps[i]) /\ Synced([steps EXCEPT ![i].status = status])
    BY <1>5 DEF StepChanges
  <2>2. PICK s : s = [steps[i] EXCEPT !.status = status]  OBVIOUS
  <2>3. /\ s \in Steps /\ Became(steps[i], s)
    BY <1>3, <2>1, <2>2 DEF Steps, Became, nonTerminal
  <2>4. steps' = [steps EXCEPT ![i] = s]  BY <2>1, <2>2 DEF Synced
  <2>5. /\ steps' \in Seq(Steps) /\ DOMAIN steps' = DOMAIN steps
        /\ steps'[i] = s /\ \A n \in DOMAIN steps : n # i => steps'[n] = steps[n]
    BY <1>1, <2>3, <2>4
  <2>6. \A n \in DOMAIN steps : Became(steps[n], steps'[n])
    BY <2>3, <2>5 DEF Became
  <2>7. \A n \in DOMAIN steps : steps'[n].born = steps[n].born /\ steps'[n].what = steps[n].what
                                /\ steps'[n].call = steps[n].call
    BY <2>6 DEF Became
  <2>8. BornInOrder'
    <3>1. \A n \in DOMAIN steps : steps[n].born < stamp + 1  BY <1>1, <1>3
    <3> QED  BY <1>2, <2>5, <2>7, <3>1 DEF BornInOrder
  <2> QED  BY <1>2, <2>5, <2>6, <2>8 DEF Kept
<1>6. CASE TakenBack
  <2>1. PICK i \in DOMAIN steps : steps' = SubSeq(steps, 1, i - 1)  BY <1>6 DEF TakenBack, Synced
  <2>2. /\ steps' \in Seq(Steps) /\ DOMAIN steps' = 1..(i - 1)
        /\ \A n \in 1..(i - 1) : steps'[n] = steps[n] /\ n \in DOMAIN steps
    BY <1>1, <2>1
  <2>3. BornInOrder'
    <3>1. \A n \in DOMAIN steps : steps[n].born < stamp + 1  BY <1>1, <1>3
    <3> QED  BY <1>2, <2>2, <3>1 DEF BornInOrder
  <2> QED  BY <1>2, <2>2, <2>3 DEF Kept, Became
<1> QED  BY <1>4, <1>5, <1>6

LEMMA BecameTwice ==
  ASSUME NEW a, NEW b, NEW c, Became(a, b), Became(b, c)
  PROVE  Became(a, c)
  BY DEF Became, nonTerminal

LEMMA KeptBefore ==
  ASSUME ConversationTypeOK, BornInOrder, BornInOrder', Kept, steps' \in Seq(Steps),
         NEW n \in DOMAIN steps', steps'[n].born < stamp
  PROVE  /\ n \in DOMAIN steps /\ steps[n].born = steps'[n].born
         /\ \A m \in 1..n : m \in DOMAIN steps' /\ m \in DOMAIN steps /\ Became(steps[m], steps'[m])
<1>1. stamp \in Nat /\ n \in 1..Len(steps') /\ Len(steps') \in Nat  BY DEF ConversationTypeOK
<1>2. \A m \in DOMAIN steps' : steps'[m].born \in Nat  BY StepsAreTyped
<1>3. ASSUME NEW m \in 1..n
      PROVE  m \in DOMAIN steps' /\ m \in DOMAIN steps /\ Became(steps[m], steps'[m])
  <2>1. m \in DOMAIN steps'  BY <1>1
  <2>2. m = n \/ m < n  BY <1>1
  <2>3. steps'[m].born < stamp
    <3>1. m < n => steps'[m].born < steps'[n].born  BY <2>1 DEF BornInOrder
    <3> QED  BY <1>1, <1>2, <2>1, <2>2, <3>1
  <2> QED  BY <2>1, <2>3 DEF Kept
<1>4. n \in DOMAIN steps /\ Became(steps[n], steps'[n])  BY DEF Kept
<1> QED  BY <1>3, <1>4 DEF Became

\* A cursor that stands in the new snapshot stood in the old one.
LEMMA CursorStood ==
  ASSUME ConversationTypeOK, BornInOrder, BornInOrder', CursorIsOld, Kept, steps' \in Seq(Steps),
         cursor' = cursor, CursorStands(cursor)'
  PROVE  /\ CursorStands(cursor)
         /\ \A m \in 1..(cursor.next - 1) :
                m \in DOMAIN steps' /\ m \in DOMAIN steps /\ Became(steps[m], steps'[m])
<1>1. cursor # Absent /\ cursor.next > 1 /\ cursor.next - 1 \in DOMAIN steps'
      /\ steps'[cursor.next - 1].born = cursor.digest
  BY DEF CursorStands, digest
<1>2. steps'[cursor.next - 1].born < stamp  BY <1>1 DEF CursorIsOld
<1>3. /\ cursor.next - 1 \in DOMAIN steps /\ steps[cursor.next - 1].born = cursor.digest
      /\ \A m \in 1..(cursor.next - 1) :
                m \in DOMAIN steps' /\ m \in DOMAIN steps /\ Became(steps[m], steps'[m])
  BY <1>1, <1>2, KeptBefore
<1> QED  BY <1>1, <1>3 DEF CursorStands, digest

LEMMA SnapshotStep ==
  ASSUME AntigravityAssumption, ConversationInv, NewStep \/ StepChanges \/ TakenBack
  PROVE  ConversationInv'
<1>1. ConversationTypeOK /\ BornInOrder /\ CursorIsOld /\ PartialIsEarly /\ ReaderFits /\ ConversationIsStored
  BY DEF ConversationInv
<1>2. /\ steps' \in Seq(Steps) /\ BornInOrder' /\ Kept
      /\ stamp' = stamp + 1 /\ UNCHANGED <<cursor, turns, results, reader, early, passed>>
  BY <1>1, SnapshotKeeps
<1>3. ConversationTypeOK' /\ PartialIsEarly'
  BY <1>1, <1>2 DEF ConversationTypeOK, PartialIsEarly
<1>4. CursorIsOld'
  BY <1>1, <1>2 DEF CursorIsOld, ConversationTypeOK
<1>5. ReaderFits'
  <2>1. (reader.step # "idle" => reader.cursor = cursor)'  BY <1>1, <1>2 DEF ReaderFits
  <2>2. SUFFICES ASSUME reader.step \in {"check", "accept"} PROVE HoldsSteps'
    BY <1>2, <2>1 DEF ReaderFits
  <2>3. HoldsSteps  BY <1>1, <2>2 DEF ReaderFits
  <2>4. Batch' = Batch /\ First' = First /\ Incremental' = Incremental
    BY <1>2 DEF Batch, First, Incremental
  <2>5. \A i : Number(i)' = Number(i)  BY <2>4 DEF Number
  <2>6. Incremental' => cursor' # Absent /\ reader'.from = cursor'.next /\ reader'.from > 1
    BY <1>2, <2>3, <2>4 DEF HoldsSteps
  <2>7. ASSUME NEW i \in DOMAIN Batch
        PROVE  /\ Batch[i].born < stamp'
               /\ Batch[i].what = "execution" => Batch[i].call \in Calls
    <3>1. Batch[i].born \in Nat /\ stamp \in Nat
      <4>1. Batch \in Seq(Steps) /\ stamp \in Nat  BY <1>1 DEF ConversationTypeOK, ReaderStates, Batch
      <4> QED  BY <2>7, <4>1, StepsAreTyped
    <3> QED  BY <1>2, <2>3, <3>1 DEF HoldsSteps
  <2>8. ASSUME NEW i \in DOMAIN Batch, InPlace(i)'
        PROVE  /\ Incremental => CursorStands(cursor)'
               /\ \A j \in 1..i : Number(j) \in DOMAIN steps' /\ Became(Batch[j], steps'[Number(j)])
    <3>1. PICK n : n = Number(i)  OBVIOUS
    <3>2. n \in DOMAIN steps' /\ steps'[n].born = Batch[i].born
      BY <2>4, <2>5, <2>8, <3>1 DEF InPlace
    <3>3. steps'[n].born < stamp  BY <2>3, <3>2 DEF HoldsSteps
    <3>4. /\ n \in DOMAIN steps /\ steps[n].born = Batch[i].born
          /\ \A m \in 1..n : m \in DOMAIN steps' /\ m \in DOMAIN steps /\ Became(steps[m], steps'[m])
      BY <1>1, <1>2, <3>2, <3>3, KeptBefore
    <3>5. InPlace(i)  BY <3>1, <3>4 DEF InPlace
    <3>6. /\ Incremental => CursorStands(cursor)
          /\ \A j \in 1..i : Number(j) \in DOMAIN steps /\ Became(Batch[j], steps[Number(j)])
      BY <2>3, <3>5 DEF HoldsSteps
    <3>7. First \in Nat \ {0} /\ i \in Nat \ {0}
      <4>1. i \in Nat \ {0}  BY <1>1, <2>7 DEF ConversationTypeOK, ReaderStates, Batch
      <4>2. Incremental => reader.from \in Nat \ {0}
        BY <1>1, <2>3 DEF HoldsSteps, ConversationTypeOK, ConversationCursors
      <4> QED  BY <4>1, <4>2 DEF First
    <3>8. \A j \in 1..i : Number(j) \in 1..n  BY <3>1, <3>7 DEF Number
    <3>9. \A j \in 1..i : Number(j) \in DOMAIN steps' /\ Became(Batch[j], steps'[Number(j)])
      BY <3>4, <3>6, <3>8, BecameTwice
    <3>10. Incremental => CursorStands(cursor)'
      <4> SUFFICES ASSUME Incremental PROVE CursorStands(cursor)'  OBVIOUS
      <4>1. cursor # Absent /\ cursor.next = First /\ First > 1 /\ CursorStands(cursor)
        BY <2>3, <3>6 DEF HoldsSteps, First
      <4>2. cursor.next - 1 \in 1..n  BY <3>1, <3>7, <4>1 DEF Number
      <4>3. cursor.next - 1 \in DOMAIN steps' /\ steps'[cursor.next - 1].born = steps[cursor.next - 1].born
        BY <3>4, <4>2 DEF Became
      <4> QED  BY <1>2, <4>1, <4>3 DEF CursorStands, digest
    <3> QED  BY <3>9, <3>10
  <2> QED  BY <2>4, <2>5, <2>6, <2>7, <2>8 DEF HoldsSteps
<1>6. ConversationIsStored'
  <2> SUFFICES ASSUME CursorStands(cursor)', NEW n \in 1..(cursor.next - 1) \ passed
               PROVE  /\ ~nonTerminal(steps'[n])
                      /\ steps'[n].what = "turn" =>
                            /\ n \in DOMAIN turns
                            /\ n \notin early => turns[n] = "whole"
                            /\ steps'[n].call # Absent => steps'[n].call \in DOMAIN results
                      /\ steps'[n].what = "execution" /\ steps'[n].status \in Outcomes =>
                            steps'[n].call \in DOMAIN results /\ results[steps'[n].call] # "none"
    BY <1>2 DEF ConversationIsStored
  <2>1. CursorStands(cursor) /\ Became(steps[n], steps'[n])
    BY <1>1, <1>2, CursorStood
  <2>2. /\ ~nonTerminal(steps[n])
        /\ steps[n].what = "turn" =>
               /\ n \in DOMAIN turns
               /\ n \notin early => turns[n] = "whole"
               /\ steps[n].call # Absent => steps[n].call \in DOMAIN results
        /\ steps[n].what = "execution" /\ steps[n].status \in Outcomes =>
               steps[n].call \in DOMAIN results /\ results[steps[n].call] # "none"
    BY <1>1, <2>1 DEF ConversationIsStored
  <2>3. ~nonTerminal(steps'[n]) /\ steps'[n].status = steps[n].status
    BY <2>1, <2>2 DEF Became, nonTerminal
  <2> QED  BY <2>1, <2>2, <2>3 DEF Became
<1> QED  BY <1>2, <1>3, <1>4, <1>5, <1>6 DEF ConversationInv

(***************************************************************************)
(* The reader before it accepts: only what it holds changes.               *)
(***************************************************************************)
ConversationRows == <<steps, stamp, cursor, turns, results, early, passed>>

\* Nothing but the reader moves, and what it holds fits.
LEMMA ReaderMoves ==
  ASSUME ConversationInv, UNCHANGED ConversationRows, reader' \in ReaderStates, ReaderFits'
  PROVE  ConversationInv'
<1>1. UNCHANGED <<steps, stamp, cursor, turns, results, early, passed>>  BY DEF ConversationRows
<1>2. ConversationTypeOK'  BY <1>1 DEF ConversationInv, ConversationTypeOK
<1>3. BornInOrder' /\ CursorIsOld' /\ PartialIsEarly'
  BY <1>1 DEF ConversationInv, BornInOrder, CursorIsOld, PartialIsEarly
<1>4. ConversationIsStored'
  BY <1>1 DEF ConversationInv, ConversationIsStored, CursorStands, digest
<1> QED  BY <1>2, <1>3, <1>4 DEF ConversationInv

LEMMA IdleFits == IdleReader \in ReaderStates /\ IdleReader.step = "idle"
<1>1. <<>> \in Seq(Steps)  OBVIOUS
<1> QED  BY <1>1 DEF IdleReader, ReaderStates

LEMMA IdleStep ==
  ASSUME ConversationInv, UNCHANGED ConversationRows, reader' = IdleReader
  PROVE  ConversationInv'
<1>1. reader' \in ReaderStates /\ reader'.step = "idle"  BY IdleFits
<1>2. ReaderFits'  BY <1>1 DEF ReaderFits
<1> QED  BY <1>1, <1>2, ReaderMoves

\* The same reader over the same snapshot holds the same steps.
LEMMA HoldsStill ==
  ASSUME HoldsSteps, UNCHANGED ConversationRows, reader'.from = reader.from, reader'.batch = reader.batch
  PROVE  HoldsSteps'
<1>1. UNCHANGED <<steps, stamp, cursor>>  BY DEF ConversationRows
<1>2. Batch' = Batch /\ First' = First /\ Incremental' = Incremental
  BY DEF Batch, First, Incremental
<1>3. \A i : Number(i)' = Number(i)  BY <1>2 DEF Number
<1>4. CursorStands(cursor)' = CursorStands(cursor)  BY <1>1 DEF CursorStands, digest
<1> QED  BY <1>1, <1>2, <1>3, <1>4 DEF HoldsSteps, InPlace

LEMMA OpenSnapshotStep ==
  ASSUME ConversationInv, OpenSnapshot
  PROVE  ConversationInv'
<1>1. UNCHANGED ConversationRows  BY DEF OpenSnapshot, ReaderGoes, ConversationRows
<1>2. stamp \in Nat /\ cursor \in ConversationCursors \cup {Absent}
  BY DEF ConversationInv, ConversationTypeOK
<1>3. reader' = [IdleReader EXCEPT !.step = "read", !.stamp = stamp, !.cursor = cursor]
  BY DEF OpenSnapshot, ReaderGoes
<1>4. reader' = [step |-> "read", stamp |-> stamp, cursor |-> cursor, from |-> Absent,
                 batch |-> <<>>, partial |-> FALSE]
  BY <1>3 DEF IdleReader
<1>5. reader' \in ReaderStates /\ reader'.step = "read" /\ reader'.cursor = cursor
  <2>1. <<>> \in Seq(Steps)  OBVIOUS
  <2> QED  BY <1>2, <1>4, <2>1 DEF ReaderStates
<1>6. ReaderFits'  BY <1>1, <1>5 DEF ReaderFits, ConversationRows
<1> QED  BY <1>1, <1>5, <1>6, ReaderMoves

LEMMA CheckStep ==
  ASSUME ConversationInv, Check
  PROVE  ConversationInv'
<1>1. UNCHANGED ConversationRows  BY DEF Check, ReaderGoes, ConversationRows
<1>2. reader \in ReaderStates /\ reader.step = "check" /\ reader.cursor = cursor /\ HoldsSteps
  BY DEF Check, ConversationInv, ConversationTypeOK, ReaderFits
<1>3. CASE reader' = IdleReader  BY <1>1, <1>3, IdleStep
<1>4. CASE reader' = [reader EXCEPT !.step = "accept"]
  <2>1. reader' \in ReaderStates /\ reader'.step = "accept" /\ reader'.cursor = reader.cursor
        /\ reader'.from = reader.from /\ reader'.batch = reader.batch
    BY <1>2, <1>4 DEF ReaderStates
  <2>2. HoldsSteps'  BY <1>1, <1>2, <2>1, HoldsStill
  <2>3. ReaderFits'  BY <1>1, <1>2, <2>1, <2>2 DEF ReaderFits, ConversationRows
  <2> QED  BY <1>1, <2>1, <2>3, ReaderMoves
<1> QED  BY <1>3, <1>4 DEF Check, ReaderGoes

\* What is read is a stretch of the snapshot, from the place that is counted from.
LEMMA LoadStepsStep ==
  ASSUME AntigravityAssumption, ConversationInv, LoadSteps
  PROVE  ConversationInv'
<1>1. UNCHANGED ConversationRows  BY DEF LoadSteps, ReaderGoes, ConversationRows
<1>2. /\ reader \in ReaderStates /\ reader.step = "read" /\ reader.cursor = cursor
      /\ steps \in Seq(Steps) /\ cursor \in ConversationCursors \cup {Absent}
      /\ BornInOrder /\ BatchSteps \in Nat \ {0} /\ Absent \notin Nat
  BY DEF LoadSteps, ConversationInv, ConversationTypeOK, ReaderFits, AntigravityAssumption
<1>3. CASE reader' = IdleReader  BY <1>1, <1>3, IdleStep
<1>4. CASE reader' # IdleReader
  <2>1. PICK start : start = IF CursorStands(cursor) THEN cursor.next ELSE 1  OBVIOUS
  <2>2. PICK all : all = SubSeq(steps, start, Len(steps))  OBVIOUS
  <2>3. PICK from : from = IF CursorStands(cursor) THEN start ELSE Absent  OBVIOUS
  <2>4. PICK batch : batch = IF Len(all) > BatchSteps THEN SubSeq(all, 1, BatchSteps) ELSE all  OBVIOUS
  <2>5. reader' = [reader EXCEPT !.step = "check", !.from = from, !.batch = batch,
                                 !.partial = Len(all) > BatchSteps]
    BY <1>2, <1>4, <2>1, <2>2, <2>3, <2>4 DEF LoadSteps, ReaderGoes
  <2>6. start \in Nat \ {0} /\ (CursorStands(cursor) => start > 1)
    BY <1>2, <2>1 DEF CursorStands, ConversationCursors
  <2>7. /\ all \in Seq(Steps) /\ Len(all) \in Nat
        /\ \A i \in 1..Len(all) : start + i - 1 \in DOMAIN steps /\ all[i] = steps[start + i - 1]
    BY <1>2, <2>2, <2>6
  <2>8. /\ batch \in Seq(Steps) /\ Len(batch) \in Nat /\ Len(batch) <= Len(all)
        /\ \A i \in 1..Len(batch) : batch[i] = all[i]
    BY <1>2, <2>4, <2>7
  <2>9. \A i \in 1..Len(batch) : start + i - 1 \in DOMAIN steps /\ batch[i] = steps[start + i - 1]
    BY <2>7, <2>8
  <2>10. from \in Nat \cup {Absent}  BY <2>3, <2>6
  <2>11. /\ reader' \in ReaderStates /\ reader'.step = "check" /\ reader'.cursor = reader.cursor
         /\ reader'.from = from /\ reader'.batch = batch
    <3>1. PICK S : S = Seq(Steps)  OBVIOUS
    <3>2. PICK partial : partial = (Len(all) > BatchSteps)  OBVIOUS
    <3>5. partial \in BOOLEAN
      <4>1. partial = TRUE \/ partial = FALSE  BY <3>2
      <4> QED  BY <4>1
    <3>3. batch \in S /\ reader \in [step : {"idle", "read", "check", "accept"}, stamp : Nat,
             cursor : ConversationCursors \cup {Absent}, from : Nat \cup {Absent}, batch : S, partial : BOOLEAN]
      BY <1>2, <2>8, <3>1 DEF ReaderStates
    <3>4. reader' = [step |-> "check", stamp |-> reader.stamp, cursor |-> reader.cursor, from |-> from,
                     batch |-> batch, partial |-> partial]
      BY <2>5, <3>2, <3>3
    <3> QED  BY <2>10, <3>1, <3>3, <3>4, <3>5 DEF ReaderStates
  <2>12. /\ Batch' = batch /\ First' = start
         /\ Incremental' <=> CursorStands(cursor)
    BY <1>2, <2>1, <2>3, <2>6, <2>11 DEF Batch, First, Incremental
  <2>13. \A i : Number(i)' = start + i - 1  BY <2>12 DEF Number
  <2>14. DOMAIN batch = 1..Len(batch)  BY <2>8
  <2>15. UNCHANGED <<steps, stamp, cursor>>  BY <1>1 DEF ConversationRows
  <2>16. CursorStands(cursor)' = CursorStands(cursor)  BY <2>15 DEF CursorStands, digest
  <2>17. HoldsSteps'
    <3>1. Incremental' => cursor # Absent /\ reader'.from = cursor.next /\ reader'.from > 1
      BY <2>1, <2>3, <2>6, <2>11, <2>12 DEF CursorStands
    <3>2. ASSUME NEW i \in 1..Len(batch)
          PROVE  /\ batch[i].born < stamp
                 /\ batch[i].what = "execution" => batch[i].call \in Calls
                 /\ \A j \in 1..i : Number(j)' \in DOMAIN steps /\ Became(batch[j], steps[Number(j)'])
      <4>1. batch[i].born < stamp /\ (batch[i].what = "execution" => batch[i].call \in Calls)
        BY <1>2, <2>9 DEF BornInOrder
      <4>2. \A j \in 1..i : j \in 1..Len(batch)  BY <2>8
      <4>3. \A j \in 1..i : Number(j)' \in DOMAIN steps /\ Became(batch[j], steps[Number(j)'])
        BY <2>9, <2>13, <4>2 DEF Became
      <4> QED  BY <4>1, <4>3
    <3> QED  BY <2>12, <2>14, <2>15, <2>16, <3>1, <3>2 DEF HoldsSteps
  <2>18. ReaderFits'  BY <1>2, <2>11, <2>15, <2>17 DEF ReaderFits
  <2> QED  BY <1>1, <2>11, <2>18, ReaderMoves
<1> QED  BY <1>3, <1>4

(***************************************************************************)
(* Accepting a batch.                                                      *)
(***************************************************************************)
LEMMA ConsumedIs ==
  ASSUME NEW batch \in Seq(Steps), Batch = batch
  PROVE  /\ Consumed \in 0..Len(batch)
         /\ ~reader.partial => /\ \A i \in (Consumed + 1)..Len(batch) : nonTerminal(batch[i])
                               /\ Consumed > 0 => ~nonTerminal(batch[Consumed])
<1>1. Len(batch) \in Nat  OBVIOUS
<1>2. PICK T : T = {k \in 1..Len(batch) : ~nonTerminal(batch[k])}  OBVIOUS
<1>3. \E n \in 0..Len(batch) :
         /\ \A i \in (n + 1)..Len(batch) : nonTerminal(batch[i])
         /\ n > 0 => ~nonTerminal(batch[n])
  <2>1. CASE T = {}
    <3>1. \A i \in (0 + 1)..Len(batch) : nonTerminal(batch[i])  BY <1>2, <2>1
    <3> QED  BY <1>1, <3>1
  <2>2. CASE T # {}
    <3>1. T \in SUBSET (1..Len(batch))  BY <1>2
    <3>2. PICK n \in T : \A k \in T : n >= k  BY <1>1, <2>2, <3>1, GreatestExists
    <3>3. \A i \in (n + 1)..Len(batch) : nonTerminal(batch[i])  BY <1>1, <1>2, <3>2
    <3>4. n \in 1..Len(batch) /\ ~nonTerminal(batch[n])  BY <1>2, <3>2
    <3> QED  BY <1>1, <3>3, <3>4
  <2> QED  BY <2>1, <2>2
<1>4. CASE reader.partial  BY <1>1, <1>4 DEF Consumed
<1>5. CASE ~reader.partial
  <2>1. Consumed = CHOOSE n \in 0..Len(batch) :
             /\ \A i \in (n + 1)..Len(batch) : nonTerminal(batch[i])
             /\ n > 0 => ~nonTerminal(batch[n])
    BY <1>5 DEF Consumed
  <2> QED  BY <1>3, <1>5, <2>1
<1> QED  BY <1>4, <1>5

\* What is known of a call of which an execution tells is how one of them ended.
LEMMA ToldIsKnown ==
  ASSUME NEW batch \in Seq(Steps), Batch = batch, NEW j \in 1..Len(batch),
         batch[j].what = "execution", batch[j].status \in Outcomes, batch[j].call \in Calls
  PROVE  batch[j].call \in DOMAIN ToolRows /\ ToolRows[batch[j].call] # "none"
<1>1. PICK c : c = batch[j].call  OBVIOUS
<1>2. Len(batch) \in Nat /\ DOMAIN batch = 1..Len(batch)  OBVIOUS
<1>3. PICK T : T = Told(c)  OBVIOUS
<1>4. T # {}  BY <1>1, <1>2, <1>3 DEF Told, Known
<1>5. PICK m : m = CHOOSE i \in T : \A l \in T : l <= i  OBVIOUS
<1>6. outcome(batch[m]) # "none"  BY DEF outcome
<1>7. c \in DOMAIN ToolRows /\ ToolRows[c] = outcome(batch[m])
  <2>1. c \in Calls /\ Told(c) # {}  BY <1>1, <1>3, <1>4
  <2> QED  BY <1>3, <1>5, <2>1 DEF ToolRows
<1> QED  BY <1>1, <1>6, <1>7

\* The rows under an accepted batch: what stands of the old ones.
OldTurns == IF Resets THEN <<>> ELSE turns
OldResults == IF Resets THEN <<>> ELSE results
RunningSteps == {Number(i) : i \in {j \in DOMAIN Batch : nonTerminal(Batch[j])}}
FollowedSteps == {Number(i) : i \in {j \in DOMAIN Batch :
                     reader.partial \/ \E k \in DOMAIN Batch : k > j /\ ~nonTerminal(Batch[k])}}

LEMMA AcceptedRows ==
  ASSUME Accept
  PROVE  /\ turns' = [n \in DOMAIN OldTurns \cup DOMAIN TurnRows |->
                         IF n \in DOMAIN OldTurns THEN OldTurns[n] ELSE TurnRows[n]]
         /\ results' = [c \in DOMAIN OldResults \cup DOMAIN ToolRows |->
                           IF c \notin DOMAIN ToolRows THEN OldResults[c]
                           ELSE IF c \in DOMAIN OldResults /\ ToolRows[c] = "none" THEN OldResults[c]
                           ELSE ToolRows[c]]
         /\ early' = (IF Resets THEN {} ELSE early) \cup (RunningSteps \ DOMAIN OldTurns)
         /\ passed' = (IF Resets THEN {} ELSE passed) \cup (RunningSteps \cap FollowedSteps)
  BY DEF Accept, OldTurns, OldResults, RunningSteps, FollowedSteps

LEMMA AcceptStep ==
  ASSUME AntigravityAssumption, ConversationInv, Accept
  PROVE  ConversationInv'
<1>1. PICK batch : batch = Batch  OBVIOUS
<1>2. /\ reader \in ReaderStates /\ reader.step = "accept" /\ reader.cursor = cursor /\ HoldsSteps
      /\ steps \in Seq(Steps) /\ cursor \in ConversationCursors \cup {Absent} /\ stamp \in Nat
      /\ BornInOrder /\ PartialIsEarly /\ CursorIsOld /\ ConversationIsStored
  BY DEF Accept, ConversationInv, ConversationTypeOK, ReaderFits
<1>3. batch \in Seq(Steps) /\ DOMAIN batch = 1..Len(batch) /\ Len(batch) \in Nat
      /\ reader.stamp \in Nat /\ reader.from \in Nat \cup {Absent}
      /\ \A i \in 1..Len(batch) : batch[i] \in Steps /\ batch[i].born \in Nat
  <2>1. batch \in Seq(Steps)  BY <1>1, <1>2 DEF Batch, ReaderStates
  <2>2. \A i \in 1..Len(batch) : batch[i] \in Steps /\ batch[i].born \in Nat
    BY <2>1, StepsAreTyped
  <2>3. reader.stamp \in Nat /\ reader.from \in Nat \cup {Absent}
    BY <1>2 DEF ReaderStates
  <2> QED  BY <2>1, <2>2, <2>3
<1>4. UNCHANGED <<steps, stamp>> /\ reader' = IdleReader
      /\ cursor' = [next |-> nextCursor.next, digest |-> nextCursor.digest,
                    stamp |-> IF reader.partial THEN 0 ELSE reader.stamp]
  BY DEF Accept
<1>5. PICK first : first = First  OBVIOUS
<1>6. first \in Nat \ {0} /\ (Incremental => first = cursor.next /\ first > 1 /\ cursor # Absent)
      /\ (~Incremental => first = 1)
  BY <1>2, <1>3, <1>5 DEF HoldsSteps, First, Incremental
<1>7. \A i : Number(i) = first + i - 1  BY <1>5 DEF Number
<1>8. PICK consumed : consumed = Consumed  OBVIOUS
<1>9. /\ consumed \in 0..Len(batch)
      /\ ~reader.partial /\ consumed > 0 => ~nonTerminal(batch[consumed])
  BY <1>1, <1>3, <1>8, ConsumedIs
<1>10. /\ consumed = 0 => cursor'.next = first
                          /\ cursor'.digest = IF Incremental THEN cursor.digest ELSE Absent
       /\ consumed > 0 => cursor'.next = first + consumed /\ cursor'.digest = batch[consumed].born
  <2>1. CASE consumed = 0
    <3>1. nextCursor = [next |-> first, digest |-> IF Incremental THEN cursor.digest ELSE Absent]
      BY <1>2, <1>5, <1>8, <2>1 DEF nextCursor
    <3> QED  BY <1>4, <2>1, <3>1
  <2>2. CASE consumed > 0
    <3>1. nextCursor = [next |-> Number(consumed) + 1, digest |-> batch[consumed].born]
      BY <1>1, <1>8, <2>2 DEF nextCursor
    <3>2. Number(consumed) + 1 = first + consumed  BY <1>6, <1>7, <1>9
    <3> QED  BY <1>4, <2>2, <3>1, <3>2
  <2> QED  BY <1>9, <2>1, <2>2
<1>11. /\ cursor' \in ConversationCursors
       /\ cursor'.next > 1 => cursor'.digest \in Nat /\ cursor'.digest < stamp
  <2>1. cursor' = [next |-> cursor'.next, digest |-> cursor'.digest, stamp |-> cursor'.stamp]
        /\ cursor'.stamp \in Nat
    BY <1>3, <1>4
  <2>2. CASE consumed = 0
    <3>1. CASE Incremental
      <4>1. cursor.digest \in Nat /\ cursor.digest < stamp  BY <1>2, <1>6, <3>1 DEF CursorIsOld
      <4> QED  BY <1>6, <1>10, <2>1, <2>2, <3>1, <4>1 DEF ConversationCursors
    <3>2. CASE ~Incremental  BY <1>6, <1>10, <2>1, <2>2, <3>2 DEF ConversationCursors
    <3> QED  BY <3>1, <3>2
  <2>3. CASE consumed > 0
    <3>1. consumed \in 1..Len(batch)  BY <1>3, <1>9, <2>3
    <3>2. batch[consumed].born \in Nat /\ batch[consumed].born < stamp
      BY <1>1, <1>2, <1>3, <3>1 DEF HoldsSteps
    <3>3. first + consumed \in Nat \ {0}  BY <1>6, <3>1
    <3> QED  BY <1>10, <2>1, <2>3, <3>2, <3>3 DEF ConversationCursors
  <2> QED  BY <1>9, <2>2, <2>3
<1>12. ConversationTypeOK'  BY <1>2, <1>4, <1>11, IdleFits DEF ConversationTypeOK
<1>13. BornInOrder'  BY <1>2, <1>4 DEF BornInOrder
<1>14. CursorIsOld'  BY <1>4, <1>11 DEF CursorIsOld
<1>15. ReaderFits'  BY <1>4, IdleFits DEF ReaderFits
<1>16. PICK oldTurns, oldResults, oldEarly, oldPassed, running, followed, turnRows, tools :
           /\ oldTurns = OldTurns /\ oldResults = OldResults
           /\ oldEarly = (IF Resets THEN {} ELSE early) /\ oldPassed = (IF Resets THEN {} ELSE passed)
           /\ running = RunningSteps /\ followed = FollowedSteps
           /\ turnRows = TurnRows /\ tools = ToolRows
  OBVIOUS
<1>18. /\ turns' = [n \in DOMAIN oldTurns \cup DOMAIN turnRows |->
                      IF n \in DOMAIN oldTurns THEN oldTurns[n] ELSE turnRows[n]]
       /\ results' = [c \in DOMAIN oldResults \cup DOMAIN tools |->
                         IF c \notin DOMAIN tools THEN oldResults[c]
                         ELSE IF c \in DOMAIN oldResults /\ tools[c] = "none" THEN oldResults[c]
                         ELSE tools[c]]
       /\ early' = oldEarly \cup (running \ DOMAIN oldTurns)
       /\ passed' = oldPassed \cup (running \cap followed)
  BY <1>16, AcceptedRows
<1>17. \A n \in DOMAIN oldTurns : oldTurns[n] = "whole" \/ n \in oldEarly
  <2>1. CASE Resets
    <3>1. DOMAIN oldTurns = {}  BY <1>16, <2>1 DEF OldTurns
    <3> QED  BY <3>1
  <2>2. CASE ~Resets  BY <1>2, <1>16, <2>2 DEF PartialIsEarly, OldTurns
  <2> QED  BY <2>1, <2>2
<1>19. \A n \in DOMAIN turnRows : \E j \in 1..Len(batch) : n = first + j - 1
           /\ turnRows[n] = IF nonTerminal(batch[j]) THEN "partial" ELSE "whole"
  <2> SUFFICES ASSUME NEW n \in DOMAIN turnRows
               PROVE  \E j \in 1..Len(batch) : n = first + j - 1
                         /\ turnRows[n] = IF nonTerminal(batch[j]) THEN "partial" ELSE "whole"
    OBVIOUS
  <2>1. PICK j \in 1..Len(batch) : n = Number(j)
    BY <1>1, <1>3, <1>16 DEF TurnRows
  <2>2. turnRows[n] = text(batch[n - first + 1])
    BY <1>1, <1>5, <1>16 DEF TurnRows
  <2>3. n = first + j - 1 /\ n - first + 1 = j  BY <1>6, <1>7, <2>1
  <2> QED  BY <2>2, <2>3 DEF text
<1>20. \A j \in 1..Len(batch) : batch[j].what = "turn" => first + j - 1 \in DOMAIN turnRows
  <2> SUFFICES ASSUME NEW j \in 1..Len(batch), batch[j].what = "turn"
               PROVE  first + j - 1 \in DOMAIN turnRows
    OBVIOUS
  <2>1. Number(j) \in DOMAIN turnRows  BY <1>1, <1>3, <1>16 DEF TurnRows
  <2> QED  BY <1>7, <2>1
<1>21. \A j \in 1..Len(batch) : nonTerminal(batch[j]) => first + j - 1 \in running
  <2> SUFFICES ASSUME NEW j \in 1..Len(batch), nonTerminal(batch[j])
               PROVE  first + j - 1 \in running
    OBVIOUS
  <2>1. Number(j) \in running  BY <1>1, <1>3, <1>16 DEF RunningSteps
  <2> QED  BY <1>7, <2>1
<1>22. PartialIsEarly'
  <2> SUFFICES ASSUME NEW n \in DOMAIN turns' PROVE turns'[n] = "whole" \/ n \in early'
    BY DEF PartialIsEarly
  <2>1. CASE n \in DOMAIN oldTurns  BY <1>17, <1>18, <2>1
  <2>2. CASE n \notin DOMAIN oldTurns
    <3>1. n \in DOMAIN turnRows /\ turns'[n] = turnRows[n]  BY <1>18, <2>2
    <3>2. PICK j \in 1..Len(batch) : n = first + j - 1
             /\ turnRows[n] = IF nonTerminal(batch[j]) THEN "partial" ELSE "whole"
      BY <1>19, <3>1
    <3>3. nonTerminal(batch[j]) => n \in early'  BY <1>18, <1>21, <2>2, <3>2
    <3> QED  BY <3>1, <3>2, <3>3
  <2> QED  BY <2>1, <2>2
<1>23. \A c \in DOMAIN oldResults : c \in DOMAIN results' /\ (oldResults[c] # "none" => results'[c] # "none")
  BY <1>18
<1>24. \A c \in DOMAIN tools : c \in DOMAIN results' /\ (tools[c] # "none" => results'[c] # "none")
  BY <1>18
\* The steps that were stored before this batch.
<1>25. ASSUME Incremental, CursorStands(cursor), NEW n \in 1..(cursor.next - 1) \ passed'
       PROVE  /\ ~nonTerminal(steps[n])
              /\ steps[n].what = "turn" =>
                     /\ n \in DOMAIN turns'
                     /\ steps[n].call # Absent => steps[n].call \in DOMAIN results'
              /\ steps[n].what = "execution" /\ steps[n].status \in Outcomes =>
                     steps[n].call \in DOMAIN results' /\ results'[steps[n].call] # "none"
  <2>1. oldTurns = turns /\ oldResults = results /\ oldPassed = passed
    BY <1>16, <1>25 DEF Resets, OldTurns, OldResults
  <2>2. n \in 1..(cursor.next - 1) \ passed  BY <1>18, <1>25, <2>1
  <2>3. /\ ~nonTerminal(steps[n])
        /\ steps[n].what = "turn" =>
               /\ n \in DOMAIN turns
               /\ steps[n].call # Absent => steps[n].call \in DOMAIN results
        /\ steps[n].what = "execution" /\ steps[n].status \in Outcomes =>
               steps[n].call \in DOMAIN results /\ results[steps[n].call] # "none"
    BY <1>2, <1>25, <2>2 DEF ConversationIsStored
  <2>4. DOMAIN turns \subseteq DOMAIN turns'  BY <1>18, <2>1
  <2> QED  BY <1>23, <2>1, <2>3, <2>4
\* The steps of this batch.
<1>26. ASSUME consumed > 0, InPlace(consumed), NEW j \in 1..consumed, first + j - 1 \notin passed'
       PROVE  /\ ~nonTerminal(steps[first + j - 1])
              /\ steps[first + j - 1].what = "turn" =>
                     /\ first + j - 1 \in DOMAIN turns'
                     /\ steps[first + j - 1].call # Absent => steps[first + j - 1].call \in DOMAIN results'
              /\ steps[first + j - 1].what = "execution" /\ steps[first + j - 1].status \in Outcomes =>
                     /\ steps[first + j - 1].call \in DOMAIN results'
                     /\ results'[steps[first + j - 1].call] # "none"
  <2>1. PICK n : n = first + j - 1  OBVIOUS
  <2>2. j \in 1..Len(batch) /\ consumed \in 1..Len(batch)  BY <1>3, <1>9, <1>26
  <2>3. Became(batch[j], steps[n])
    BY <1>1, <1>2, <1>3, <1>7, <1>26, <2>1, <2>2 DEF HoldsSteps
  <2>4. ~nonTerminal(batch[j])
    <3> SUFFICES ASSUME nonTerminal(batch[j]) PROVE FALSE  OBVIOUS
    <3>1. n \in running  BY <1>21, <2>1, <2>2
    <3>2. n \in followed
      <4>1. reader.partial \/ \E k \in 1..Len(batch) : k > j /\ ~nonTerminal(batch[k])
        <5>1. CASE reader.partial  BY <5>1
        <5>2. CASE ~reader.partial
          <6>1. ~nonTerminal(batch[consumed])  BY <1>9, <1>26, <5>2
          <6>2. consumed # j /\ consumed > j  BY <1>3, <1>9, <1>26, <6>1
          <6> QED  BY <2>2, <6>1, <6>2
        <5> QED  BY <5>1, <5>2
      <4>2. Number(j) \in followed  BY <1>1, <1>3, <1>16, <2>2, <4>1 DEF FollowedSteps
      <4> QED  BY <1>7, <2>1, <4>2
    <3> QED  BY <1>18, <1>26, <2>1, <3>1, <3>2
  <2>5. /\ steps[n].status = batch[j].status /\ steps[n].what = batch[j].what
        /\ steps[n].call = batch[j].call /\ ~nonTerminal(steps[n])
    BY <2>3, <2>4 DEF Became, nonTerminal
  <2>6. steps[n].what = "turn" =>
            /\ n \in DOMAIN turns'
            /\ steps[n].call # Absent => steps[n].call \in DOMAIN results'
    <3> SUFFICES ASSUME batch[j].what = "turn"
                 PROVE  /\ n \in DOMAIN turns'
                        /\ batch[j].call # Absent => batch[j].call \in DOMAIN results'
      BY <2>5
    <3>1. n \in DOMAIN turnRows  BY <1>20, <2>1, <2>2
    <3>2. n \in DOMAIN turns'  BY <1>18, <3>1
    <3>3. batch[j].call # Absent => batch[j].call \in Named
      BY <1>1, <1>3, <2>2 DEF Named
    <3>4. Named \subseteq DOMAIN tools  BY <1>16 DEF ToolRows
    <3> QED  BY <1>24, <3>2, <3>3, <3>4
  <2>7. steps[n].what = "execution" /\ steps[n].status \in Outcomes =>
            steps[n].call \in DOMAIN results' /\ results'[steps[n].call] # "none"
    <3> SUFFICES ASSUME batch[j].what = "execution", batch[j].status \in Outcomes
                 PROVE  batch[j].call \in DOMAIN results' /\ results'[batch[j].call] # "none"
      BY <2>5
    <3>1. batch[j].call \in Calls  BY <1>1, <1>2, <1>3, <2>2 DEF HoldsSteps
    <3>2. batch[j].call \in DOMAIN tools /\ tools[batch[j].call] # "none"
      BY <1>1, <1>3, <1>16, <2>2, <3>1, ToldIsKnown
    <3> QED  BY <1>24, <3>2
  <2> QED  BY <2>1, <2>4, <2>5, <2>6, <2>7
<1>27. ASSUME CursorStands(cursor)', NEW n \in 1..(cursor'.next - 1) \ passed'
       PROVE  /\ ~nonTerminal(steps[n])
              /\ steps[n].what = "turn" =>
                     /\ n \in DOMAIN turns'
                     /\ steps[n].call # Absent => steps[n].call \in DOMAIN results'
              /\ steps[n].what = "execution" /\ steps[n].status \in Outcomes =>
                     steps[n].call \in DOMAIN results' /\ results'[steps[n].call] # "none"
  <2>1. /\ cursor'.next > 1 /\ cursor'.next - 1 \in DOMAIN steps
        /\ steps[cursor'.next - 1].born = cursor'.digest
    BY <1>4, <1>27 DEF CursorStands, digest
  <2>2. CASE consumed = 0
    <3>1. Incremental /\ cursor'.next = cursor.next /\ cursor'.digest = cursor.digest
      BY <1>6, <1>10, <2>1, <2>2
    <3>2. CursorStands(cursor)  BY <1>6, <2>1, <3>1 DEF CursorStands, digest
    <3> QED  BY <1>25, <1>27, <3>1, <3>2
  <2>3. CASE consumed > 0
    <3>1. cursor'.next - 1 = first + consumed - 1 /\ consumed \in 1..Len(batch)
      BY <1>3, <1>6, <1>9, <1>10, <2>3
    <3>2. InPlace(consumed)
      BY <1>1, <1>7, <1>10, <2>1, <2>3, <3>1 DEF InPlace
    <3>3. Incremental => CursorStands(cursor)
      BY <1>1, <1>2, <1>3, <3>1, <3>2 DEF HoldsSteps
    <3>4. CASE n >= first
      <4>1. PICK j : j = n - first + 1  OBVIOUS
      <4>2. j \in 1..consumed /\ n = first + j - 1  BY <1>6, <1>27, <3>1, <3>4, <4>1
      <4> QED  BY <1>26, <1>27, <2>3, <3>2, <4>2
    <3>5. CASE n < first
      <4>1. Incremental /\ n \in 1..(cursor.next - 1)  BY <1>6, <1>27, <3>1, <3>5
      <4> QED  BY <1>25, <1>27, <3>3, <4>1
    <3> QED  BY <1>6, <1>27, <3>1, <3>4, <3>5
  <2> QED  BY <1>9, <2>2, <2>3
<1>28. ConversationIsStored'
  <2> SUFFICES ASSUME CursorStands(cursor)', NEW n \in 1..(cursor'.next - 1) \ passed'
               PROVE  /\ ~nonTerminal(steps'[n])
                      /\ steps'[n].what = "turn" =>
                            /\ n \in DOMAIN turns'
                            /\ n \notin early' => turns'[n] = "whole"
                            /\ steps'[n].call # Absent => steps'[n].call \in DOMAIN results'
                      /\ steps'[n].what = "execution" /\ steps'[n].status \in Outcomes =>
                            steps'[n].call \in DOMAIN results' /\ results'[steps'[n].call] # "none"
    BY DEF ConversationIsStored
  <2>1. n \in DOMAIN turns' => (n \notin early' => turns'[n] = "whole")
    BY <1>22 DEF PartialIsEarly
  <2> QED  BY <1>4, <1>27, <2>1
<1> QED  BY <1>12, <1>13, <1>14, <1>15, <1>22, <1>28 DEF ConversationInv

-------------------------------------------------------------------------------
LEMMA ConversationStep ==
  ASSUME AntigravityAssumption, ConversationInv, [AntigravityNext]_antigravityVars
  PROVE  ConversationInv'
<1>1. CASE NewStep \/ StepChanges \/ TakenBack  BY <1>1, SnapshotStep
<1>2. CASE Checkpoint \/ UNCHANGED antigravityVars
  <2>1. UNCHANGED ConversationRows /\ reader' = reader
    BY <1>2 DEF Checkpoint, antigravityVars, ConversationRows
  <2>2. reader' \in ReaderStates  BY <2>1 DEF ConversationInv, ConversationTypeOK
  <2>3. reader.step \in {"check", "accept"} => HoldsSteps'
    BY <2>1, HoldsStill DEF ConversationInv, ReaderFits
  <2>4. ReaderFits'
    BY <2>1, <2>3 DEF ConversationInv, ReaderFits, ConversationRows
  <2> QED  BY <2>1, <2>2, <2>4, ReaderMoves
<1>3. CASE OpenSnapshot  BY <1>3, OpenSnapshotStep
<1>4. CASE LoadSteps  BY <1>4, LoadStepsStep
<1>5. CASE Check  BY <1>5, CheckStep
<1>6. CASE Accept  BY <1>6, AcceptStep
<1>7. CASE GiveUp
  <2>1. UNCHANGED ConversationRows /\ reader' = IdleReader
    BY <1>7 DEF GiveUp, ReaderGoes, ConversationRows
  <2> QED  BY <2>1, IdleStep
<1> QED  BY <1>1, <1>2, <1>3, <1>4, <1>5, <1>6, <1>7 DEF AntigravityNext

(***************************************************************************)
(* However the producer goes on, ends steps, takes the conversation back   *)
(* or replaces the database between the steps of an import, and wherever   *)
(* an import dies: while the last consumed step is in place, each consumed *)
(* step is stored as it is now, and what became of a call is known where   *)
(* an execution tells, but for the two exceptions that ConversationIsStored*)
(* names (captureConversation, toolResult, nextCursor, applyDetail).       *)
(***************************************************************************)
THEOREM ConversationsAreKept ==
  ASSUME AntigravityAssumption
  PROVE  AntigravitySpec => []ConversationIsStored
<1>1. AntigravityInit => ConversationInv  BY ConversationInit
<1>2. ConversationInv /\ [AntigravityNext]_antigravityVars => ConversationInv'  BY ConversationStep
<1>3. ConversationInv => ConversationIsStored  BY DEF ConversationInv
<1> QED  BY <1>1, <1>2, <1>3, PTL DEF AntigravitySpec
================================================================================
