----------------------------- MODULE SourceProofs ------------------------------
(***************************************************************************)
(* Theorems about what the engine is told by others.  TranscriptImport,    *)
(* for every number of ingest runs, every window and every history of the  *)
(* file: what the stored cursor has passed is stored.  CodexCapture, for   *)
(* every rollout however it grows and is cut into batches: what is stored  *)
(* is what one read of it would have given.  ProviderAdapters, for         *)
(* whatever a provider says: one image or video is one asset, and what an  *)
(* adapter says of media is so.                                            *)
(***************************************************************************)
EXTENDS TranscriptImport, CodexCapture, ProviderAdapters, FiniteSetTheorems, WellFoundedInduction, TLAPS

(***************************************************************************)
(* Imports.                                                                *)
(***************************************************************************)

Cursors == [read : Seq(Lines), tail : Seq(Lines)]
Positions == Cursors \cup {NoCursor}
ImporterState == [step : {"idle", "looked", "parsed"}, base : Positions, hadCursor : BOOLEAN,
                  got : Seq(Lines), overtaken : BOOLEAN]

ImportTypeOK ==
    /\ file \in Seq(Lines) /\ half \in BOOLEAN /\ (half => file # <<>>)
    /\ turns \in SUBSET Lines
    /\ cursor \in Positions
    /\ importers \in [Importers -> ImporterState]
    /\ undercut \in BOOLEAN

\* Rows stand under a position: all that was read before it is stored.
Backed(c) == c # NoCursor => ToSet(c.read) \subseteq turns

\* Unless rows were undercut, the cursor is backed, and so is the position that
\* a run took from it, until another run drops the rows and overtakes it.
ImportInv ==
    /\ ImportTypeOK
    /\ ~undercut => /\ Backed(cursor)
                    /\ \A i \in Importers : ~importers[i].overtaken => Backed(importers[i].base)

-------------------------------------------------------------------------------
(***************************************************************************)
(* Sequences.                                                              *)
(***************************************************************************)
LEMMA SubSeqLines ==
    ASSUME NEW s \in Seq(Lines), NEW m \in Nat \ {0}, NEW n \in Nat, n <= Len(s)
    PROVE  SubSeq(s, m, n) \in Seq(Lines)
OBVIOUS

LEMMA WholeLinesType == ImportTypeOK => WholeLines \in Seq(Lines)
<1> SUFFICES ASSUME ImportTypeOK PROVE WholeLines \in Seq(Lines)
  OBVIOUS
<1>1. file \in Seq(Lines) /\ Len(file) \in Nat /\ (half => file # <<>>)
  BY DEF ImportTypeOK
<1>2. CASE half
  <2>1. Len(file) # 0
    BY <1>1, <1>2
  <2>2. Len(file) - 1 \in Nat /\ Len(file) - 1 <= Len(file)
    BY <1>1, <2>1
  <2> QED BY <1>1, <1>2, <2>2, SubSeqLines DEF WholeLines, Front
<1> QED BY <1>1, <1>2 DEF WholeLines

LEMMA TailType == ASSUME NEW s \in Seq(Lines) PROVE LastLines(s) \in Seq(Lines)
<1>1. Len(s) \in Nat /\ Window \in Nat \ {0}
  BY ImportConstants
<1>2. CASE Len(s) <= Window
  BY <1>2 DEF LastLines
<1>3. CASE ~(Len(s) <= Window)
  <2>1. Len(s) - Window + 1 \in Nat \ {0}
    BY <1>1, <1>3
  <2> QED BY <1>1, <1>3, <2>1, SubSeqLines DEF LastLines
<1> QED BY <1>2, <1>3

LEMMA ReadTogether ==
    ASSUME NEW s \in Seq(Lines), NEW t \in Seq(Lines)
    PROVE  ToSet(s \o t) = ToSet(s) \cup ToSet(t) /\ ToSet(t) \subseteq Lines
<1>1. Len(s) \in Nat /\ Len(t) \in Nat /\ Len(s \o t) = Len(s) + Len(t)
  OBVIOUS
<1>2. \A k \in 1..Len(s) : k \in 1..Len(s \o t) /\ (s \o t)[k] = s[k]
  BY <1>1
<1>3. \A k \in 1..Len(t) : Len(s) + k \in 1..Len(s \o t) /\ (s \o t)[Len(s) + k] = t[k]
  BY <1>1
<1>4. ASSUME NEW k \in 1..Len(s \o t) PROVE (s \o t)[k] \in ToSet(s) \cup ToSet(t)
  <2>1. CASE k <= Len(s)
    BY <1>1, <1>2, <2>1 DEF ToSet
  <2>2. CASE ~(k <= Len(s))
    <3>1. k - Len(s) \in 1..Len(t) /\ k = Len(s) + (k - Len(s))
      BY <1>1, <2>2
    <3> QED BY <1>3, <3>1 DEF ToSet
  <2> QED BY <2>1, <2>2
<1>5. ToSet(s \o t) \subseteq ToSet(s) \cup ToSet(t)
  BY <1>4 DEF ToSet
<1>6. ToSet(s) \subseteq ToSet(s \o t)
  BY <1>2 DEF ToSet
<1>7. ToSet(t) \subseteq ToSet(s \o t)
  <2> SUFFICES ASSUME NEW e \in ToSet(t) PROVE e \in ToSet(s \o t)
    OBVIOUS
  <2>1. PICK k \in 1..Len(t) : e = t[k]
    BY DEF ToSet
  <2>2. PICK n \in 1..Len(s \o t) : e = (s \o t)[n]
    BY <1>3, <2>1
  <2>3. s \o t \in Seq(Lines)
    OBVIOUS
  <2> QED BY <2>2, <2>3 DEF ToSet
<1>8. ToSet(t) \subseteq Lines
  BY DEF ToSet
<1> QED BY <1>5, <1>6, <1>7, <1>8

LEMMA FilesAreSequences == Files \subseteq Seq(Lines)
<1>0. <<>> \in Seq(Lines)
  OBVIOUS
<1> SUFFICES ASSUME NEW f \in Files, f # <<>> PROVE f \in Seq(Lines)
  BY <1>0
<1>1. PICK S \in SUBSET Lines : f \in SetToSeqs(S)
  BY DEF Files, SetToAllKPermutations
<1>2. Cardinality(S) \in Nat
  BY ImportConstants, FS_Subset, FS_CardinalityType
<1>3. f \in [1..Cardinality(S) -> Lines]
  BY <1>1 DEF SetToSeqs
<1> QED BY <1>2, <1>3

-------------------------------------------------------------------------------
(***************************************************************************)
(* The steps of a run.                                                     *)
(***************************************************************************)
LEMMA RunTypes ==
    ASSUME ImportTypeOK, NEW i \in Importers
    PROVE  /\ importers[i] \in ImporterState
           /\ Start(i) \in Seq(Lines) /\ StartTail(i) \in Seq(Lines)
           /\ Start(i) \o importers[i].got \in Seq(Lines)
           /\ LastLines(StartTail(i) \o importers[i].got) \in Seq(Lines)
<1>1. importers[i] \in ImporterState
  BY DEF ImportTypeOK
<1>2. importers[i].base \in Positions /\ importers[i].got \in Seq(Lines)
  BY <1>1 DEF ImporterState
<1>3. Start(i) \in Seq(Lines) /\ StartTail(i) \in Seq(Lines)
  BY <1>2 DEF Start, StartTail, Incremental, Positions, Cursors
<1>4. Start(i) \o importers[i].got \in Seq(Lines) /\ StartTail(i) \o importers[i].got \in Seq(Lines)
  BY <1>2, <1>3
<1> QED BY <1>1, <1>3, <1>4, TailType

\* A run that changes no row and takes its position from the stored cursor, or
\* keeps the one it has.
LEMMA RunMoves ==
    ASSUME ImportInv, NEW i \in Importers, NEW m \in ImporterState,
           importers' = [importers EXCEPT ![i] = m],
           ~undercut => (m.overtaken \/ Backed(m.base)),
           UNCHANGED <<file, half, turns, cursor, undercut>>
    PROVE  ImportInv'
<1>1. importers \in [Importers -> ImporterState] /\ ImportTypeOK
  BY DEF ImportInv, ImportTypeOK
<1>2. importers' \in [Importers -> ImporterState] /\ importers'[i] = m
      /\ \A j \in Importers : j # i => importers'[j] = importers[j]
  BY <1>1
<1>3. ImportTypeOK'
  BY <1>1, <1>2 DEF ImportTypeOK
<1>4. ASSUME ~undercut' PROVE Backed(cursor)' /\ \A j \in Importers : ~importers'[j].overtaken => Backed(importers[j].base)'
  <2>1. ~undercut
    BY <1>4
  <2>2. Backed(cursor)'
    BY <2>1 DEF ImportInv, Backed
  <2>3. ASSUME NEW j \in Importers, ~importers'[j].overtaken PROVE Backed(importers[j].base)'
    <3>1. CASE j = i
      BY <1>2, <2>1, <2>3, <3>1 DEF Backed
    <3>2. CASE j # i
      BY <1>2, <2>1, <2>3, <3>2 DEF ImportInv, Backed
    <3> QED BY <3>1, <3>2
  <2> QED BY <2>2, <2>3
<1> QED BY <1>3, <1>4 DEF ImportInv

LEMMA LookedType ==
    ASSUME NEW had \in BOOLEAN, NEW base \in Positions
    PROVE  LET m == [Idle EXCEPT !.step = "looked", !.hadCursor = had, !.base = base]
           IN  m \in ImporterState /\ m.base = base
<1> DEFINE row == [Idle EXCEPT !.step = "looked", !.hadCursor = had, !.base = base]
<1>1. DOMAIN row = {"step", "base", "hadCursor", "got", "overtaken"}
  BY DEF Idle
<1>2. row.step = "looked"
  BY DEF Idle
<1>3. row.base = base
  BY DEF Idle
<1>4. row.hadCursor = had
  BY DEF Idle
<1>5. row.got = <<>> /\ row.overtaken = FALSE
  BY DEF Idle
<1>6. row = [f \in DOMAIN row |-> row[f]]
  BY DEF Idle
<1> HIDE DEF row
<1>7. row = [step |-> "looked", base |-> base, hadCursor |-> had, got |-> <<>>, overtaken |-> FALSE]
  BY <1>1, <1>2, <1>3, <1>4, <1>5, <1>6
<1>8. row \in ImporterState
  BY <1>7 DEF ImporterState
<1> QED BY <1>3, <1>8 DEF row

LEMMA LookKeeps == ASSUME ImportInv, NEW i \in Importers, Look(i) PROVE ImportInv'
<1> DEFINE m == [Idle EXCEPT !.step = "looked", !.hadCursor = cursor # NoCursor,
                             !.base = IF CursorValid THEN cursor ELSE NoCursor]
<1>1. cursor \in Positions
  BY DEF ImportInv, ImportTypeOK
<1>2. m.base \in {cursor, NoCursor} /\ m \in ImporterState
  <2> DEFINE base == IF CursorValid THEN cursor ELSE NoCursor
             had == cursor # NoCursor
  <2>1. base \in {cursor, NoCursor} /\ base \in Positions /\ had \in BOOLEAN
    BY <1>1 DEF Positions
  <2>2. m = [Idle EXCEPT !.step = "looked", !.hadCursor = had, !.base = base]
    OBVIOUS
  <2> HIDE DEF base, had, m
  <2> QED BY <2>1, <2>2, LookedType
<1>3. ~undercut => Backed(m.base)
  BY <1>2 DEF ImportInv, Backed
<1>4. importers' = [importers EXCEPT ![i] = m] /\ UNCHANGED <<file, half, turns, cursor, undercut>>
  BY DEF Look, store
<1> HIDE DEF m
<1> QED BY <1>2, <1>3, <1>4, RunMoves

LEMMA IdleIsBacked == Idle \in ImporterState /\ Backed(Idle.base)
BY DEF Idle, ImporterState, Positions, Backed

LEMMA ParseKeeps == ASSUME ImportInv, NEW i \in Importers, Parse(i) PROVE ImportInv'
<1> DEFINE got == SubSeq(WholeLines, Len(Start(i)) + 1, Len(WholeLines))
           m == IF got = <<>> THEN Idle ELSE [importers[i] EXCEPT !.step = "parsed", !.got = got]
<1>1. ImportTypeOK /\ importers[i] \in ImporterState /\ Start(i) \in Seq(Lines) /\ WholeLines \in Seq(Lines)
  BY RunTypes, WholeLinesType DEF ImportInv
<1>2. got \in Seq(Lines)
  <2>1. Len(Start(i)) + 1 \in Nat \ {0} /\ Len(WholeLines) \in Nat
    BY <1>1
  <2> QED BY <1>1, <2>1, SubSeqLines
<1>3. /\ importers' = [importers EXCEPT ![i] = m] /\ UNCHANGED <<file, half, turns, cursor, undercut>>
  BY DEF Parse, store
<1> HIDE DEF got
<1>4. m \in ImporterState
  BY <1>1, <1>2, IdleIsBacked DEF ImporterState
<1>5. m = Idle \/ (m.overtaken = importers[i].overtaken /\ m.base = importers[i].base)
  BY <1>1 DEF ImporterState
<1> HIDE DEF m
<1>6. ~undercut => (m.overtaken \/ Backed(m.base))
  BY <1>5, IdleIsBacked DEF ImportInv
<1> QED BY <1>3, <1>4, <1>6, RunMoves

LEMMA GiveUpKeeps == ASSUME ImportInv, NEW i \in Importers, GiveUp(i) PROVE ImportInv'
BY IdleIsBacked, RunMoves DEF GiveUp, store

\* Rows are only added, or dropped together with the claims on them.
LEMMA AcceptKeeps == ASSUME ImportInv, NEW i \in Importers, Accept(i) PROVE ImportInv'
<1> DEFINE read == Start(i) \o importers[i].got
           tail == LastLines(StartTail(i) \o importers[i].got)
<1>1. /\ ImportTypeOK /\ importers[i] \in ImporterState /\ importers[i].got \in Seq(Lines)
      /\ Start(i) \in Seq(Lines) /\ read \in Seq(Lines) /\ tail \in Seq(Lines)
  BY RunTypes DEF ImportInv, ImporterState
<1>2. /\ turns' = (IF Resets(i) THEN {} ELSE turns) \cup ToSet(importers[i].got)
      /\ cursor' = [read |-> read, tail |-> tail]
      /\ undercut' = (undercut \/ (Incremental(i) /\ importers[i].overtaken))
      /\ importers' = [j \in Importers |->
           IF j = i THEN Idle
           ELSE IF Resets(i) /\ importers[j] # Idle THEN [importers[j] EXCEPT !.overtaken = TRUE]
           ELSE importers[j]]
      /\ UNCHANGED <<file, half>>
  BY DEF Accept, Cursor
<1>3. /\ importers \in [Importers -> ImporterState] /\ file \in Seq(Lines) /\ half \in BOOLEAN
      /\ (half => file # <<>>)
      /\ turns \in SUBSET Lines /\ undercut \in BOOLEAN
  BY <1>1 DEF ImportTypeOK
<1>4. ToSet(read) = ToSet(Start(i)) \cup ToSet(importers[i].got) /\ ToSet(importers[i].got) \subseteq Lines
  BY <1>1, ReadTogether
<1> HIDE DEF read, tail
<1>5. cursor' \in Positions /\ cursor'.read = read
  BY <1>1, <1>2 DEF Positions, Cursors
<1>6. \A j \in Importers : j # i => /\ importers'[j] \in ImporterState /\ importers'[j].base = importers[j].base
                                    /\ (importers[j].overtaken => importers'[j].overtaken)
                                    /\ (Resets(i) => (importers'[j] = Idle \/ importers'[j].overtaken))
  BY <1>2, <1>3, IdleIsBacked DEF ImporterState
<1>7. importers' \in [Importers -> ImporterState] /\ importers'[i] = Idle
  BY <1>2, <1>6, IdleIsBacked
<1>8. ImportTypeOK'
  BY <1>2, <1>3, <1>4, <1>5, <1>7 DEF ImportTypeOK
<1>9. ASSUME ~undercut' PROVE Backed(cursor)' /\ \A j \in Importers : ~importers'[j].overtaken => Backed(importers[j].base)'
  <2>1. ~undercut /\ (Incremental(i) => ~importers[i].overtaken)
    BY <1>2, <1>9
  <2>2. Incremental(i) => ~Resets(i)
    BY DEF Resets
  <2>3. ToSet(Start(i)) \subseteq turns'
    <3>1. CASE Incremental(i)
      BY <1>2, <2>1, <2>2, <3>1 DEF ImportInv, Backed, Start, Incremental
    <3>2. CASE ~Incremental(i)
      BY <3>2 DEF Start, ToSet
    <3> QED BY <3>1, <3>2
  <2>4. ToSet(read) \subseteq turns'
    BY <1>2, <1>4, <2>3
  <2>5. Backed(cursor)'
    BY <1>5, <2>4 DEF Backed
  <2>6. ASSUME NEW j \in Importers, ~importers'[j].overtaken PROVE Backed(importers[j].base)'
    <3>1. CASE j = i \/ importers'[j] = Idle
      BY <1>7, <3>1 DEF Backed, Idle
    <3>2. CASE j # i /\ importers'[j] # Idle
      <4>1. ~Resets(i) /\ ~importers[j].overtaken /\ importers'[j].base = importers[j].base
        BY <1>6, <2>6, <3>2
      <4>2. Backed(importers[j].base) /\ turns \subseteq turns'
        BY <1>2, <2>1, <4>1 DEF ImportInv
      <4> QED BY <4>1, <4>2 DEF Backed
    <3> QED BY <3>1, <3>2
  <2> QED BY <2>5, <2>6
<1> QED BY <1>8, <1>9 DEF ImportInv

\* The file changes under all of them.
LEMMA FileKeeps ==
    ASSUME ImportInv, AppendLine \/ FinishLine \/ Replace \/ UNCHANGED vars PROVE ImportInv'
<1>1. UNCHANGED <<turns, cursor, importers, undercut>>
  BY DEF AppendLine, FinishLine, Replace, store, vars
<1>2. file' \in Seq(Lines) /\ half' \in BOOLEAN /\ (half' => file' # <<>>)
  <2>0. file \in Seq(Lines) /\ half \in BOOLEAN /\ (half => file # <<>>)
    BY DEF ImportInv, ImportTypeOK
  <2>1. CASE AppendLine
    <3>1. PICK l \in Lines : file' = Append(file, l)
      BY <2>1 DEF AppendLine
    <3>2. Append(file, l) \in Seq(Lines) /\ Append(file, l) # <<>>
      BY <2>0, <3>1
    <3> QED BY <2>1, <3>1, <3>2 DEF AppendLine
  <2>2. CASE Replace
    <3>1. \E f \in Files : file' = f
      BY <2>2 DEF Replace
    <3>2. half' = FALSE
      BY <2>2 DEF Replace
    <3> QED BY <3>1, <3>2, FilesAreSequences
  <2>3. CASE FinishLine \/ UNCHANGED vars
    <3>1. file' = file
      BY <2>3 DEF FinishLine, vars
    <3>2. half' = FALSE \/ half' = half
      BY <2>3 DEF FinishLine, vars
    <3>3. half' \in BOOLEAN
      BY <2>0, <3>2
    <3>4. half' => half
      BY <3>2
    <3> QED BY <2>0, <3>1, <3>3, <3>4
  <2> QED BY <2>1, <2>2, <2>3
<1>3. ImportTypeOK'
  BY <1>1, <1>2 DEF ImportInv, ImportTypeOK
<1> QED BY <1>1, <1>3 DEF ImportInv, Backed

(***************************************************************************)
(* All that the cursor says was read is stored, unless a run read on from  *)
(* a cursor whose rows another had dropped meanwhile: no line of a session *)
(* file is skipped for good (collectSegment, acceptDetail, applyDetail).   *)
(***************************************************************************)
THEOREM NoLineIsSkipped == Spec => []ConsumedIsStored
<1>1. Init => ImportInv
  <2> SUFFICES ASSUME Init PROVE ImportInv
    OBVIOUS
  <2>1. file \in Seq(Lines) /\ half \in BOOLEAN /\ (half => file # <<>>) /\ turns \in SUBSET Lines
    <3>1. file = <<>> /\ half = FALSE /\ turns = {}
      BY DEF Init
    <3>2. <<>> \in Seq(Lines)
      OBVIOUS
    <3> QED BY <3>1, <3>2
  <2>2. cursor \in Positions /\ undercut \in BOOLEAN /\ Backed(cursor)
    BY DEF Init, Positions, Backed
  <2>3. importers \in [Importers -> ImporterState] /\ \A i \in Importers : Backed(importers[i].base)
    BY IdleIsBacked DEF Init
  <2> QED BY <2>1, <2>2, <2>3 DEF ImportInv, ImportTypeOK
<1>2. ImportInv /\ [Next]_vars => ImportInv'
  BY LookKeeps, ParseKeeps, AcceptKeeps, GiveUpKeeps, FileKeeps DEF Next, Import
<1>3. ImportInv => ConsumedIsStored
  BY DEF ImportInv, Backed, ConsumedIsStored
<1> QED BY <1>1, <1>2, <1>3, PTL DEF Spec

(***************************************************************************)
(* Providers.                                                              *)
(***************************************************************************)

Said == [id : Posts, caption : {"none", "plain", "unsafe"}, items : Seq(MediaItem)]
Medias == {i.media : i \in MediaItems}
Variants(manifest) == UNION {m.variants : m \in manifest}

\* A variant is of the asset of its media, or of the pin it stands for, and the
\* bytes of a video are not fetched.
WellMade(v) ==
    /\ v.asset = AssetId(IF Named THEN v.media ELSE <<post.id, "image">>)
    /\ provider = "pinterest" => v.media \in Medias
    /\ v.itemKind = "video" /\ v.kind = "original" => v.state \in {"reference_only", "failed"}

\* An answer hands out such variants, refers to usable ones, and gives up on a
\* kind of representation only if none of it is to be had later.
Honest(capability, a) ==
    /\ \A v \in Variants(a.manifest) :
           /\ WellMade(v)
           /\ v.id \in a.refs => v.state # "failed"
    /\ a.code \in {"media_unavailable", "capability_unavailable"}
           => \A v \in Variants(a.manifest) : Wanted(capability, v.kind) => v.failure # "for_now"

\* What a manifest owes to the adapter that builds it: variants with one identity
\* fare alike, and none has the identity of an asset.
Identified(manifest) ==
    /\ \A v \in Variants(manifest) :
           /\ WellMade(v)
           /\ v.state = "failed" <=> v.failure # "usable"
           /\ \A m \in manifest : m.asset # v.id
    /\ \A v, w \in Variants(manifest) : v.id = w.id => v.failure = w.failure

LEMMA EmptyIsHonest ==
  ASSUME NEW capability, NEW a, a.manifest = {}
  PROVE  Honest(capability, a)
  BY DEF Honest, Variants

LEMMA PermanentIsHonest ==
  ASSUME NEW capability, NEW code
  PROVE  Honest(capability, permanent(code))
  BY EmptyIsHonest DEF permanent, Refuse

LEMMA BareIsHonest ==
  ASSUME NEW capability, NEW refs
  PROVE  Honest(capability, Answer({}, refs))
  BY EmptyIsHonest DEF Answer

LEMMA UnlessIsHonest ==
  ASSUME NEW capability, NEW refusals, NEW answer, Honest(capability, answer)
  PROVE  Honest(capability, Unless(refusals, answer))
<1>1. Unless(refusals, answer) = answer \/ \E code : Unless(refusals, answer) = permanent(code)
  BY DEF Unless
<1>2. QED  BY <1>1, PermanentIsHonest

LEMMA CheckedIsHonest ==
  ASSUME NEW capability, NEW a, NEW answer,
         Honest(capability, a), ~Refused(a) => Honest(capability, answer)
  PROVE  Honest(capability, Checked(a, answer))
  BY DEF Checked

LEMMA UnavailableIsHonest ==
  ASSUME NEW capability, NEW manifest, Identified(manifest)
  PROVE  Honest(capability, mediaUnavailable(manifest, capability))
<1> DEFINE a == mediaUnavailable(manifest, capability)
<1>1. a.manifest = manifest /\ a.refs = {}
  BY DEF mediaUnavailable, Refuse
<1>2. "for_now" \in Failures(manifest, capability) => a.code = "media_temporarily_unavailable"
  BY DEF mediaUnavailable, Refuse
<1>3. ASSUME NEW v \in Variants(manifest), Wanted(capability, v.kind), v.failure = "for_now"
      PROVE  "for_now" \in Failures(manifest, capability)
  <2>1. v.state = "failed"  BY <1>3 DEF Identified
  <2>2. QED  BY <1>3, <2>1 DEF Failures, Variants
<1>4. \A v \in Variants(manifest) : WellMade(v)  BY DEF Identified
<1>5. "media_temporarily_unavailable" \notin {"media_unavailable", "capability_unavailable"}
  OBVIOUS
<1>6. QED  BY <1>1, <1>2, <1>3, <1>4, <1>5 DEF Honest

LEMMA ReferringIsHonest ==
  ASSUME NEW capability, NEW manifest, Identified(manifest)
  PROVE  Honest(capability, Referring(manifest, capability))
<1> DEFINE refs == mediaReferences(manifest, capability)
           a == Answer(manifest, refs)
<1>1. ASSUME NEW v \in Variants(manifest), v.id \in refs  PROVE v.state # "failed"
  <2>1. CASE capability = "gallery_manifest"
    <3>1. \E m \in manifest : v.id = m.asset  BY <1>1, <2>1 DEF mediaReferences
    <3>2. QED  BY <3>1 DEF Identified
  <2>2. CASE capability # "gallery_manifest"
    <3>1. PICK w \in Variants(manifest) : w.state # "failed" /\ v.id = w.id
      BY <1>1, <2>2 DEF mediaReferences, Variants
    <3>2. QED  BY <3>1 DEF Identified
  <2>3. QED  BY <2>1, <2>2
<1>2. a.manifest = manifest /\ a.refs = refs /\ a.code = "none"  BY DEF Answer
<1>3. \A v \in Variants(manifest) : WellMade(v)  BY DEF Identified
<1>4. Honest(capability, a)  BY <1>1, <1>2, <1>3 DEF Honest
<1>5. Referring(manifest, capability) = IF refs = {} THEN mediaUnavailable(manifest, capability) ELSE a
  BY DEF Referring
<1>6. QED  BY <1>4, <1>5, UnavailableIsHonest

LEMMA FewerAreIdentified ==
  ASSUME NEW manifest, Identified(manifest), NEW kind
  PROVE  Identified(OfKind(manifest, kind))
<1> DEFINE some == OfKind(manifest, kind)
<1>1. Variants(some) \subseteq Variants(manifest)
  BY DEF OfKind, Variants
<1>2. \A m \in some : \E n \in manifest : m.asset = n.asset
  BY DEF OfKind
<1>3. QED  BY <1>1, <1>2 DEF Identified

LEMMA PartIsIdentified ==
  ASSUME NEW manifest, Identified(manifest), NEW part, part \subseteq manifest
  PROVE  Identified(part)
<1>1. Variants(part) \subseteq Variants(manifest)  BY DEF Variants
<1>2. QED  BY <1>1 DEF Identified

(***************************************************************************)
(* What a variant is made of.                                              *)
(***************************************************************************)
LEMMA VariantFields ==
  ASSUME NEW item, NEW asset, NEW of, NEW fares, NEW custody,
         NEW v, v = Variant(item, asset, of, fares, custody)
  PROVE  /\ v.media = item.media /\ v.itemKind = item.kind /\ v.asset = asset /\ v.kind = of
         /\ v.id = VariantId(asset, of) /\ v.failure = fares
         /\ v.state = "failed" <=> fares # "usable"
         /\ custody = "reference" => v.state \in {"failed", "reference_only"}
  BY DEF Variant

LEMMA VariantIdTells ==
  ASSUME NEW a, NEW b, NEW k, NEW l, VariantId(a, k) = VariantId(b, l)
  PROVE  a = b /\ k = l
  BY DEF VariantId

LEMMA AssetIdTells ==
  ASSUME NEW m, NEW n, AssetId(m) = AssetId(n)
  PROVE  m = n
  BY DEF AssetId

LEMMA RangeOfRepresentations == Range(Representations) = {"original", "thumbnail", "poster"}
  BY DEF Range, Representations

LEMMA SaidItems ==
  ASSUME ProviderAssumption, post \in Sayings, NEW p \in DOMAIN post.items
  PROVE  post.items[p] \in MediaItem /\ post.items[p].media \in Medias
<1>1. post \in Said  BY DEF ProviderAssumption, Said
<1>2. post.items \in Seq(MediaItem)  BY <1>1 DEF Said
<1>3. post.items[p] \in MediaItem  BY <1>2
<1>4. QED  BY <1>3 DEF MediaItem, Medias

\* The variants of an Instagram post are told apart by the item and the kind.
LEMMA InstagramVariant ==
  ASSUME NEW requested, NEW v \in Variants(instagramManifest(requested))
  PROVE  \E p \in DOMAIN post.items, of \in {"original", "thumbnail", "poster"} :
            LET item == post.items[p] IN
            /\ v.media = item.media /\ v.asset = AssetId(item.media)
            /\ v.kind = of /\ v.id = VariantId(AssetId(item.media), of)
            /\ v.failure = IF item.gone # "no" THEN item.gone ELSE item[of]
            /\ v.state = "failed" <=> v.failure # "usable"
            /\ v.itemKind = "video" /\ of = "original" => v.state \in {"reference_only", "failed"}
<1>1. PICK p \in DOMAIN post.items : v \in instagramVariants(p, requested)
  BY DEF Variants, instagramManifest
<1> DEFINE item == post.items[p]
           asset == InstagramAsset(p)
<1>2. asset = AssetId(item.media)  BY DEF InstagramAsset
<1>3. CASE item.gone # "no"
  <2>1. v = Variant(item, asset, "original", item.gone, InstagramCustody(item, "original", "none"))
    BY <1>1, <1>3 DEF instagramVariants
  <2>2. item.kind = "video" => InstagramCustody(item, "original", "none") = "reference"
    BY DEF InstagramCustody, DefaultCustody
  <2>3. QED  BY <1>2, <1>3, <2>1, <2>2, VariantFields
<1>4. CASE item.gone = "no"
  <2>1. PICK of \in Range(Representations) :
            v = Variant(item, asset, of, item[of], InstagramCustody(item, of, requested))
    BY <1>1, <1>4 DEF instagramVariants
  <2>2. item.kind = "video" /\ of = "original" => InstagramCustody(item, of, requested) = "reference"
    BY DEF InstagramCustody, DefaultCustody
  <2>3. of \in {"original", "thumbnail", "poster"}  BY RangeOfRepresentations
  <2>4. QED  BY <1>2, <1>4, <2>1, <2>2, <2>3, VariantFields
<1>5. QED  BY <1>3, <1>4

LEMMA InstagramIsIdentified ==
  ASSUME provider = "instagram", ~Repeats, NEW requested
  PROVE  Identified(instagramManifest(requested))
<1> DEFINE all == instagramManifest(requested)
<1>1. Named  BY DEF Named
<1>2. ASSUME NEW v \in Variants(all)
      PROVE  WellMade(v) /\ (v.state = "failed" <=> v.failure # "usable") /\ \A m \in all : m.asset # v.id
  <2>1. PICK p \in DOMAIN post.items, of \in {"original", "thumbnail", "poster"} :
            /\ v.asset = AssetId(v.media) /\ v.kind = of /\ v.id = VariantId(v.asset, of)
            /\ v.state = "failed" <=> v.failure # "usable"
            /\ v.itemKind = "video" /\ of = "original" => v.state \in {"reference_only", "failed"}
    BY <1>2, InstagramVariant
  <2>2. WellMade(v)  BY <1>1, <2>1 DEF WellMade
  <2>3. \A m \in all : \E media : m.asset = AssetId(media)
    BY DEF instagramManifest, InstagramAsset
  <2>4. \A m \in all : m.asset # v.id
    BY <2>1, <2>3 DEF AssetId, VariantId
  <2>5. QED  BY <2>1, <2>2, <2>4
<1>3. ASSUME NEW v \in Variants(all), NEW w \in Variants(all), v.id = w.id  PROVE v.failure = w.failure
  <2>1. PICK p \in DOMAIN post.items, of \in {"original", "thumbnail", "poster"} :
            /\ v.id = VariantId(AssetId(post.items[p].media), of)
            /\ v.failure = IF post.items[p].gone # "no" THEN post.items[p].gone ELSE post.items[p][of]
    BY <1>3, InstagramVariant
  <2>2. PICK q \in DOMAIN post.items, as \in {"original", "thumbnail", "poster"} :
            /\ w.id = VariantId(AssetId(post.items[q].media), as)
            /\ w.failure = IF post.items[q].gone # "no" THEN post.items[q].gone ELSE post.items[q][as]
    BY <1>3, InstagramVariant
  <2>3. PICK a, b : a = AssetId(post.items[p].media) /\ b = AssetId(post.items[q].media)
    OBVIOUS
  <2>4. VariantId(a, of) = VariantId(b, as)  BY <1>3, <2>1, <2>2, <2>3
  <2>5. a = b /\ of = as  BY <2>4, VariantIdTells
  <2>6. post.items[p].media = post.items[q].media  BY <2>3, <2>5, AssetIdTells
  <2>7. p = q  BY <2>6 DEF Repeats
  <2>8. QED  BY <2>1, <2>2, <2>5, <2>7
<1>4. QED  BY <1>2, <1>3 DEF Identified

LEMMA PinterestIsIdentified ==
  ASSUME ProviderAssumption, post \in Sayings, provider = "pinterest", HasImage, NEW requested
  PROVE  Identified(pinterestManifest(requested))
<1>0. PICK head, item, asset, variants :
        /\ head = Head(post.items)
        /\ item = [head EXCEPT !.kind = "image"]
        /\ asset = AssetId(PinMedia(item))
        /\ variants = {Variant(item, asset, of, item[of], DefaultImageCustody(requested)) :
                          of \in {k \in {"original", "thumbnail"} : item[k] # "none"}}
  OBVIOUS
<1> DEFINE all == pinterestManifest(requested)
<1>a. all = {[asset |-> asset, variants |-> variants]}
  BY <1>0 DEF pinterestManifest
<1>b. Variants(all) = variants
  BY <1>a DEF Variants
<1> HIDE DEF all
<1>1. post \in Said /\ post.items # <<>>  BY DEF ProviderAssumption, Said, HasImage
<1>2. post.items \in Seq(MediaItem)  BY <1>1 DEF Said
<1>3. 1 \in DOMAIN post.items /\ head = post.items[1]  BY <1>0, <1>1, <1>2
<1>4. head \in MediaItem /\ head.media \in Medias  BY <1>3, SaidItems
<1>5. item.media = head.media /\ item.kind = "image" /\ item.named = head.named
  BY <1>0, <1>4 DEF MediaItem
<1>6. asset = AssetId(IF Named THEN item.media ELSE <<post.id, "image">>)
  BY <1>0, <1>5 DEF Named, PinMedia
<1>7. ASSUME NEW v \in Variants(all)
      PROVE  \E of \in {"original", "thumbnail"} :
                /\ v.media = head.media /\ v.itemKind = "image" /\ v.asset = asset
                /\ v.id = VariantId(asset, of) /\ v.failure = item[of]
                /\ v.state = "failed" <=> v.failure # "usable"
  <2>1. PICK of \in {"original", "thumbnail"} :
            v = Variant(item, asset, of, item[of], DefaultImageCustody(requested))
    BY <1>0, <1>b, <1>7
  <2>2. QED  BY <1>5, <2>1, VariantFields
<1>8. \A m \in all : m.asset = asset  BY <1>a
<1>9. ASSUME NEW v \in Variants(all)
      PROVE  WellMade(v) /\ (v.state = "failed" <=> v.failure # "usable") /\ \A m \in all : m.asset # v.id
  <2>1. PICK of \in {"original", "thumbnail"} :
            /\ v.media = head.media /\ v.itemKind = "image" /\ v.asset = asset
            /\ v.id = VariantId(asset, of)
            /\ v.state = "failed" <=> v.failure # "usable"
    BY <1>7, <1>9
  <2>2. WellMade(v)  BY <1>4, <1>5, <1>6, <2>1 DEF WellMade
  <2>3. asset # VariantId(asset, of)  BY <1>6 DEF AssetId, VariantId
  <2>4. QED  BY <1>8, <2>1, <2>2, <2>3
<1>10. ASSUME NEW v \in Variants(all), NEW w \in Variants(all), v.id = w.id  PROVE v.failure = w.failure
  <2>1. PICK of \in {"original", "thumbnail"} : v.id = VariantId(asset, of) /\ v.failure = item[of]
    BY <1>7, <1>10
  <2>2. PICK as \in {"original", "thumbnail"} : w.id = VariantId(asset, as) /\ w.failure = item[as]
    BY <1>7, <1>10
  <2>3. VariantId(asset, of) = VariantId(asset, as)  BY <1>10, <2>1, <2>2
  <2>4. asset = asset /\ of = as  BY <2>3, VariantIdTells
  <2>5. QED  BY <2>1, <2>2, <2>4
<1>11. Identified(all)  BY <1>9, <1>10 DEF Identified
<1>12. QED  BY <1>11 DEF all

\* Whatever YouTube answers, it hands out variants of one video that are to be had.
LEMMA YouTubeIsHonest ==
  ASSUME provider = "youtube", NEW capability, NEW variants,
         \A v \in variants : \E of, name, custody :
            v = YouTubeVariant(of, name, custody) /\ (of = "original" => custody = "reference")
  PROVE  Honest(capability, YouTubeAnswer(variants))
<1> DEFINE a == YouTubeAnswer(variants)
<1>1. a.code = "none" /\ Variants(a.manifest) \subseteq variants
  BY DEF YouTubeAnswer, Answer, Variants
<1>2. Named  BY DEF Named
<1>3. ASSUME NEW v \in variants  PROVE WellMade(v) /\ v.state # "failed"
  <2>1. PICK of, name, custody :
            v = YouTubeVariant(of, name, custody) /\ (of = "original" => custody = "reference")
    BY <1>3
  <2>2. /\ v.asset = AssetId(v.media) /\ v.kind = of
        /\ v.state = IF custody = "reference" THEN "reference_only" ELSE "pending"
    BY <2>1 DEF YouTubeVariant
  <2>3. QED  BY <1>2, <2>1, <2>2 DEF WellMade
<1>4. QED  BY <1>1, <1>3 DEF Honest

(***************************************************************************)
(* The calls.                                                              *)
(***************************************************************************)
LEMMA UnlessEmpty ==
  ASSUME NEW refusals, NEW refs
  PROVE  Unless(refusals, Answer({}, refs)).manifest = {}
  BY DEF Unless, permanent, Refuse, Answer

LEMMA LookupIsHonest ==
  ASSUME NEW capability
  PROVE  /\ Honest(capability, instagramLookup) /\ Honest(capability, pinterestLookup)
         /\ Honest(capability, youTubeLookup)
  BY UnlessIsHonest, BareIsHonest DEF instagramLookup, pinterestLookup, youTubeLookup

\* A post that names an item twice is turned away.
LEMMA LookupTellsItemsApart == ~Refused(instagramLookup) => ~Repeats
<1>1. SUFFICES ASSUME Repeats PROVE Refused(instagramLookup)
  OBVIOUS
<1> DEFINE refusals ==
        <<<<source.url = NoItem, "invalid_url">>,
          <<identityConflict, "identity_conflict">>,
          <<Repeats \/ \E p \in DOMAIN post.items : Ambiguous(post.items[p]), "invalid_response">>>>
<1>2. refusals[3][1]
  BY <1>1, Zenon
<1>3. 3 \in DOMAIN refusals
  OBVIOUS
<1>4. {i \in DOMAIN refusals : refusals[i][1]} # {}
  BY <1>2, <1>3
<1>5. \E code : instagramLookup = permanent(code)
  BY <1>4 DEF instagramLookup, Unless
<1>6. QED  BY <1>5 DEF permanent, Refuse, Refused

LEMMA InstagramIsHonest ==
  ASSUME provider = "instagram", NEW r
  PROVE  Honest(r.capability, InstagramMedia(r))
<1> DEFINE all == instagramManifest(r.custody)
           asked == IF r.asset = "any" THEN all ELSE {m \in all : m.asset = InstagramAsset(1)}
           answer == Unless(<<<<post.items = <<>>, "capability_unavailable">>>>,
                            Referring(OfKind(asked, r.kind), r.capability))
<1>1. ASSUME ~Refused(instagramLookup)  PROVE Honest(r.capability, answer)
  <2>1. Identified(all)  BY <1>1, LookupTellsItemsApart, InstagramIsIdentified
  <2>2. asked \subseteq all  OBVIOUS
  <2>3. Identified(OfKind(asked, r.kind))  BY <2>1, <2>2, PartIsIdentified, FewerAreIdentified
  <2>4. QED  BY <2>3, ReferringIsHonest, UnlessIsHonest
<1>2. Honest(r.capability, Checked(instagramLookup, answer))
  BY <1>1, LookupIsHonest, CheckedIsHonest
<1>3. InstagramMedia(r) = IF invalidGallery(r) THEN permanent("invalid_request")
                          ELSE Checked(instagramLookup, answer)
  BY DEF InstagramMedia
<1>4. QED  BY <1>2, <1>3, PermanentIsHonest

LEMMA PinterestIsHonest ==
  ASSUME ProviderAssumption, post \in Sayings, provider = "pinterest", NEW r
  PROVE  Honest(r.capability, PinterestMedia(r))
<1> DEFINE asked == OfKind(pinterestManifest(r.custody), r.kind)
           answer == IF ~HasImage \/ \A m \in asked : m.variants = {}
                     THEN permanent("capability_unavailable")
                     ELSE Referring(asked, r.capability)
<1>1. HasImage => Honest(r.capability, Referring(asked, r.capability))
  BY PinterestIsIdentified, FewerAreIdentified, ReferringIsHonest
<1>2. Honest(r.capability, answer)
  BY <1>1, PermanentIsHonest
<1>3. Honest(r.capability, Checked(pinterestLookup, answer))
  BY <1>2, LookupIsHonest, CheckedIsHonest
<1>4. PinterestMedia(r) = IF invalidGallery(r) THEN permanent("invalid_request")
                          ELSE Checked(pinterestLookup, answer)
  BY DEF PinterestMedia
<1>5. QED  BY <1>3, <1>4, PermanentIsHonest

LEMMA YouTubeMediaIsHonest ==
  ASSUME provider = "youtube", NEW r
  PROVE  Honest(r.capability, YouTubeMedia(r))
<1>1. Honest(r.capability, youTubeOriginal(r))
  <2>1. Honest(r.capability, YouTubeAnswer({YouTubeVariant("original", 0, "reference")}))
    BY YouTubeIsHonest
  <2>2. QED  BY <2>1, UnlessIsHonest DEF youTubeOriginal
<1>2. CASE youTubeKind(r) # "original"
  <2>1. \A v \in posterVariants(r) : \E of, name, custody :
            v = YouTubeVariant(of, name, custody) /\ (of = "original" => custody = "reference")
    BY <1>2 DEF posterVariants
  <2>2. Honest(r.capability, YouTubeAnswer(posterVariants(r)))
    BY <2>1, YouTubeIsHonest
  <2>3. Honest(r.capability, youTubePosters(r))
    BY <2>2, PermanentIsHonest, LookupIsHonest, CheckedIsHonest DEF youTubePosters
  <2>4. QED  BY <1>2, <2>3, PermanentIsHonest DEF YouTubeMedia
<1>3. CASE youTubeKind(r) = "original"
  BY <1>1, <1>3, PermanentIsHonest DEF YouTubeMedia
<1>4. QED  BY <1>2, <1>3

LEMMA TranscriptIsHonest ==
  ASSUME provider = "youtube", NEW r
  PROVE  Honest(r.capability, AcquireTranscript(r))
<1>1. Honest(r.capability, YouTubeAnswer({YouTubeVariant("transcript", "track", "mirror")}))
  <2>1. "transcript" # "original"  OBVIOUS
  <2>2. QED  BY <2>1, YouTubeIsHonest
<1>2. QED
  BY <1>1, UnlessIsHonest, CheckedIsHonest, LookupIsHonest, PermanentIsHonest DEF AcquireTranscript

LEMMA TextIsHonest ==
  ASSUME NEW r
  PROVE  /\ Honest(r.capability, ProvideMetadata(r))
         /\ Honest(r.capability, ResolveCanonicalIdentity(r))
         /\ Honest(r.capability, ProvidePlayback(r))
<1>1. Honest(r.capability, Lookup)
  BY LookupIsHonest DEF Lookup
<1>2. Honest(r.capability, youTubeMetadata(r))
  BY LookupIsHonest, BareIsHonest, UnlessIsHonest, CheckedIsHonest, PermanentIsHonest DEF youTubeMetadata
<1>3. Honest(r.capability, ProvideMetadata(r))
  BY <1>1, <1>2, BareIsHonest, UnlessIsHonest, CheckedIsHonest DEF ProvideMetadata
<1>4. Honest(r.capability, youTubeIdentity)
  BY BareIsHonest, UnlessIsHonest DEF youTubeIdentity
<1>5. Honest(r.capability, ResolveCanonicalIdentity(r))
  BY <1>1, <1>4, BareIsHonest, CheckedIsHonest, PermanentIsHonest DEF ResolveCanonicalIdentity
<1>6. Honest(r.capability, ProvidePlayback(r))
  BY BareIsHonest, UnlessIsHonest DEF ProvidePlayback
<1>7. QED  BY <1>3, <1>5, <1>6

LEMMA AnsweredIsHonest ==
  ASSUME ProviderAssumption, provider \in Providers, post \in Sayings,
         NEW r \in Requests, Implements(provider, r.call)
  PROVE  Honest(r.capability, Answered(r))
<1>1. r.call = "transcript" => provider = "youtube"
  BY DEF Implements
<1>2. provider \notin {"instagram", "pinterest"} => provider = "youtube"
  BY DEF Providers
<1>3. QED
  BY <1>1, <1>2, InstagramIsHonest, PinterestIsHonest, YouTubeMediaIsHonest, TranscriptIsHonest,
     TextIsHonest DEF Answered

(***************************************************************************)
(* The invariant: what was handed out, and what the last call said.        *)
(***************************************************************************)
HandedOut(v) ==
    /\ v.named => v.asset = AssetId(v.media)
    /\ ~v.named => provider = "pinterest" /\ \E p \in Posts : v.asset = AssetId(<<p, "image">>)
    /\ provider = "pinterest" => v.media \in Medias

AdapterInv ==
    /\ provider \in Providers /\ post \in Sayings
    /\ \A v \in known : HandedOut(v)
    /\ AnswersAreHonest

LEMMA LastIsHonest ==
  ASSUME NEW capability, NEW a, Honest(capability, a)',
         last' = [capability |-> capability, answer |-> a]
  PROVE  AnswersAreHonest'
  BY DEF AnswersAreHonest, Honest, WellMade, Variants

LEMMA AdapterInit == ProviderInit => AdapterInv
<1> SUFFICES ASSUME ProviderInit PROVE AdapterInv
  OBVIOUS
<1>1. last.answer.manifest = {} /\ last.answer.code = "none"
  BY DEF ProviderInit, Unasked, Answer
<1>2. QED  BY <1>1 DEF ProviderInit, AdapterInv, AnswersAreHonest

LEMMA ProviderStays ==
  ASSUME [ProviderNext]_providerVars
  PROVE  provider' = provider
  BY DEF ProviderNext, ProviderChanges, CallAdapter, ClientFails, providerVars

LEMMA HandedOutStays ==
  ASSUME provider' = provider, NEW v, HandedOut(v)
  PROVE  HandedOut(v)'
  BY DEF HandedOut, AssetId

LEMMA CallKeepsInv ==
  ASSUME ProviderAssumption, AdapterInv, NEW r \in Questions, CallAdapter(r)
  PROVE  AdapterInv'
<1>1. r \in Requests  BY DEF ProviderAssumption
<1>2. PICK c, a : c = r.capability /\ a = Answered(r)
  OBVIOUS
<1>3. Honest(c, a)
  BY <1>1, <1>2, AnsweredIsHonest DEF CallAdapter, AdapterInv
<1>4. provider' = provider /\ post' = post
  BY DEF CallAdapter
<1>5. Honest(c, a)'
  BY <1>3, <1>4 DEF Honest, WellMade, Variants, Named, AssetId
<1>6. last' = [capability |-> c, answer |-> a]
  BY <1>2 DEF CallAdapter
<1>7. AnswersAreHonest'  BY <1>5, <1>6, LastIsHonest
<1>8. known' = known \cup {[media |-> v.media, asset |-> v.asset, named |-> Named] : v \in Variants(a.manifest)}
  BY <1>2 DEF CallAdapter, Variants
<1>9. post.id \in Posts
  BY DEF ProviderAssumption, AdapterInv
<1>10. ASSUME NEW w \in Variants(a.manifest), NEW v,
              v = [media |-> w.media, asset |-> w.asset, named |-> Named]
       PROVE  HandedOut(v)
  <2>1. WellMade(w)  BY <1>3 DEF Honest
  <2>2. v.media = w.media /\ v.asset = w.asset /\ (v.named <=> Named)
    BY <1>10
  <2>3. ~Named => provider = "pinterest"  BY DEF Named
  <2>4. QED  BY <1>9, <2>1, <2>2, <2>3 DEF WellMade, HandedOut
<1>11. \A v \in known' : HandedOut(v)
  BY <1>8, <1>10 DEF AdapterInv
<1>12. \A v \in known' : HandedOut(v)'
  BY <1>4, <1>11, HandedOutStays
<1>13. QED  BY <1>4, <1>7, <1>12 DEF AdapterInv

LEMMA AdapterStep ==
  ASSUME ProviderAssumption, AdapterInv, [ProviderNext]_providerVars
  PROVE  AdapterInv'
<1>1. CASE ProviderChanges
  <2>1. provider' = provider /\ known' = known /\ post' \in Sayings /\ last' = Unasked
    BY <1>1 DEF ProviderChanges
  <2>2. last'.answer.manifest = {} /\ last'.answer.code = "none"
    BY <2>1 DEF Unasked, Answer
  <2>3. AnswersAreHonest'  BY <2>2 DEF AnswersAreHonest
  <2>4. \A v \in known' : HandedOut(v)'  BY <2>1, HandedOutStays DEF AdapterInv
  <2>5. QED  BY <2>1, <2>3, <2>4 DEF AdapterInv
<1>2. CASE \E r \in Questions : CallAdapter(r)
  BY <1>2, CallKeepsInv
<1>3. CASE \E f \in ClientFailures : ClientFails(f)
  <2>1. PICK f \in ClientFailures : ClientFails(f)  BY <1>3
  <2>2. provider' = provider /\ post' = post /\ known' = known
    BY <2>1 DEF ClientFails
  <2>3. last'.answer = classifyClientError(f)
    BY <2>1 DEF ClientFails, Unasked
  <2>4. last'.answer.manifest = {} /\ last'.answer.code = f
    BY <2>3 DEF classifyClientError, permanent, Refuse
  <2>5. AnswersAreHonest'
    BY <2>4 DEF AnswersAreHonest, ClientFailures
  <2>6. \A v \in known' : HandedOut(v)'  BY <2>2, HandedOutStays DEF AdapterInv
  <2>7. QED  BY <2>2, <2>5, <2>6 DEF AdapterInv
<1>4. CASE UNCHANGED providerVars
  <2>1. UNCHANGED <<provider, post, last, known>>  BY <1>4 DEF providerVars
  <2>2. AnswersAreHonest'  BY <2>1 DEF AdapterInv, AnswersAreHonest
  <2>3. \A v \in known' : HandedOut(v)'  BY <2>1, HandedOutStays DEF AdapterInv
  <2>4. QED  BY <2>1, <2>2, <2>3 DEF AdapterInv
<1>5. QED  BY <1>1, <1>2, <1>3, <1>4 DEF ProviderNext

LEMMA HandedOutIsOneAsset ==
  ASSUME ProviderAssumption, AdapterInv
  PROVE  OneItemOneAsset
<1>1. SUFFICES ASSUME NEW v \in known, NEW w \in known
               PROVE  /\ v.asset = w.asset => v.media = w.media \/ (~v.named /\ ~w.named)
                      /\ v.media = w.media => v.asset = w.asset \/ ~v.named \/ ~w.named
  BY DEF OneItemOneAsset
<1>2. HandedOut(v) /\ HandedOut(w)  BY DEF AdapterInv
<1>3. ASSUME NEW x, NEW y, HandedOut(x), HandedOut(y), x.named, ~y.named  PROVE x.asset # y.asset
  <2>1. PICK p \in Posts : y.asset = AssetId(<<p, "image">>)
    BY <1>3 DEF HandedOut
  <2>2. x.asset = AssetId(x.media) /\ x.media \in Medias
    BY <1>3 DEF HandedOut
  <2>3. x.media # <<p, "image">>
    BY <2>2 DEF ProviderAssumption, Medias
  <2>4. QED  BY <2>1, <2>2, <2>3 DEF AssetId
<1>4. v.named /\ w.named => v.asset = AssetId(v.media) /\ w.asset = AssetId(w.media)
  BY <1>2 DEF HandedOut
<1>5. v.named /\ w.named => (v.asset = w.asset <=> v.media = w.media)
  BY <1>4 DEF AssetId
<1>6. QED  BY <1>2, <1>3, <1>5

\* Whatever the provider said in between, one image or video is one asset.
THEOREM ItemsAreAssets ==
  ASSUME ProviderAssumption
  PROVE  ProviderSpec => []OneItemOneAsset
<1>1. AdapterInv /\ [ProviderNext]_providerVars => AdapterInv'
  BY AdapterStep
<1>2. AdapterInv => OneItemOneAsset
  BY HandedOutIsOneAsset
<1>3. QED  BY <1>1, <1>2, AdapterInit, PTL DEF ProviderSpec

\* What an adapter says of media is so.
THEOREM AdaptersAreHonest ==
  ASSUME ProviderAssumption
  PROVE  ProviderSpec => []AnswersAreHonest
<1>1. AdapterInv /\ [ProviderNext]_providerVars => AdapterInv'
  BY AdapterStep
<1>2. AdapterInv => AnswersAreHonest
  BY DEF AdapterInv
<1>3. QED  BY <1>1, <1>2, AdapterInit, PTL DEF ProviderSpec

(***************************************************************************)
(* Rollouts.  The records rs that two batches, first R and then G, make    *)
(* together.                                                               *)
(***************************************************************************)
Joined(R, G, rs, m, n) ==
    /\ m \in Nat /\ n \in Nat
    /\ DOMAIN R = 1..m /\ DOMAIN G = 1..n /\ DOMAIN rs = 1..(m + n)
    /\ \A i \in 1..m : rs[i] = R[i]
    /\ \A k \in 1..n : rs[m + k] = G[k]

LEMMA BatchesJoin ==
    ASSUME NEW R \in Seq(RolloutRecord), NEW G \in Seq(RolloutRecord)
    PROVE  /\ R \o G \in Seq(RolloutRecord) /\ Len(R \o G) = Len(R) + Len(G)
           /\ Joined(R, G, R \o G, Len(R), Len(G))
BY DEF Joined

\* A place in the whole is one in the first batch or one in the second.
LEMMA PlaceInJoined ==
    ASSUME NEW m \in Nat, NEW n \in Nat, NEW i \in 1..(m + n)
    PROVE  /\ i \in 1..m \/ \E k \in 1..n : i = m + k
           /\ i > m => \E k \in 1..n : i = m + k
<1>1. CASE i <= m  BY <1>1
<1>2. CASE i > m
  <2>1. i - m \in 1..n /\ i = m + (i - m)
    BY <1>2
  <2> QED BY <2>1
<1> QED BY <1>1, <1>2

LEMMA ThoseAreJoined ==
    ASSUME NEW R, NEW G, NEW rs, NEW m, NEW n, Joined(R, G, rs, m, n), NEW kinds
    PROVE  /\ Those(R, kinds) \subseteq 1..m /\ Those(G, kinds) \subseteq 1..n
           /\ Those(rs, kinds) \subseteq 1..(m + n)
           /\ \A i \in 1..m : i \in Those(rs, kinds) <=> i \in Those(R, kinds)
           /\ \A k \in 1..n : m + k \in Those(rs, kinds) <=> k \in Those(G, kinds)
<1>1. \A i \in 1..m : i \in 1..(m + n)
  BY DEF Joined
<1>2. \A k \in 1..n : m + k \in 1..(m + n)
  BY DEF Joined
<1> QED BY <1>1, <1>2 DEF Joined, Those

\* None of them in the whole means none in either batch.
LEMMA NoneJoined ==
    ASSUME NEW R, NEW G, NEW rs, NEW m, NEW n, Joined(R, G, rs, m, n), NEW kinds
    PROVE  Those(rs, kinds) = {} <=> Those(R, kinds) = {} /\ Those(G, kinds) = {}
<1>1. /\ Those(R, kinds) \subseteq 1..m /\ Those(G, kinds) \subseteq 1..n
      /\ Those(rs, kinds) \subseteq 1..(m + n)
      /\ \A i \in 1..m : i \in Those(rs, kinds) <=> i \in Those(R, kinds)
      /\ \A k \in 1..n : m + k \in Those(rs, kinds) <=> k \in Those(G, kinds)
  BY ThoseAreJoined
<1>2. m \in Nat /\ n \in Nat
  BY DEF Joined
<1>3. ASSUME NEW i \in Those(rs, kinds)
      PROVE  (\E j \in Those(R, kinds) : TRUE) \/ (\E k \in Those(G, kinds) : TRUE)
  <2>1. i \in 1..m \/ \E k \in 1..n : i = m + k
    BY <1>1, <1>2, <1>3, PlaceInJoined
  <2> QED BY <1>1, <1>3, <2>1
<1> QED BY <1>1, <1>3

(***************************************************************************)
(* What a batch adds.                                                      *)
(***************************************************************************)
\* The cuts of the whole: those of the first batch, and where it ended.
Ends(ends, m) == ends \cup {m}

LEMMA BeforeIsKept ==
    ASSUME NEW R, NEW G, NEW rs, NEW m, NEW n, Joined(R, G, rs, m, n), NEW kinds,
           NEW c \in Nat, c <= m
    PROVE  Before(rs, c, kinds) = Before(R, c, kinds)
<1>1. /\ Those(R, kinds) \subseteq 1..m /\ Those(rs, kinds) \subseteq 1..(m + n)
      /\ \A i \in 1..m : i \in Those(rs, kinds) <=> i \in Those(R, kinds)
  BY ThoseAreJoined
<1>2. m \in Nat /\ n \in Nat
  BY DEF Joined
<1>3. ASSUME NEW i \in 1..(m + n), i <= c PROVE i \in 1..m
  BY <1>2, <1>3
<1> QED BY <1>1, <1>3, <1>2 DEF Before

LEMMA AfterGrows ==
    ASSUME NEW R, NEW G, NEW rs, NEW m, NEW n, Joined(R, G, rs, m, n), NEW kinds, NEW c
    PROVE  After(R, c, kinds) \subseteq After(rs, c, kinds)
<1>1. /\ Those(R, kinds) \subseteq 1..m
      /\ \A i \in 1..m : i \in Those(rs, kinds) <=> i \in Those(R, kinds)
  BY ThoseAreJoined
<1> QED BY <1>1 DEF After

\* What was excepted of the first batch is excepted of the whole.
LEMMA ExceptionsStay ==
    ASSUME NEW R, NEW G, NEW rs, NEW m, NEW n, Joined(R, G, rs, m, n),
           NEW ends \in SUBSET Nat, \A c \in ends : c <= m
    PROVE  /\ EventsFirst(R, ends) => EventsFirst(rs, Ends(ends, m))
           /\ \A i : ReasoningApart(R, ends, i) => ReasoningApart(rs, Ends(ends, m), i)
           /\ CountsApart(R, ends) => CountsApart(rs, Ends(ends, m))
           /\ \A id : ResultsApart(R, ends, id) => ResultsApart(rs, Ends(ends, m), id)
<1>1. \A kinds : \A c \in ends : Before(rs, c, kinds) = Before(R, c, kinds)
  BY BeforeIsKept
<1>2. \A c, kinds : After(R, c, kinds) \subseteq After(rs, c, kinds)
  BY AfterGrows
<1>3. \A kinds : Those(R, kinds) \subseteq Those(rs, kinds) /\ Those(R, kinds) \subseteq 1..m
  <2> TAKE kinds
  <2> QED BY ThoseAreJoined
<1>4. ends \subseteq Ends(ends, m)
  BY DEF Ends
<1>5. EventsFirst(R, ends) => EventsFirst(rs, Ends(ends, m))
  BY <1>1, <1>2, <1>4 DEF EventsFirst
<1>6. \A i : ReasoningApart(R, ends, i) => ReasoningApart(rs, Ends(ends, m), i)
  BY <1>1, <1>4 DEF ReasoningApart
<1>7. CountsApart(R, ends) => CountsApart(rs, Ends(ends, m))
  BY <1>3, <1>4 DEF CountsApart
<1>8. ASSUME NEW id, ResultsApart(R, ends, id) PROVE ResultsApart(rs, Ends(ends, m), id)
  <2>1. PICK i \in Those(R, {"output", "end"}), j \in Those(R, {"output", "end"}), c \in ends :
             R[i].id = id /\ R[j].id = id /\ i <= c /\ c < j
    BY <1>8 DEF ResultsApart
  <2>2. rs[i] = R[i] /\ rs[j] = R[j]
    BY <1>3 DEF Joined
  <2> QED BY <2>1, <2>2, <1>3, <1>4 DEF ResultsApart
<1> QED BY <1>5, <1>6, <1>7, <1>8

\* Messages of the whole, unless events came before them.
MessagesJoin(R, G, rs, m, n) ==
    /\ Messages(rs) \subseteq 1..(m + n) /\ Messages(R) \subseteq 1..m /\ Messages(G) \subseteq 1..n
    /\ \A i \in 1..m : i \in Messages(rs) <=> i \in Messages(R)
    /\ \A k \in 1..n : m + k \in Messages(rs) <=> k \in Messages(G)

EventsAlone(G) == Those(G, {"message"}) = {} /\ Those(G, {"event"}) # {}

LEMMA MessagesAreJoined ==
    ASSUME NEW R, NEW G, NEW rs, NEW m, NEW n, Joined(R, G, rs, m, n), ~EventsAlone(G),
           NEW ends, ~EventsFirst(rs, Ends(ends, m))
    PROVE  MessagesJoin(R, G, rs, m, n)
<1> DEFINE msgs(s) == Those(s, {"message"})
           evts(s) == Those(s, {"event"})
<1>1. /\ msgs(R) \subseteq 1..m /\ msgs(G) \subseteq 1..n /\ msgs(rs) \subseteq 1..(m + n)
      /\ \A i \in 1..m : i \in msgs(rs) <=> i \in msgs(R)
      /\ \A k \in 1..n : m + k \in msgs(rs) <=> k \in msgs(G)
  BY ThoseAreJoined
<1>2. /\ evts(R) \subseteq 1..m /\ evts(G) \subseteq 1..n /\ evts(rs) \subseteq 1..(m + n)
      /\ \A i \in 1..m : i \in evts(rs) <=> i \in evts(R)
      /\ \A k \in 1..n : m + k \in evts(rs) <=> k \in evts(G)
  BY ThoseAreJoined
<1>3. msgs(rs) = {} <=> msgs(R) = {} /\ msgs(G) = {}
  BY NoneJoined
<1>4. msgs(G) = {} => evts(G) = {}
  BY DEF EventsAlone
<1>5. msgs(R) = {} /\ msgs(G) # {} => evts(R) = {}
  <2> SUFFICES ASSUME msgs(R) = {}, NEW k \in msgs(G), NEW e \in evts(R) PROVE FALSE
    OBVIOUS
  <2>0. m \in Nat /\ n \in Nat
    BY DEF Joined
  <2>1. Before(rs, m, {"message"}) = {}
    <3>1. Before(rs, m, {"message"}) = Before(R, m, {"message"})
      BY <2>0, BeforeIsKept
    <3> QED BY <3>1 DEF Before
  <2>2. e \in Before(rs, m, {"event"})
    <3>1. Before(rs, m, {"event"}) = Before(R, m, {"event"})
      BY <2>0, BeforeIsKept
    <3> QED BY <3>1, <1>2 DEF Before
  <2>3. m + k \in After(rs, m, {"message"})
    BY <1>1, <2>0 DEF After
  <2> QED BY <2>1, <2>2, <2>3 DEF EventsFirst, Ends
<1>6. CASE msgs(rs) # {}
  <2>1. Messages(rs) = msgs(rs)
    BY <1>6 DEF Messages
  <2>2. CASE msgs(R) = {}
    <3>1. Messages(R) = {} /\ Messages(G) = msgs(G)
      BY <2>2, <1>3, <1>5, <1>6 DEF Messages
    <3> QED BY <2>1, <2>2, <3>1, <1>1 DEF MessagesJoin
  <2>3. CASE msgs(R) # {}
    <3>1. Messages(R) = msgs(R) /\ Messages(G) = msgs(G)
      BY <2>3, <1>4 DEF Messages
    <3> QED BY <2>1, <3>1, <1>1 DEF MessagesJoin
  <2> QED BY <2>2, <2>3
<1>7. CASE msgs(rs) = {}
  <2>1. Messages(rs) = evts(rs) /\ Messages(R) = evts(R) /\ Messages(G) = evts(G)
    BY <1>7, <1>3 DEF Messages
  <2> QED BY <2>1, <1>2 DEF MessagesJoin
<1> QED BY <1>6, <1>7

LEMMA ThinkingIsBoolean ==
    ASSUME NEW rs, NEW i PROVE HasThinking(rs, i) \in BOOLEAN
BY DEF HasThinking

\* What was thought before a message of the first batch is the same in the whole.
LEMMA ThinkingStays ==
    ASSUME NEW R, NEW G, NEW rs, NEW m, NEW n, Joined(R, G, rs, m, n), NEW i \in 1..m
    PROVE  HasThinking(rs, i) <=> HasThinking(R, i)
<1>1. \A j \in 1..i : rs[j] = R[j]
  BY DEF Joined
<1>2. i \in 1..i /\ \A j \in 1..(i - 1) : j \in 1..i
  BY DEF Joined
<1>3. \A j \in 1..(i - 1) : \A k \in (j + 1)..(i - 1) : k \in 1..i
  BY DEF Joined
<1> QED BY <1>1, <1>2, <1>3 DEF HasThinking

\* That of the second is part of it; what is missing was thought in the first.
LEMMA ThinkingShifts ==
    ASSUME NEW R, NEW G, NEW rs, NEW m, NEW n, Joined(R, G, rs, m, n), NEW k \in 1..n
    PROVE  /\ HasThinking(G, k) => HasThinking(rs, m + k)
           /\ HasThinking(rs, m + k) /\ ~HasThinking(G, k) => Those(R, {"reasoning"}) # {}
<1>1. /\ m \in Nat /\ n \in Nat /\ DOMAIN R = 1..m
      /\ \A i \in 1..m : rs[i] = R[i]
      /\ \A j \in 1..n : rs[m + j] = G[j]
  BY DEF Joined
<1>2. rs[m + k] = G[k]
  BY <1>1
<1>3. ASSUME HasThinking(G, k) PROVE HasThinking(rs, m + k)
  <2>1. PICK j \in 1..(k - 1) :
            /\ G[j].what = "reasoning"
            /\ \A l \in (j + 1)..(k - 1) : G[l].what = "message" => G[l].role # "assistant"
    BY <1>3 DEF HasThinking
  <2>2. PICK p \in Nat : p = m + k
    BY <1>1
  <2>3. PICK i \in 1..(p - 1) : i = m + j
    BY <1>1, <2>2
  <2>4. rs[i] = G[j] /\ j \in 1..n
    BY <1>1, <2>3
  <2>5. ASSUME NEW l \in (i + 1)..(p - 1), rs[l].what = "message" PROVE rs[l].role # "assistant"
    <3>1. PICK q \in (j + 1)..(k - 1) : q \in 1..n /\ l = m + q
      <4>1. l - m \in (j + 1)..(k - 1) /\ l - m \in 1..n /\ l = m + (l - m)
        BY <1>1, <2>2, <2>3
      <4> QED BY <4>1
    <3>2. rs[l] = G[q]
      BY <3>1, <1>1
    <3> QED BY <2>1, <2>5, <3>1, <3>2
  <2>6. rs[i].what = "reasoning"
    BY <2>1, <2>4
  <2>7. rs[p].what = "message" /\ rs[p].role = "assistant"
    BY <1>2, <1>3, <2>2 DEF HasThinking
  <2>8. HasThinking(rs, p)
    BY <2>5, <2>6, <2>7 DEF HasThinking
  <2> QED BY <2>2, <2>8
<1>4. ASSUME HasThinking(rs, m + k), ~HasThinking(G, k) PROVE Those(R, {"reasoning"}) # {}
  <2>1. PICK j \in 1..(m + k - 1) :
            /\ rs[j].what = "reasoning"
            /\ \A l \in (j + 1)..(m + k - 1) : rs[l].what = "message" => rs[l].role # "assistant"
    BY <1>1, <1>4 DEF HasThinking
  <2>2. CASE j <= m
    <3>1. j \in 1..m /\ R[j].what = "reasoning"
      BY <1>1, <2>1, <2>2
    <3> QED BY <3>1, <1>1 DEF Those
  <2>3. CASE j > m
    <3>1. j - m \in 1..(k - 1) /\ j - m \in 1..n /\ j = m + (j - m)
      BY <1>1, <2>3
    <3>2. G[j - m].what = "reasoning"
      BY <3>1, <1>1, <2>1
    <3>3. ASSUME NEW l \in (j - m + 1)..(k - 1), G[l].what = "message" PROVE G[l].role # "assistant"
      <4>1. m + l \in (j + 1)..(m + k - 1) /\ l \in 1..n
        BY <1>1, <2>3
      <4>2. rs[m + l] = G[l]
        BY <4>1, <1>1
      <4> QED BY <4>1, <4>2, <2>1, <3>3
    <3>4. G[k].what = "message" /\ G[k].role = "assistant"
      BY <1>2, <1>4 DEF HasThinking
    <3>5. HasThinking(G, k)
      BY <3>1, <3>2, <3>3, <3>4 DEF HasThinking
    <3> QED BY <3>5, <1>4
  <2> QED BY <2>2, <2>3, <1>1
<1> QED BY <1>3, <1>4

(***************************************************************************)
(* The rows of turns: one for each message, under an id of its own that    *)
(* tells a line before the one that was reached, with the thinking of the  *)
(* message unless that was cut off.                                        *)
(***************************************************************************)
TurnRow(rs, at, th, i) == [id |-> at[i], text |-> rs[i].text, thinking |-> th[i]]

TellsThinking(rs, ends, th) ==
    \A i \in Messages(rs) : /\ th[i] => HasThinking(rs, i)
                            /\ HasThinking(rs, i) /\ ~ReasoningApart(rs, ends, i) => th[i]

RowsAre(rows, rs, at, th) ==
    /\ \A i, j \in DOMAIN rs : at[i] = at[j] => i = j
    /\ rows = {TurnRow(rs, at, th, i) : i \in Messages(rs)}

TurnsAre(rows, rs, ends, line) ==
    \E at \in [DOMAIN rs -> 1..line], th \in [DOMAIN rs -> BOOLEAN] :
        RowsAre(rows, rs, at, th) /\ TellsThinking(rs, ends, th)

LEMMA MessagesArePlaces ==
    ASSUME NEW rs PROVE Messages(rs) \subseteq DOMAIN rs
BY DEF Messages, Those

LEMMA FirstTurns ==
    ASSUME NEW G \in Seq(RolloutRecord)
    PROVE  TurnsAre(Turns(G, 0), G, {}, Len(G))
<1>a. PICK at : at = [i \in DOMAIN G |-> i]
  OBVIOUS
<1>b. PICK th : th = [i \in DOMAIN G |-> HasThinking(G, i)]
  OBVIOUS
<1>1. at \in [DOMAIN G -> 1..Len(G)] /\ \A i \in DOMAIN G : at[i] = i /\ i \in Nat
  BY <1>a
<1>2. th \in [DOMAIN G -> BOOLEAN] /\ \A i \in DOMAIN G : th[i] = HasThinking(G, i)
  BY <1>b, ThinkingIsBoolean
<1>3. ASSUME NEW i \in Messages(G)
      PROVE  TurnRow(G, at, th, i) = [id |-> 0 + i, text |-> G[i].text, thinking |-> HasThinking(G, i)]
  <2>1. at[i] = 0 + i /\ th[i] = HasThinking(G, i)
    BY <1>1, <1>2, MessagesArePlaces
  <2> QED BY <2>1 DEF TurnRow
<1>4. Turns(G, 0) = {TurnRow(G, at, th, i) : i \in Messages(G)}
  BY <1>3 DEF Turns
<1>5. TellsThinking(G, {}, th)
  BY <1>2, MessagesArePlaces DEF TellsThinking
<1> QED BY <1>1, <1>2, <1>4, <1>5 DEF TurnsAre, RowsAre

LEMMA NextTurns ==
    ASSUME NEW R, NEW G, NEW rs, NEW m, NEW n, Joined(R, G, rs, m, n), ~EventsAlone(G),
           NEW ends \in SUBSET Nat, \A c \in ends : c <= m,
           NEW line \in Nat, NEW first \in Nat, first >= line,
           NEW rows, EventsFirst(R, ends) \/ TurnsAre(rows, R, ends, line)
    PROVE  \/ EventsFirst(rs, Ends(ends, m))
           \/ TurnsAre(MergedTurns(rows, Turns(G, first)), rs, Ends(ends, m), first + n)
<1> SUFFICES ASSUME ~EventsFirst(rs, Ends(ends, m))
             PROVE  TurnsAre(MergedTurns(rows, Turns(G, first)), rs, Ends(ends, m), first + n)
  OBVIOUS
<1>0. /\ m \in Nat /\ n \in Nat /\ DOMAIN R = 1..m /\ DOMAIN rs = 1..(m + n)
      /\ \A i \in 1..m : rs[i] = R[i]
      /\ \A k \in 1..n : rs[m + k] = G[k]
  BY DEF Joined
<1>1. TurnsAre(rows, R, ends, line)
  BY ExceptionsStay
<1>2. MessagesJoin(R, G, rs, m, n)
  BY MessagesAreJoined
<1>3. PICK at \in [1..m -> 1..line], th \in [1..m -> BOOLEAN] :
          /\ \A i, j \in 1..m : at[i] = at[j] => i = j
          /\ rows = {TurnRow(R, at, th, i) : i \in Messages(R)}
          /\ TellsThinking(R, ends, th)
  <2>1. PICK at \in [DOMAIN R -> 1..line], th \in [DOMAIN R -> BOOLEAN] :
            /\ \A i, j \in DOMAIN R : at[i] = at[j] => i = j
            /\ rows = {TurnRow(R, at, th, i) : i \in Messages(R)}
            /\ TellsThinking(R, ends, th)
    BY <1>1 DEF TurnsAre, RowsAre
  <2>2. DOMAIN R = 1..m
    BY <1>0
  <2>3. at \in [1..m -> 1..line] /\ th \in [1..m -> BOOLEAN]
    BY <2>2
  <2>4. \A i, j \in 1..m : at[i] = at[j] => i = j
    BY <2>1, <2>2
  <2> QED BY <2>1, <2>3, <2>4
<1>p. /\ m \in Nat /\ n \in Nat
      /\ \A i \in 1..(m + n) : i \in 1..m \/ \E k \in 1..n : i = m + k
  BY <1>0, PlaceInJoined
<1>a. PICK at2 : at2 = [i \in 1..(m + n) |-> IF i <= m THEN at[i] ELSE first + (i - m)]
  OBVIOUS
<1>b. PICK th2 : th2 = [i \in 1..(m + n) |-> IF i <= m THEN th[i] ELSE HasThinking(G, i - m)]
  OBVIOUS
<1>4. \A i \in 1..m : at2[i] = at[i] /\ th2[i] = th[i]
  BY <1>0, <1>a, <1>b
<1>5. ASSUME NEW k \in 1..n PROVE at2[m + k] = first + k /\ th2[m + k] = HasThinking(G, k)
  <2>1. m + k \in 1..(m + n) /\ ~(m + k <= m) /\ (m + k) - m = k
    BY <1>0
  <2> QED BY <2>1, <1>a, <1>b
<1>6. at2 \in [1..(m + n) -> 1..(first + n)]
  <2>1. ASSUME NEW i \in 1..(m + n) PROVE at2[i] \in 1..(first + n)
    <3>1. CASE i \in 1..m
      <4>1. at2[i] = at[i] /\ at[i] \in 1..line
        BY <1>4, <3>1
      <4> QED BY <4>1, <1>0
    <3>2. CASE \E k \in 1..n : i = m + k
      <4>1. PICK k \in 1..n : i = m + k
        BY <3>2
      <4>2. at2[i] = first + k
        BY <4>1, <1>5
      <4> QED BY <4>2, <1>p
    <3> QED BY <3>1, <3>2, <1>p
  <2> QED BY <2>1, <1>a
<1>7. th2 \in [1..(m + n) -> BOOLEAN]
  <2>1. ASSUME NEW i \in 1..(m + n) PROVE th2[i] \in BOOLEAN
    <3>1. CASE i \in 1..m
      <4>1. th2[i] = th[i] /\ th[i] \in BOOLEAN
        BY <1>4, <3>1
      <4> QED BY <4>1
    <3>2. CASE \E k \in 1..n : i = m + k
      <4>1. PICK k \in 1..n : i = m + k
        BY <3>2
      <4>2. th2[i] = HasThinking(G, k) /\ HasThinking(G, k) \in BOOLEAN
        BY <4>1, <1>5, ThinkingIsBoolean
      <4> QED BY <4>2
    <3> QED BY <3>1, <3>2, <1>p
  <2> QED BY <2>1, <1>b
<1>8. ASSUME NEW i \in 1..(m + n), NEW j \in 1..(m + n), at2[i] = at2[j] PROVE i = j
  <2>1. \A l \in 1..m : at2[l] <= line /\ at2[l] = at[l]
    BY <1>4
  <2>2. ASSUME NEW k \in 1..n PROVE at2[m + k] = first + k /\ first + k > line
    <3>1. at2[m + k] = first + k
      BY <1>5
    <3> QED BY <3>1, <1>p
  <2>3. \A l \in 1..(m + n) : l \in 1..m \/ \E k \in 1..n : l = m + k
    BY <1>p
  <2>4. CASE i \in 1..m /\ j \in 1..m
    BY <2>1, <2>4, <1>3, <1>8
  <2>5. CASE i \in 1..m /\ \E k \in 1..n : j = m + k
    <3>1. at2[i] <= line /\ at2[j] > line /\ at2[i] \in Nat
      BY <2>1, <2>2, <2>5, <1>6
    <3> QED BY <3>1, <1>8
  <2>6. CASE j \in 1..m /\ \E k \in 1..n : i = m + k
    <3>1. at2[j] <= line /\ at2[i] > line /\ at2[j] \in Nat
      BY <2>1, <2>2, <2>6, <1>6
    <3> QED BY <3>1, <1>8
  <2>7. CASE (\E k \in 1..n : i = m + k) /\ (\E k \in 1..n : j = m + k)
    <3>1. PICK k \in 1..n : i = m + k
      BY <2>7
    <3>2. PICK l \in 1..n : j = m + l
      BY <2>7
    <3>3. first + k = first + l
      BY <3>1, <3>2, <2>2, <1>8
    <3> QED BY <3>1, <3>2, <3>3, <1>p
  <2> QED BY <2>3, <2>4, <2>5, <2>6, <2>7
<1>9. MergedTurns(rows, Turns(G, first)) = {TurnRow(rs, at2, th2, i) : i \in Messages(rs)}
  <2>1. ASSUME NEW i \in Messages(R) PROVE TurnRow(rs, at2, th2, i) = TurnRow(R, at, th, i)
    <3>1. i \in 1..m
      BY <1>2 DEF MessagesJoin
    <3> QED BY <3>1, <1>0, <1>4 DEF TurnRow
  <2>2. ASSUME NEW k \in Messages(G)
        PROVE  TurnRow(rs, at2, th2, m + k)
                   = [id |-> first + k, text |-> G[k].text, thinking |-> HasThinking(G, k)]
    <3>1. k \in 1..n
      BY <1>2 DEF MessagesJoin
    <3> QED BY <3>1, <1>0, <1>5 DEF TurnRow
  <2>3. ASSUME NEW o \in rows, NEW t \in Turns(G, first) PROVE o.id # t.id
    <3>1. PICK i \in Messages(R) : o = TurnRow(R, at, th, i)
      BY <1>3
    <3>2. PICK k \in Messages(G) : t = [id |-> first + k, text |-> G[k].text, thinking |-> HasThinking(G, k)]
      BY DEF Turns
    <3>3. i \in 1..m /\ k \in 1..n
      BY <1>2 DEF MessagesJoin
    <3>4. o.id = at[i] /\ t.id = first + k
      BY <3>1, <3>2 DEF TurnRow
    <3>5. at[i] \in 1..line /\ first + k > line
      BY <3>3, <1>0
    <3> QED BY <3>4, <3>5
  <2>4. MergedTurns(rows, Turns(G, first)) = rows \cup Turns(G, first)
    BY <2>3 DEF MergedTurns
  <2>5. ASSUME NEW i \in Messages(rs)
        PROVE  TurnRow(rs, at2, th2, i) \in rows \cup Turns(G, first)
    <3>1. i \in 1..m \/ \E k \in 1..n : i = m + k
      BY <1>p, <1>2 DEF MessagesJoin
    <3>2. CASE i \in 1..m
      BY <3>2, <1>2, <1>3, <2>1 DEF MessagesJoin
    <3>3. CASE \E k \in 1..n : i = m + k
      <4>1. PICK k \in Messages(G) : i = m + k
        BY <3>3, <1>2 DEF MessagesJoin
      <4> QED BY <4>1, <2>2 DEF Turns
    <3> QED BY <3>1, <3>2, <3>3
  <2>6. ASSUME NEW o \in rows PROVE \E i \in Messages(rs) : o = TurnRow(rs, at2, th2, i)
    BY <2>1, <1>2, <1>3 DEF MessagesJoin
  <2>7. ASSUME NEW t \in Turns(G, first) PROVE \E i \in Messages(rs) : t = TurnRow(rs, at2, th2, i)
    <3>1. PICK k \in Messages(G) : t = [id |-> first + k, text |-> G[k].text, thinking |-> HasThinking(G, k)]
      BY DEF Turns
    <3>2. m + k \in Messages(rs)
      BY <1>2 DEF MessagesJoin
    <3> QED BY <3>1, <3>2, <2>2
  <2> QED BY <2>4, <2>5, <2>6, <2>7
<1>10. TellsThinking(rs, Ends(ends, m), th2)
  <2>1. ASSUME NEW i \in Messages(rs), i \in 1..m
        PROVE  /\ th2[i] => HasThinking(rs, i)
               /\ HasThinking(rs, i) /\ ~ReasoningApart(rs, Ends(ends, m), i) => th2[i]
    <3>1. i \in Messages(R) /\ th2[i] = th[i]
      BY <2>1, <1>2, <1>4 DEF MessagesJoin
    <3>2. HasThinking(rs, i) <=> HasThinking(R, i)
      BY <2>1, ThinkingStays
    <3>3. ReasoningApart(R, ends, i) => ReasoningApart(rs, Ends(ends, m), i)
      BY ExceptionsStay
    <3>4. /\ th[i] => HasThinking(R, i)
          /\ HasThinking(R, i) /\ ~ReasoningApart(R, ends, i) => th[i]
      BY <3>1, <1>3 DEF TellsThinking
    <3> QED BY <3>1, <3>2, <3>3, <3>4
  <2>2. ASSUME NEW k \in 1..n
        PROVE  /\ th2[m + k] => HasThinking(rs, m + k)
               /\ HasThinking(rs, m + k) /\ ~ReasoningApart(rs, Ends(ends, m), m + k) => th2[m + k]
    <3>1. th2[m + k] = HasThinking(G, k)
      BY <1>5
    <3>2. /\ HasThinking(G, k) => HasThinking(rs, m + k)
          /\ HasThinking(rs, m + k) /\ ~HasThinking(G, k) => Those(R, {"reasoning"}) # {}
      BY ThinkingShifts
    <3>3. Those(R, {"reasoning"}) # {} => ReasoningApart(rs, Ends(ends, m), m + k)
      <4>1. Before(rs, m, {"reasoning"}) = Before(R, m, {"reasoning"})
        BY <1>0, BeforeIsKept
      <4>2. Those(R, {"reasoning"}) \subseteq 1..m
        BY ThoseAreJoined
      <4>3. Before(R, m, {"reasoning"}) = Those(R, {"reasoning"})
        BY <1>0, <4>2 DEF Before
      <4>4. m < m + k /\ m \in Ends(ends, m)
        BY <1>0 DEF Ends
      <4> QED BY <4>1, <4>3, <4>4 DEF ReasoningApart
    <3> QED BY <3>1, <3>2, <3>3
  <2>3. \A i \in Messages(rs) : i \in 1..m \/ \E k \in 1..n : i = m + k
    BY <1>p, <1>2 DEF MessagesJoin
  <2> QED BY <2>1, <2>2, <2>3 DEF TellsThinking
<1>11. \A i, j \in DOMAIN rs : at2[i] = at2[j] => i = j
  BY <1>0, <1>8
<1>12. at2 \in [DOMAIN rs -> 1..(first + n)] /\ th2 \in [DOMAIN rs -> BOOLEAN]
  BY <1>0, <1>6, <1>7
<1> QED BY <1>9, <1>10, <1>11, <1>12 DEF TurnsAre, RowsAre

LEMMA ImageCounts ==
    ASSUME NEW I, IsFiniteSet(I), NEW f, f = [i \in I |-> f[i]],
           \A i, j \in I : f[i] = f[j] => i = j, NEW A, A = {f[i] : i \in I}
    PROVE  Cardinality(A) = Cardinality(I)
<1>1. f \in [I -> A]
  <2>1. \A i \in I : f[i] \in A
    OBVIOUS
  <2> QED BY <2>1
<1>2. f \in Bijection(I, A)
  BY <1>1 DEF Bijection, Injection, Surjection, IsInjective
<1> QED BY <1>2, FS_Bijection DEF ExistsBijection

\* As many rows of a text as messages of it.
OfText(rows, t) == {r \in rows : r.text = t}
Saying(rs, t) == {i \in Messages(rs) : rs[i].text = t}

LEMMA RowsCount ==
    ASSUME NEW rs \in Seq(RolloutRecord), NEW t, NEW at, NEW th, NEW rows, RowsAre(rows, rs, at, th)
    PROVE  Cardinality(OfText(rows, t)) = Cardinality(Saying(rs, t))
<1>0. /\ \A i, j \in DOMAIN rs : at[i] = at[j] => i = j
      /\ rows = {TurnRow(rs, at, th, i) : i \in Messages(rs)}
  BY DEF RowsAre
<1>a. PICK I : I = {i \in Messages(rs) : rs[i].text = t}
  OBVIOUS
<1>b. PICK f : f = [i \in I |-> TurnRow(rs, at, th, i)]
  OBVIOUS
<1>1. I \subseteq Messages(rs) /\ I \subseteq 1..Len(rs) /\ Len(rs) \in Nat
  BY <1>a, MessagesArePlaces
<1>2. IsFiniteSet(I)
  <2>1. IsFiniteSet(1..Len(rs))
    BY <1>1, FS_Interval
  <2> QED BY <2>1, <1>1, FS_Subset
<1>3. ASSUME NEW i \in I, NEW j \in I, f[i] = f[j] PROVE i = j
  <2>1. f[i].id = at[i] /\ f[j].id = at[j]
    BY <1>b DEF TurnRow
  <2>2. i \in DOMAIN rs /\ j \in DOMAIN rs
    BY <1>1, MessagesArePlaces
  <2> QED BY <1>0, <1>3, <2>1, <2>2
<1>4. {r \in rows : r.text = t} = {f[i] : i \in I}
  <2>1. \A i \in Messages(rs) : TurnRow(rs, at, th, i).text = rs[i].text
    BY DEF TurnRow
  <2>2. ASSUME NEW r \in rows, r.text = t PROVE \E i \in I : r = f[i]
    <3>1. PICK i \in Messages(rs) : r = TurnRow(rs, at, th, i)
      BY <1>0
    <3> QED BY <3>1, <2>1, <2>2, <1>a, <1>b
  <2>3. ASSUME NEW i \in I PROVE f[i] \in rows /\ f[i].text = t
    <3>1. f[i] = TurnRow(rs, at, th, i) /\ i \in Messages(rs) /\ rs[i].text = t
      BY <1>a, <1>b
    <3> QED BY <3>1, <2>1, <1>0
  <2> QED BY <2>2, <2>3
<1>5. f = [i \in I |-> f[i]]
  BY <1>b
<1>6. OfText(rows, t) = {f[i] : i \in I}
  BY <1>4 DEF OfText
<1>7. \A i, j \in I : f[i] = f[j] => i = j
  BY <1>3
<1>8. Cardinality(OfText(rows, t)) = Cardinality(I)
  BY <1>2, <1>5, <1>6, <1>7, ImageCounts
<1> QED BY <1>8, <1>a DEF Saying

LEMMA TurnsAreRight ==
    ASSUME NEW rs \in Seq(RolloutRecord), NEW rows, NEW ends, NEW line, TurnsAre(rows, rs, ends, line)
    PROVE  TurnsAreStored(rs, rows, ends)
<1>1. PICK at, th : RowsAre(rows, rs, at, th) /\ TellsThinking(rs, ends, th)
  BY DEF TurnsAre
<1>r. rows = {TurnRow(rs, at, th, i) : i \in Messages(rs)}
  BY <1>1 DEF RowsAre
<1>w. PICK whole : whole = Turns(rs, 0)
  OBVIOUS
<1>2. PICK at0, th0 : RowsAre(whole, rs, at0, th0)
  <2>1. TurnsAre(Turns(rs, 0), rs, {}, Len(rs))
    BY FirstTurns
  <2> QED BY <2>1, <1>w DEF TurnsAre
<1>3. SUFFICES ASSUME NEW t \in Texts
      PROVE  /\ Cardinality({r \in rows : r.text = t}) = Cardinality({r \in whole : r.text = t})
             /\ (\E r \in rows : r.text = t /\ r.thinking) => \E r \in whole : r.text = t /\ r.thinking
             /\ (\E i \in Messages(rs) : rs[i].text = t /\ HasThinking(rs, i) /\ ~ReasoningApart(rs, ends, i))
                    => \E r \in rows : r.text = t /\ r.thinking
  BY <1>w DEF TurnsAreStored
<1>4. Cardinality(OfText(rows, t)) = Cardinality(Saying(rs, t))
  BY <1>1, RowsCount
<1>5. Cardinality(OfText(whole, t)) = Cardinality(Saying(rs, t))
  BY <1>2, RowsCount
<1>6. ASSUME NEW r \in rows, r.text = t, r.thinking PROVE \E w \in whole : w.text = t /\ w.thinking
  <2>1. PICK i \in Messages(rs) : r = TurnRow(rs, at, th, i)
    BY <1>r
  <2>2. r.text = rs[i].text /\ r.thinking = th[i]
    BY <2>1 DEF TurnRow
  <2>3. HasThinking(rs, i)
    BY <1>1, <1>6, <2>1, <2>2 DEF TellsThinking
  <2>4. PICK w : w = [id |-> 0 + i, text |-> rs[i].text, thinking |-> HasThinking(rs, i)]
    OBVIOUS
  <2>5. w \in whole
    BY <2>1, <2>4, <1>w DEF Turns
  <2>6. w.text = t /\ w.thinking = HasThinking(rs, i)
    BY <2>4, <2>2, <1>6
  <2> QED BY <2>3, <2>5, <2>6
<1>7. ASSUME NEW i \in Messages(rs), rs[i].text = t, HasThinking(rs, i), ~ReasoningApart(rs, ends, i)
      PROVE  \E r \in rows : r.text = t /\ r.thinking
  <2>1. th[i]
    BY <1>1, <1>7 DEF TellsThinking
  <2>2. PICK r : r = TurnRow(rs, at, th, i)
    OBVIOUS
  <2>3. r \in rows
    BY <1>r, <1>7, <2>2
  <2>4. r.text = t /\ r.thinking = th[i]
    BY <2>2, <1>7 DEF TurnRow
  <2> QED BY <2>1, <2>3, <2>4
<1> QED BY <1>4, <1>5, <1>6, <1>7 DEF OfText

(***************************************************************************)
(* Tool calls.                                                             *)
(***************************************************************************)
Results(rs, id) == {i \in Those(rs, {"output", "end"}) : rs[i].id = id}
NamedCalls(rs) == {rs[i].id : i \in Those(rs, {"call", "output", "end"})}

LEMMA OutcomeIs ==
    ASSUME NEW rs, NEW id
    PROVE  /\ Outcome(rs, id) \in {"none", "error", "ok"}
           /\ Outcome(rs, id) = "none" <=> Results(rs, id) = {}
           /\ Outcome(rs, id) = "error" <=> \E i \in Results(rs, id) : rs[i].failed
BY DEF Outcome, Results

LEMMA ToolsAre ==
    ASSUME NEW rs, NEW first
    PROVE  /\ DOMAIN Tools(rs, first) = NamedCalls(rs)
           /\ \A id \in NamedCalls(rs) : Tools(rs, first)[id].status = Outcome(rs, id)
           /\ \A id : id \notin NamedCalls(rs) => Outcome(rs, id) = "none"
<1>1. DOMAIN Tools(rs, first) = NamedCalls(rs)
  BY DEF Tools, NamedCalls
<1>2. ASSUME NEW id \in NamedCalls(rs) PROVE Tools(rs, first)[id].status = Outcome(rs, id)
  <2>1. Tools(rs, first)[id] = Tool(rs, first, id)
    BY <1>2 DEF Tools, NamedCalls
  <2>2. Tool(rs, first, id).status = Outcome(rs, id)
    BY DEF Tool
  <2> QED BY <2>1, <2>2
<1>3. ASSUME NEW id, id \notin NamedCalls(rs) PROVE Results(rs, id) = {}
  BY <1>3 DEF Results, NamedCalls, Those
<1> QED BY <1>1, <1>2, <1>3, OutcomeIs

LEMMA ResultsAreJoined ==
    ASSUME NEW R, NEW G, NEW rs, NEW m, NEW n, Joined(R, G, rs, m, n), NEW id
    PROVE  /\ Results(rs, id) \subseteq 1..(m + n) /\ Results(R, id) \subseteq 1..m /\ Results(G, id) \subseteq 1..n
           /\ \A i \in 1..m : i \in Results(rs, id) <=> i \in Results(R, id)
           /\ \A k \in 1..n : m + k \in Results(rs, id) <=> k \in Results(G, id)
<1>a. PICK kinds : kinds = {"output", "end"}
  OBVIOUS
<1>1. /\ Those(R, kinds) \subseteq 1..m /\ Those(G, kinds) \subseteq 1..n
      /\ Those(rs, kinds) \subseteq 1..(m + n)
      /\ \A i \in 1..m : i \in Those(rs, kinds) <=> i \in Those(R, kinds)
      /\ \A k \in 1..n : m + k \in Those(rs, kinds) <=> k \in Those(G, kinds)
  BY ThoseAreJoined
<1>2. /\ \A i \in 1..m : rs[i] = R[i]
      /\ \A k \in 1..n : rs[m + k] = G[k]
  BY DEF Joined
<1>3. \A s : Results(s, id) = {i \in Those(s, kinds) : s[i].id = id}
  BY <1>a DEF Results
<1> QED BY <1>1, <1>2, <1>3

LEMMA OutcomesAreJoined ==
    ASSUME NEW R, NEW G, NEW rs, NEW m, NEW n, Joined(R, G, rs, m, n), NEW id, NEW ends
    PROVE  /\ Outcome(rs, id) = "none" <=> Outcome(R, id) = "none" /\ Outcome(G, id) = "none"
           /\ Outcome(R, id) = "error" \/ Outcome(G, id) = "error" => Outcome(rs, id) = "error"
           /\ Outcome(R, id) = "none" => Outcome(rs, id) = Outcome(G, id)
           /\ Outcome(G, id) = "none" => Outcome(rs, id) = Outcome(R, id)
           /\ Outcome(R, id) # "none" /\ Outcome(G, id) # "none" => ResultsApart(rs, Ends(ends, m), id)
<1>1. /\ Results(rs, id) \subseteq 1..(m + n) /\ Results(R, id) \subseteq 1..m /\ Results(G, id) \subseteq 1..n
      /\ \A i \in 1..m : i \in Results(rs, id) <=> i \in Results(R, id)
      /\ \A k \in 1..n : m + k \in Results(rs, id) <=> k \in Results(G, id)
  BY ResultsAreJoined
<1>2. /\ m \in Nat /\ n \in Nat
      /\ \A i \in 1..m : rs[i] = R[i]
      /\ \A k \in 1..n : rs[m + k] = G[k]
  BY DEF Joined
<1>3. \A i \in Results(R, id) : i \in Results(rs, id) /\ rs[i] = R[i]
  BY <1>1, <1>2
<1>4. \A k \in Results(G, id) : m + k \in Results(rs, id) /\ rs[m + k] = G[k]
  BY <1>1, <1>2
<1>5. ASSUME NEW i \in Results(rs, id)
      PROVE  (i \in Results(R, id) /\ rs[i] = R[i]) \/ \E k \in Results(G, id) : rs[i] = G[k]
  <2>1. i \in 1..m \/ \E k \in 1..n : i = m + k
    BY <1>1, <1>2, PlaceInJoined
  <2> QED BY <2>1, <1>1, <1>2
<1>6. Results(rs, id) = {} <=> Results(R, id) = {} /\ Results(G, id) = {}
  BY <1>3, <1>4, <1>5
<1>7. (\E i \in Results(rs, id) : rs[i].failed)
          <=> (\E i \in Results(R, id) : R[i].failed) \/ (\E k \in Results(G, id) : G[k].failed)
  BY <1>3, <1>4, <1>5
<1>8. ASSUME NEW i \in Results(R, id), NEW k \in Results(G, id) PROVE ResultsApart(rs, Ends(ends, m), id)
  <2>1. i <= m /\ m < m + k /\ m \in Ends(ends, m)
    BY <1>1, <1>2 DEF Ends
  <2>2. /\ i \in Those(rs, {"output", "end"}) /\ rs[i].id = id
        /\ m + k \in Those(rs, {"output", "end"}) /\ rs[m + k].id = id
    BY <1>3, <1>4 DEF Results
  <2> QED BY <2>1, <2>2 DEF ResultsApart
<1>9. \A s : /\ Outcome(s, id) \in {"none", "error", "ok"}
             /\ Outcome(s, id) = "none" <=> Results(s, id) = {}
             /\ Outcome(s, id) = "error" <=> \E i \in Results(s, id) : s[i].failed
  BY OutcomeIs
<1>10. Outcome(rs, id) = "none" <=> Outcome(R, id) = "none" /\ Outcome(G, id) = "none"
  BY <1>6, <1>9
<1>11. Outcome(rs, id) = "error" <=> Outcome(R, id) = "error" \/ Outcome(G, id) = "error"
  BY <1>7, <1>9
<1>12. Outcome(R, id) # "none" /\ Outcome(G, id) # "none" => ResultsApart(rs, Ends(ends, m), id)
  BY <1>8, <1>9
<1>13. \A s : Outcome(s, id) \in {"none", "error", "ok"}
  BY <1>9
<1> QED BY <1>10, <1>11, <1>12, <1>13

LEMMA FirstTools ==
    ASSUME NEW G PROVE ToolsAreStored(G, MergedTools(<<>>, Tools(G, 0)), {})
<1>1. DOMAIN <<>> = {}
  OBVIOUS
<1>a. PICK new : new = Tools(G, 0)
  OBVIOUS
<1>b. PICK rows : rows = MergedTools(<<>>, new)
  OBVIOUS
<1>2. DOMAIN rows = DOMAIN new /\ \A id \in DOMAIN new : rows[id] = new[id]
  BY <1>1, <1>b DEF MergedTools
<1>3. \A id \in DOMAIN new : new[id].status = Outcome(G, id)
  BY <1>a, ToolsAre
<1> QED BY <1>2, <1>3, <1>a, <1>b DEF ToolsAreStored

LEMMA NextTools ==
    ASSUME NEW R, NEW G, NEW rs, NEW m, NEW n, Joined(R, G, rs, m, n),
           NEW ends \in SUBSET Nat, \A c \in ends : c <= m, NEW first,
           NEW rows, ToolsAreStored(R, rows, ends)
    PROVE  ToolsAreStored(rs, MergedTools(rows, Tools(G, first)), Ends(ends, m))
<1>a. PICK new : new = Tools(G, first)
  OBVIOUS
<1>b. PICK merged : merged = MergedTools(rows, new)
  OBVIOUS
<1>1. DOMAIN new = NamedCalls(G) /\ \A id \in NamedCalls(G) : new[id].status = Outcome(G, id)
  BY <1>a, ToolsAre
<1>2. DOMAIN rows = NamedCalls(R)
  BY ToolsAre DEF ToolsAreStored
<1>3. NamedCalls(rs) = NamedCalls(R) \cup NamedCalls(G)
  <2>a. PICK kinds : kinds = {"call", "output", "end"}
    OBVIOUS
  <2>1. /\ Those(R, kinds) \subseteq 1..m /\ Those(G, kinds) \subseteq 1..n
        /\ Those(rs, kinds) \subseteq 1..(m + n)
        /\ \A i \in 1..m : i \in Those(rs, kinds) <=> i \in Those(R, kinds)
        /\ \A k \in 1..n : m + k \in Those(rs, kinds) <=> k \in Those(G, kinds)
    BY ThoseAreJoined
  <2>2. /\ m \in Nat /\ n \in Nat
        /\ \A i \in 1..m : rs[i] = R[i]
        /\ \A k \in 1..n : rs[m + k] = G[k]
    BY DEF Joined
  <2>3. \A s : NamedCalls(s) = {s[i].id : i \in Those(s, kinds)}
    BY <2>a DEF NamedCalls
  <2>4. ASSUME NEW i \in Those(R, kinds) PROVE R[i].id \in NamedCalls(rs)
    <3>1. i \in Those(rs, kinds) /\ rs[i] = R[i]
      BY <2>1, <2>2
    <3> QED BY <3>1, <2>3
  <2>5. ASSUME NEW k \in Those(G, kinds) PROVE G[k].id \in NamedCalls(rs)
    <3>1. m + k \in Those(rs, kinds) /\ rs[m + k] = G[k]
      BY <2>1, <2>2
    <3> QED BY <3>1, <2>3
  <2>6. ASSUME NEW i \in Those(rs, kinds) PROVE rs[i].id \in NamedCalls(R) \cup NamedCalls(G)
    <3>1. i \in 1..m \/ \E k \in 1..n : i = m + k
      BY <2>1, <2>2, PlaceInJoined
    <3>2. CASE i \in 1..m
      <4>1. i \in Those(R, kinds) /\ rs[i] = R[i]
        BY <2>1, <2>2, <3>2
      <4> QED BY <4>1, <2>3
    <3>3. CASE \E k \in 1..n : i = m + k
      <4>1. PICK k \in Those(G, kinds) : rs[i] = G[k]
        BY <2>1, <2>2, <3>3
      <4> QED BY <4>1, <2>3
    <3> QED BY <3>1, <3>2, <3>3
  <2> QED BY <2>3, <2>4, <2>5, <2>6
<1>4. DOMAIN merged = DOMAIN Tools(rs, 0)
  <2>1. DOMAIN merged = DOMAIN rows \cup DOMAIN new
    BY <1>b DEF MergedTools
  <2> QED BY <2>1, <1>1, <1>2, <1>3, ToolsAre
<1>5. ASSUME NEW id \in DOMAIN merged
      PROVE  /\ merged[id].status = "none" <=> Outcome(rs, id) = "none"
             /\ merged[id].status = "error" => Outcome(rs, id) = "error"
             /\ ~ResultsApart(rs, Ends(ends, m), id) => merged[id].status = Outcome(rs, id)
  <2>1. id \in DOMAIN rows \cup DOMAIN new
    BY <1>b DEF MergedTools
  <2>2. merged[id].status =
            IF id \notin DOMAIN rows THEN new[id].status
            ELSE IF id \notin DOMAIN new THEN rows[id].status
            ELSE IF new[id].status # "none" THEN new[id].status ELSE rows[id].status
    BY <2>1, <1>b DEF MergedTools
  <2>3. /\ id \in DOMAIN new => new[id].status = Outcome(G, id)
        /\ id \notin DOMAIN new => Outcome(G, id) = "none"
        /\ id \notin DOMAIN rows => Outcome(R, id) = "none"
    BY <1>1, <1>2, ToolsAre
  <2>4. id \in DOMAIN rows =>
            /\ rows[id].status = "none" <=> Outcome(R, id) = "none"
            /\ rows[id].status = "error" => Outcome(R, id) = "error"
            /\ ~ResultsApart(R, ends, id) => rows[id].status = Outcome(R, id)
    BY DEF ToolsAreStored
  <2>5. /\ Outcome(rs, id) = "none" <=> Outcome(R, id) = "none" /\ Outcome(G, id) = "none"
        /\ Outcome(R, id) = "error" \/ Outcome(G, id) = "error" => Outcome(rs, id) = "error"
        /\ Outcome(R, id) = "none" => Outcome(rs, id) = Outcome(G, id)
        /\ Outcome(G, id) = "none" => Outcome(rs, id) = Outcome(R, id)
        /\ Outcome(R, id) # "none" /\ Outcome(G, id) # "none" => ResultsApart(rs, Ends(ends, m), id)
    BY OutcomesAreJoined
  <2>6. ResultsApart(R, ends, id) => ResultsApart(rs, Ends(ends, m), id)
    BY ExceptionsStay
  <2>7. CASE Outcome(G, id) # "none"
    <3>1. merged[id].status = Outcome(G, id)
      BY <2>1, <2>2, <2>3, <2>7
    <3> QED BY <3>1, <2>5, <2>7
  <2>8. CASE Outcome(G, id) = "none" /\ id \in DOMAIN rows
    <3>1. merged[id].status = rows[id].status
      BY <2>2, <2>3, <2>8
    <3> QED BY <3>1, <2>4, <2>5, <2>6, <2>8
  <2>9. CASE Outcome(G, id) = "none" /\ id \notin DOMAIN rows
    <3>1. merged[id].status = "none" /\ Outcome(rs, id) = "none"
      BY <2>1, <2>2, <2>3, <2>5, <2>9
    <3> QED BY <3>1
  <2> QED BY <2>7, <2>8, <2>9
<1> QED BY <1>4, <1>5, <1>a, <1>b DEF ToolsAreStored

(***************************************************************************)
(* Usage.                                                                  *)
(***************************************************************************)
UsageOf(rs, kind) == {[kind |-> kind, amount |-> rs[i].amount] : i \in Those(rs, {kind})}

LEMMA UsageIs ==
    ASSUME NEW rs
    PROVE  /\ Those(rs, {"usage"}) # {} => Usage(rs) = UsageOf(rs, "usage")
           /\ Those(rs, {"usage"}) = {} => Usage(rs) = UsageOf(rs, "count")
BY DEF Usage, UsageOf

LEMMA UsageIsJoined ==
    ASSUME NEW R, NEW G, NEW rs, NEW m, NEW n, Joined(R, G, rs, m, n), NEW kind
    PROVE  UsageOf(rs, kind) = UsageOf(R, kind) \cup UsageOf(G, kind)
<1>a. PICK kinds : kinds = {kind}
  OBVIOUS
<1>1. /\ Those(R, kinds) \subseteq 1..m /\ Those(G, kinds) \subseteq 1..n
      /\ Those(rs, kinds) \subseteq 1..(m + n)
      /\ \A i \in 1..m : i \in Those(rs, kinds) <=> i \in Those(R, kinds)
      /\ \A k \in 1..n : m + k \in Those(rs, kinds) <=> k \in Those(G, kinds)
  BY ThoseAreJoined
<1>2. /\ m \in Nat /\ n \in Nat
      /\ \A i \in 1..m : rs[i] = R[i]
      /\ \A k \in 1..n : rs[m + k] = G[k]
  BY DEF Joined
<1>3. \A s : UsageOf(s, kind) = {[kind |-> kind, amount |-> s[i].amount] : i \in Those(s, kinds)}
  BY <1>a DEF UsageOf
<1>4. ASSUME NEW i \in Those(R, kinds) PROVE [kind |-> kind, amount |-> R[i].amount] \in UsageOf(rs, kind)
  <2>1. i \in Those(rs, kinds) /\ rs[i] = R[i]
    BY <1>1, <1>2
  <2> QED BY <2>1, <1>3
<1>5. ASSUME NEW k \in Those(G, kinds) PROVE [kind |-> kind, amount |-> G[k].amount] \in UsageOf(rs, kind)
  <2>1. m + k \in Those(rs, kinds) /\ rs[m + k] = G[k]
    BY <1>1, <1>2
  <2> QED BY <2>1, <1>3
<1>6. ASSUME NEW i \in Those(rs, kinds)
      PROVE  [kind |-> kind, amount |-> rs[i].amount] \in UsageOf(R, kind) \cup UsageOf(G, kind)
  <2>1. i \in 1..m \/ \E k \in 1..n : i = m + k
    BY <1>1, <1>2, PlaceInJoined
  <2>2. CASE i \in 1..m
    <3>1. i \in Those(R, kinds) /\ rs[i] = R[i]
      BY <1>1, <1>2, <2>2
    <3> QED BY <3>1, <1>3
  <2>3. CASE \E k \in 1..n : i = m + k
    <3>1. PICK k \in Those(G, kinds) : rs[i] = G[k]
      BY <1>1, <1>2, <2>3
    <3> QED BY <3>1, <1>3
  <2> QED BY <2>1, <2>2, <2>3
<1> QED BY <1>3, <1>4, <1>5, <1>6

UsageIsStored(rs, rows, ends) == Usage(rs) \subseteq rows /\ (CountsApart(rs, ends) \/ rows = Usage(rs))

LEMMA NextUsage ==
    ASSUME NEW R, NEW G, NEW rs, NEW m, NEW n, Joined(R, G, rs, m, n), NEW ends,
           NEW rows, UsageIsStored(R, rows, ends)
    PROVE  UsageIsStored(rs, rows \cup Usage(G), Ends(ends, m))
<1>1. \A kind : UsageOf(rs, kind) = UsageOf(R, kind) \cup UsageOf(G, kind)
  BY UsageIsJoined
<1>2. Those(rs, {"usage"}) = {} <=> Those(R, {"usage"}) = {} /\ Those(G, {"usage"}) = {}
  BY NoneJoined
<1>3. \A s : Those(s, {"usage"}) = {} => UsageOf(s, "usage") = {}
  BY DEF UsageOf
<1>4. Ends(ends, m) # {}
  BY DEF Ends
<1>5. CASE Those(rs, {"usage"}) # {}
  <2>1. Usage(rs) = UsageOf(R, "usage") \cup UsageOf(G, "usage")
    BY <1>1, <1>5, UsageIs
  <2>2. UsageOf(R, "usage") \subseteq Usage(R) /\ UsageOf(G, "usage") \subseteq Usage(G)
    BY <1>3, UsageIs
  <2>3. CountsApart(rs, Ends(ends, m))
    BY <1>4, <1>5 DEF CountsApart
  <2> QED BY <2>1, <2>2, <2>3 DEF UsageIsStored
<1>6. CASE Those(rs, {"usage"}) = {}
  <2>1. Usage(rs) = Usage(R) \cup Usage(G)
    BY <1>1, <1>2, <1>6, UsageIs
  <2>2. rows = Usage(R)
    BY <1>2, <1>6 DEF UsageIsStored, CountsApart
  <2> QED BY <2>1, <2>2 DEF UsageIsStored
<1> QED BY <1>5, <1>6

(***************************************************************************)
(* The parent.                                                             *)
(***************************************************************************)
LEMMA LeastIs ==
    ASSUME NEW S \in SUBSET Nat, S # {}
    PROVE  Min(S) \in S /\ \A y \in S : Min(S) <= y
<1>1. PICK x \in S : \A y \in S : ~(<<y, x>> \in OpToRel(<, Nat))
  BY NatLessThanWellFounded, WFMin
<1>2. \A y \in S : ~(y < x)
  BY <1>1 DEF OpToRel
<1>3. \A y \in S : x <= y
  BY <1>2
<1> QED BY <1>3 DEF Min

LEMMA MetasArePlaces ==
    ASSUME NEW rs \in Seq(RolloutRecord)
    PROVE  DOMAIN Metas(rs) \in SUBSET Nat
BY DEF Metas, Those

\* A record of a session names its thread.
LEMMA MetasNameThreads ==
    ASSUME NEW rs \in Seq(RolloutRecord), DOMAIN Metas(rs) # {}
    PROVE  FirstMeta(Metas(rs)).thread \in Threads
<1>1. PICK i : i = Min(DOMAIN Metas(rs))
  OBVIOUS
<1>2. i \in DOMAIN Metas(rs)
  BY <1>1, LeastIs, MetasArePlaces
<1>3. i \in 1..Len(rs) /\ rs[i].what = "session_meta" /\ Metas(rs)[i] = rs[i]
  BY <1>2 DEF Metas, Those
<1>4. PICK r \in RolloutRecord : r = rs[i]
  BY <1>3
<1>5. r.thread \in Threads
  BY <1>3, <1>4 DEF RolloutRecord
<1> QED BY <1>1, <1>3, <1>4, <1>5 DEF FirstMeta

\* The header tells the parent where all session records but the first are of
\* the ancestry that the first one names.
Tells(seen, metas) ==
    /\ seen = metas
    /\ \A i \in Ancestry(metas) : metas[i].thread # FirstMeta(metas).thread
    /\ Ancestry(metas) # {} => FirstMeta(metas).fork \in {Unset, metas[Min(Ancestry(metas))].thread}

LEMMA HeaderTellsParent ==
    ASSUME NEW metas, DOMAIN metas \in SUBSET Nat, DOMAIN metas # {}, NEW seen, Tells(seen, metas)
    PROVE  readHeader(seen) = ParentOf(metas)
<1>a. PICK first : first = Min(DOMAIN metas)
  OBVIOUS
<1>1. first \in DOMAIN metas /\ \A i \in DOMAIN metas : first <= i
  BY <1>a, LeastIs
<1>2. FirstMeta(metas) = metas[first] /\ Ancestry(metas) = DOMAIN metas \ {first}
  BY <1>a DEF FirstMeta, Ancestry
<1>3. {i \in DOMAIN metas : metas[i].thread = FirstMeta(metas).thread} = {first}
  BY <1>1, <1>2 DEF Tells
<1>4. Max({first}) = first
  BY <1>1 DEF Max
<1>5. {i \in DOMAIN metas : i > first} = Ancestry(metas)
  BY <1>1, <1>2
<1>6. ParentOf(metas) =
          IF (IF metas[first].parent # Unset THEN metas[first].parent ELSE metas[first].fork) # Unset
          THEN IF metas[first].parent # Unset THEN metas[first].parent ELSE metas[first].fork
          ELSE IF Ancestry(metas) # {} THEN metas[Min(Ancestry(metas))].thread ELSE Unset
  BY <1>3, <1>4, <1>5 DEF ParentOf
<1>7. readHeader(metas) =
          IF metas[first].parent # Unset THEN metas[first].parent
          ELSE IF Ancestry(metas) # {} THEN metas[Min(Ancestry(metas))].thread ELSE metas[first].fork
  BY <1>2 DEF readHeader
<1>8. Ancestry(metas) # {} => metas[first].fork \in {Unset, metas[Min(Ancestry(metas))].thread}
  BY <1>2 DEF Tells
<1>9. seen = metas
  BY DEF Tells
<1> QED BY <1>6, <1>7, <1>8, <1>9

(***************************************************************************)
(* The invariant: the rows of the thread are right for what was read, and  *)
(* an import works from the stored cursor or from the beginning, with a    *)
(* batch made of some records that come next.                              *)
(***************************************************************************)
RowsAreRight(rows, rs, ends, line) ==
    /\ EventsFirst(rs, ends) \/ TurnsAre(rows.turns, rs, ends, line)
    /\ ToolsAreStored(rs, rows.tools, ends)
    /\ UsageIsStored(rs, rows.usage, ends)

ParentIsRight(rows, metas, ends, seen) == ends = {} \/ Tells(seen, metas) => rows.parent = ParentOf(metas)

RowParts == {"turns", "tools", "usage", "parent"}
StoreOK ==
    /\ rolloutCursor \in {Unset} \cup RolloutCursor
    /\ DOMAIN stored = Threads /\ \A t \in Threads : DOMAIN stored[t] = RowParts
    /\ rolloutCursor = Unset => \A t \in Threads : stored[t] = NoRows
    /\ rolloutCursor # Unset =>
           /\ cuts \in SUBSET Nat /\ \A c \in cuts : c <= Len(rolloutCursor.read)
           /\ DOMAIN Metas(rolloutCursor.read) # {}
           /\ RowsAreRight(stored[rolloutCursor.thread], rolloutCursor.read, cuts, rolloutCursor.line)
           /\ ParentIsRight(stored[rolloutCursor.thread], Metas(rolloutCursor.read), cuts, header)

BatchParts == {"thread", "turns", "tools", "usage", "parent", "cursor"}
FromRecords(b, base, G, first) ==
    /\ DOMAIN b = BatchParts /\ b.thread \in Threads
    /\ b.turns = Turns(G, first) /\ b.tools = Tools(G, first) /\ b.usage = Usage(G)
    /\ b.cursor \in RolloutCursor /\ b.cursor.thread = b.thread /\ b.cursor.line = first + Len(G)
    /\ base = Unset => first = 0 /\ b.cursor.read = G /\ DOMAIN Metas(G) # {}
    /\ base # Unset => /\ first >= base.line /\ ~EventsAlone(G)
                       /\ b.thread = base.thread /\ b.cursor.read = base.read \o G

ImportParts == {"step", "hadCursor", "base", "batch", "header"}
ImportOK(import) ==
    /\ DOMAIN import = ImportParts
    /\ import.step \in {"idle", "parse", "header", "accept"}
    /\ import.step # "idle" => /\ import.hadCursor <=> rolloutCursor # Unset
                               /\ import.base \in {Unset, rolloutCursor}
    /\ import.step = "header" => import.base # Unset
    /\ import.step \in {"header", "accept"} =>
           \E G \in Seq(RolloutRecord), first \in Nat : FromRecords(import.batch, import.base, G, first)
    /\ import.step = "accept" =>
           import.batch.parent = IF import.base = Unset THEN ParentOf(Metas(import.batch.cursor.read))
                                 ELSE readHeader(import.header)

CodexInv == rollout \in Seq(RolloutRecord) /\ StoreOK /\ ImportOK(rolloutImport)

LEMMA RolloutIsRight ==
    ASSUME CodexInv
    PROVE  RolloutIsStored
<1> SUFFICES ASSUME rolloutCursor # Unset PROVE RolloutIsStored
  BY DEF RolloutIsStored
<1>a. PICK read : read = rolloutCursor.read
  OBVIOUS
<1>b. PICK rows : rows = stored[rolloutCursor.thread]
  OBVIOUS
<1>1. read \in Seq(RolloutRecord)
  BY <1>a DEF CodexInv, StoreOK, RolloutCursor
<1>2. RowsAreRight(rows, read, cuts, rolloutCursor.line) /\ ParentIsRight(rows, Metas(read), cuts, header)
  BY <1>a, <1>b DEF CodexInv, StoreOK
<1>3. EventsFirst(read, cuts) \/ TurnsAreStored(read, rows.turns, cuts)
  BY <1>1, <1>2, TurnsAreRight DEF RowsAreRight
<1>4. ToolsAreStored(read, rows.tools, cuts)
  BY <1>2 DEF RowsAreRight
<1>5. Usage(read) \subseteq rows.usage /\ (CountsApart(read, cuts) \/ rows.usage = Usage(read))
  BY <1>2 DEF RowsAreRight, UsageIsStored
<1>6. HeaderTells(Metas(read)) <=> Tells(header, Metas(read))
  BY DEF HeaderTells, Tells
<1>7. (cuts = {} \/ HeaderTells(Metas(read))) => rows.parent = ParentOf(Metas(read))
  BY <1>2, <1>6 DEF ParentIsRight
<1> QED BY <1>3, <1>4, <1>5, <1>7, <1>a, <1>b DEF RolloutIsStored

LEMMA CodexInitInv == CodexInit => CodexInv
<1> SUFFICES ASSUME CodexInit PROVE CodexInv
  OBVIOUS
<1>1. rollout \in Seq(RolloutRecord)
  BY CodexAssumption DEF CodexInit
<1>2. DOMAIN NoRows = RowParts
  BY DEF NoRows, RowParts
<1>3. StoreOK
  BY <1>2 DEF CodexInit, StoreOK
<1>4. ImportOK(IdleImport)
  BY DEF ImportOK, IdleImport, ImportParts
<1> QED BY <1>1, <1>3, <1>4 DEF CodexInv, CodexInit

(***************************************************************************)
(* Steps that accept nothing.                                              *)
(***************************************************************************)
LEMMA StoreStays ==
    ASSUME StoreOK, UNCHANGED <<rolloutCursor, stored, cuts, header>>
    PROVE  StoreOK'
BY DEF StoreOK

LEMMA FileSteps ==
    ASSUME CodexInv, AppendRecord \/ FinishRecord \/ ReplaceRollout
    PROVE  CodexInv'
<1>0. rollout \in Seq(RolloutRecord) /\ StoreOK /\ ImportOK(rolloutImport)
  BY DEF CodexInv
<1>1. rollout' \in Seq(RolloutRecord)
  <2>1. CASE AppendRecord
    <3>1. PICK r \in RolloutRecord : rollout' = Append(rollout, r)
      BY <2>1, CodexAssumption DEF AppendRecord
    <3> QED BY <3>1, <1>0
  <2>2. CASE FinishRecord
    BY <2>2, <1>0 DEF FinishRecord
  <2>3. CASE ReplaceRollout
    BY <2>3, CodexAssumption DEF ReplaceRollout
  <2> QED BY <2>1, <2>2, <2>3
<1>2. UNCHANGED <<rolloutCursor, stored, cuts, header, rolloutImport>>
  BY DEF AppendRecord, FinishRecord, ReplaceRollout
<1>3. StoreOK'
  BY <1>0, <1>2, StoreStays
<1>4. ImportOK(rolloutImport)'
  BY <1>0, <1>2 DEF ImportOK
<1> QED BY <1>1, <1>3, <1>4 DEF CodexInv

LEMMA ImportGoesOn ==
    ASSUME CodexInv, NEW r, ImportGoes(r), ImportOK(r)
    PROVE  CodexInv'
<1>0. rollout \in Seq(RolloutRecord) /\ StoreOK
  BY DEF CodexInv
<1>1. UNCHANGED <<rollout, rolloutCursor, stored, cuts, header>> /\ rolloutImport' = r
  BY DEF ImportGoes, rolloutVars
<1>2. StoreOK'
  BY <1>0, <1>1, StoreStays
<1>3. ImportOK(rolloutImport)'
  BY <1>1 DEF ImportOK
<1> QED BY <1>0, <1>1, <1>2, <1>3 DEF CodexInv

LEMMA IdleIsOK == ImportOK(IdleImport)
BY DEF ImportOK, IdleImport, ImportParts

LEMMA LookUpStep == ASSUME CodexInv, LookUp PROVE CodexInv'
<1>a. PICK r : r = [IdleImport EXCEPT !.step = "parse", !.hadCursor = rolloutCursor # Unset,
                                      !.base = IF RolloutContinues THEN rolloutCursor ELSE Unset]
  OBVIOUS
<1>1. /\ DOMAIN r = ImportParts /\ r.step = "parse" /\ (r.hadCursor <=> rolloutCursor # Unset)
      /\ r.base \in {Unset, rolloutCursor}
  BY <1>a DEF IdleImport, ImportParts
<1>2. ImportOK(r)
  BY <1>1 DEF ImportOK
<1>3. ImportGoes(r)
  BY <1>a DEF LookUp
<1> QED BY <1>2, <1>3, ImportGoesOn

LEMMA AbandonStep == ASSUME CodexInv, AbandonImport PROVE CodexInv'
BY IdleIsOK, ImportGoesOn DEF AbandonImport

LEMMA ReadHeaderStep == ASSUME CodexInv, ReadHeader PROVE CodexInv'
<1>i. PICK import : import = rolloutImport
  OBVIOUS
<1>a. PICK b : b = [import.batch EXCEPT !.parent = readHeader(Header)]
  OBVIOUS
<1>b. PICK r : r = [import EXCEPT !.step = "accept", !.header = Header, !.batch = b]
  OBVIOUS
<1>0. ImportOK(import) /\ import.step = "header"
  BY <1>i DEF CodexInv, ReadHeader
<1>1. /\ DOMAIN import = ImportParts /\ import.base # Unset
      /\ (import.hadCursor <=> rolloutCursor # Unset) /\ import.base \in {Unset, rolloutCursor}
  BY <1>0 DEF ImportOK
<1>2. PICK G \in Seq(RolloutRecord), first \in Nat : FromRecords(import.batch, import.base, G, first)
  BY <1>0 DEF ImportOK
<1>3. /\ DOMAIN r = ImportParts /\ r.step = "accept" /\ r.header = Header /\ r.batch = b
      /\ r.base = import.base /\ r.hadCursor = import.hadCursor
  BY <1>1, <1>b DEF ImportParts
<1>4. /\ DOMAIN b = BatchParts /\ b.parent = readHeader(Header) /\ b.thread = import.batch.thread
      /\ b.turns = import.batch.turns /\ b.tools = import.batch.tools /\ b.usage = import.batch.usage
      /\ b.cursor = import.batch.cursor
  BY <1>2, <1>a DEF FromRecords, BatchParts
<1>5. FromRecords(b, import.base, G, first)
  BY <1>2, <1>4 DEF FromRecords
<1>6. ImportOK(r)
  BY <1>1, <1>3, <1>4, <1>5 DEF ImportOK
<1>7. ImportGoes(r)
  <2>1. r = [import EXCEPT !.step = "accept", !.header = Header, !.batch.parent = readHeader(Header)]
    BY <1>a, <1>b
  <2> QED BY <2>1, <1>i DEF ReadHeader
<1> QED BY <1>6, <1>7, ImportGoesOn

LEMMA GotIsRecords ==
    ASSUME CodexInv, rolloutImport.step = "parse"
    PROVE  /\ Got \in Seq(RolloutRecord) /\ ReadBefore \in Seq(RolloutRecord)
           /\ rolloutImport.base # Unset => rolloutImport.base \in RolloutCursor
<1>1. rolloutImport.base \in {Unset, rolloutCursor} /\ rolloutCursor \in {Unset} \cup RolloutCursor
  BY DEF CodexInv, StoreOK, ImportOK
<1>2. rolloutImport.base # Unset => rolloutImport.base \in RolloutCursor
  BY <1>1
<1>3. ReadBefore \in Seq(RolloutRecord)
  BY <1>2 DEF ReadBefore, RolloutCursor
<1>4. RolloutLines \in Seq(RolloutRecord)
  <2>1. rollout \in Seq(RolloutRecord)
    BY DEF CodexInv
  <2>2. Front(rollout) \in Seq(RolloutRecord)
    BY <2>1 DEF Front
  <2> QED BY <2>1, <2>2 DEF RolloutLines
<1>5. Got \in Seq(RolloutRecord)
  BY <1>3, <1>4 DEF Got
<1> QED BY <1>2, <1>3, <1>5

LEMMA BatchIsMadeOfRecords ==
    ASSUME CodexInv, rolloutImport.step = "parse", ~OnlyEvents, Thread # Unset
    PROVE  /\ FromRecords(RolloutBatch(ReadBefore, FirstLine, Got), rolloutImport.base, Got, FirstLine)
           /\ FirstLine \in Nat
<1>b. PICK b : b = RolloutBatch(ReadBefore, FirstLine, Got)
  OBVIOUS
<1>i. PICK base : base = rolloutImport.base
  OBVIOUS
<1>0. /\ Got \in Seq(RolloutRecord) /\ ReadBefore \in Seq(RolloutRecord)
      /\ base # Unset => base \in RolloutCursor
  BY <1>i, GotIsRecords
<1>1. FirstLine \in Nat /\ (base = Unset => FirstLine = 0) /\ (base # Unset => FirstLine >= base.line)
  <2>1. CASE base = Unset
    BY <2>1, <1>i DEF FirstLine
  <2>2. CASE base # Unset
    <3>1. base.line \in Nat /\ base.open \in BOOLEAN
      BY <2>2, <1>0 DEF RolloutCursor
    <3>2. FirstLine = base.line + (IF base.open THEN 1 ELSE 0)
      BY <2>2, <1>i DEF FirstLine
    <3> QED BY <2>2, <3>1, <3>2
  <2> QED BY <2>1, <2>2
<1>2. Thread \in Threads /\ (base # Unset => Thread = base.thread) /\ (base = Unset => DOMAIN Metas(Got) # {})
  <2>1. CASE base = Unset
    <3>1. DOMAIN Metas(Got) # {} /\ Thread = FirstMeta(Metas(Got)).thread
      BY <2>1, <1>i DEF Thread
    <3> QED BY <2>1, <3>1, <1>0, MetasNameThreads
  <2>2. CASE base # Unset
    <3>1. Thread = base.thread
      BY <2>2, <1>i DEF Thread
    <3> QED BY <2>2, <3>1, <1>0 DEF RolloutCursor
  <2> QED BY <2>1, <2>2
<1>3. base # Unset => ~EventsAlone(Got)
  BY <1>i DEF OnlyEvents, EventsAlone
<1>4. ReadBefore = IF base = Unset THEN <<>> ELSE base.read
  BY <1>i DEF ReadBefore
<1>5. ReadBefore \o Got \in Seq(RolloutRecord) /\ (base = Unset => ReadBefore \o Got = Got)
  BY <1>0, <1>4
<1>6. Len(Got) \in Nat
  BY <1>0
<1>7. /\ DOMAIN b = BatchParts /\ b.thread = Thread
      /\ b.turns = Turns(Got, FirstLine) /\ b.tools = Tools(Got, FirstLine) /\ b.usage = Usage(Got)
      /\ b.cursor = [read |-> ReadBefore \o Got, thread |-> Thread,
                     line |-> FirstLine + Len(Got), open |-> ending = "open"]
  BY <1>b DEF RolloutBatch, BatchParts
<1>8. /\ b.cursor \in RolloutCursor /\ b.cursor.read = ReadBefore \o Got
      /\ b.cursor.thread = Thread /\ b.cursor.line = FirstLine + Len(Got)
  BY <1>1, <1>2, <1>5, <1>6, <1>7 DEF RolloutCursor
<1>9. FromRecords(b, base, Got, FirstLine)
  BY <1>1, <1>2, <1>3, <1>4, <1>5, <1>7, <1>8 DEF FromRecords
<1> QED BY <1>1, <1>9, <1>b, <1>i

LEMMA ParseStep == ASSUME CodexInv, ParseRollout PROVE CodexInv'
<1>i. PICK import : import = rolloutImport
  OBVIOUS
<1>0. /\ ImportOK(import) /\ DOMAIN import = ImportParts /\ import.step = "parse"
      /\ (import.hadCursor <=> rolloutCursor # Unset) /\ import.base \in {Unset, rolloutCursor}
  BY <1>i DEF CodexInv, ParseRollout, ImportOK
<1>1. CASE ImportGoes(IdleImport)
  BY <1>1, IdleIsOK, ImportGoesOn
<1>2. CASE ImportGoes([import EXCEPT !.base = Unset])
  <2>a. PICK r : r = [import EXCEPT !.base = Unset]
    OBVIOUS
  <2>1. DOMAIN r = ImportParts /\ r.step = "parse" /\ r.hadCursor = import.hadCursor /\ r.base = Unset
    BY <2>a, <1>0 DEF ImportParts
  <2>2. ImportOK(r)
    BY <2>1, <1>0 DEF ImportOK
  <2> QED BY <1>2, <2>a, <2>2, ImportGoesOn
<1>3. ASSUME ~OnlyEvents, Thread # Unset, NEW b, b = RolloutBatch(ReadBefore, FirstLine, Got),
             ImportGoes([import EXCEPT !.step = IF import.base = Unset THEN "accept" ELSE "header", !.batch = b])
      PROVE  CodexInv'
  <2>a. PICK r : r = [import EXCEPT !.step = IF import.base = Unset THEN "accept" ELSE "header", !.batch = b]
    OBVIOUS
  <2>1. /\ DOMAIN r = ImportParts /\ r.step = (IF import.base = Unset THEN "accept" ELSE "header")
        /\ r.hadCursor = import.hadCursor /\ r.base = import.base /\ r.batch = b
    BY <2>a, <1>0 DEF ImportParts
  <2>2. FromRecords(b, import.base, Got, FirstLine) /\ FirstLine \in Nat /\ Got \in Seq(RolloutRecord)
    BY <1>i, <1>0, <1>3, BatchIsMadeOfRecords, GotIsRecords
  <2>3. import.base = Unset => b.parent = ParentOf(Metas(Got)) /\ b.cursor.read = Got
    <3>1. import.base = Unset => b.parent = ParentOf(Metas(Got))
      BY <1>i, <1>3 DEF RolloutBatch
    <3> QED BY <3>1, <2>2 DEF FromRecords
  <2>4. ImportOK(r)
    BY <2>1, <2>2, <2>3, <1>0 DEF ImportOK
  <2> QED BY <1>3, <2>a, <2>4, ImportGoesOn
<1> QED BY <1>1, <1>2, <1>3, <1>i DEF ParseRollout

(***************************************************************************)
(* The step that accepts a batch.                                          *)
(***************************************************************************)
LEMMA FirstRows ==
    ASSUME NEW G \in Seq(RolloutRecord), NEW rows,
           rows.turns = MergedTurns({}, Turns(G, 0)), rows.tools = MergedTools(<<>>, Tools(G, 0)),
           rows.usage = {} \cup Usage(G)
    PROVE  RowsAreRight(rows, G, {}, Len(G))
<1>1. MergedTurns({}, Turns(G, 0)) = Turns(G, 0)
  BY DEF MergedTurns
<1>2. UsageIsStored(G, Usage(G), {})
  BY DEF UsageIsStored
<1> QED BY <1>1, <1>2, FirstTurns, FirstTools DEF RowsAreRight

LEMMA NextRows ==
    ASSUME NEW R \in Seq(RolloutRecord), NEW G \in Seq(RolloutRecord), ~EventsAlone(G),
           NEW ends \in SUBSET Nat, \A c \in ends : c <= Len(R),
           NEW line \in Nat, NEW first \in Nat, first >= line,
           NEW old, RowsAreRight(old, R, ends, line), NEW rows,
           rows.turns = MergedTurns(old.turns, Turns(G, first)),
           rows.tools = MergedTools(old.tools, Tools(G, first)), rows.usage = old.usage \cup Usage(G)
    PROVE  RowsAreRight(rows, R \o G, Ends(ends, Len(R)), first + Len(G))
<1>1. Joined(R, G, R \o G, Len(R), Len(G))
  BY BatchesJoin
<1>2. EventsFirst(R \o G, Ends(ends, Len(R)))
          \/ TurnsAre(rows.turns, R \o G, Ends(ends, Len(R)), first + Len(G))
  <2>1. EventsFirst(R, ends) \/ TurnsAre(old.turns, R, ends, line)
    BY DEF RowsAreRight
  <2> QED BY <1>1, <2>1, NextTurns
<1>3. ToolsAreStored(R \o G, rows.tools, Ends(ends, Len(R)))
  <2>1. ToolsAreStored(R, old.tools, ends)
    BY DEF RowsAreRight
  <2> QED BY <1>1, <2>1, NextTools
<1>4. UsageIsStored(R \o G, rows.usage, Ends(ends, Len(R)))
  <2>1. UsageIsStored(R, old.usage, ends)
    BY DEF RowsAreRight
  <2> QED BY <1>1, <2>1, NextUsage
<1> QED BY <1>2, <1>3, <1>4 DEF RowsAreRight

LEMMA AcceptStep == ASSUME CodexInv, AcceptRollout PROVE CodexInv'
<1>b. PICK b : b = rolloutImport.batch
  OBVIOUS
<1>i. PICK base : base = rolloutImport.base
  OBVIOUS
<1>t. PICK thread : thread = b.thread
  OBVIOUS
<1>o. PICK old : old = IF ResetsRollout THEN [stored[thread] EXCEPT !.turns = {}, !.tools = <<>>, !.usage = {}]
                       ELSE stored[thread]
  OBVIOUS
<1>r. PICK rows : rows = [turns |-> MergedTurns(old.turns, b.turns), tools |-> MergedTools(old.tools, b.tools),
                          usage |-> old.usage \cup b.usage, parent |-> b.parent]
  OBVIOUS
<1>c. PICK read : read = b.cursor.read
  OBVIOUS
<1>0. rollout \in Seq(RolloutRecord) /\ StoreOK /\ ImportOK(rolloutImport)
  BY DEF CodexInv
<1>1. /\ rolloutImport.step = "accept" /\ rolloutImport' = IdleImport /\ rollout' = rollout
      /\ stored' = [stored EXCEPT ![thread] = rows] /\ rolloutCursor' = b.cursor
      /\ cuts' = (IF base = Unset THEN {} ELSE cuts \cup {Len(base.read)})
      /\ header' = rolloutImport.header
  BY <1>b, <1>i, <1>t, <1>o, <1>r DEF AcceptRollout, rolloutVars
<1>2. /\ rolloutImport.hadCursor <=> rolloutCursor # Unset
      /\ base \in {Unset, rolloutCursor}
      /\ b.parent = IF base = Unset THEN ParentOf(Metas(read)) ELSE readHeader(rolloutImport.header)
  BY <1>0, <1>1, <1>b, <1>i, <1>c DEF ImportOK
<1>3. PICK G \in Seq(RolloutRecord), first \in Nat : FromRecords(b, base, G, first)
  BY <1>0, <1>1, <1>b, <1>i DEF ImportOK
<1>4. /\ thread \in Threads /\ b.turns = Turns(G, first) /\ b.tools = Tools(G, first) /\ b.usage = Usage(G)
      /\ b.cursor \in RolloutCursor /\ b.cursor.thread = thread /\ b.cursor.line = first + Len(G)
  BY <1>3, <1>t DEF FromRecords
<1>5. read \in Seq(RolloutRecord) /\ b.cursor # Unset
  BY <1>4, <1>c, CodexAssumption DEF RolloutCursor
<1>6. /\ DOMAIN rows = RowParts /\ rows.parent = b.parent
      /\ rows.turns = MergedTurns(old.turns, Turns(G, first))
      /\ rows.tools = MergedTools(old.tools, Tools(G, first)) /\ rows.usage = old.usage \cup Usage(G)
  BY <1>r, <1>4 DEF RowParts
<1>7. /\ DOMAIN stored = Threads /\ \A t \in Threads : DOMAIN stored[t] = RowParts
      /\ rolloutCursor \in {Unset} \cup RolloutCursor
  BY <1>0 DEF StoreOK
<1>8. stored'[thread] = rows /\ DOMAIN stored' = Threads /\ \A t \in Threads : DOMAIN stored'[t] = RowParts
  BY <1>1, <1>4, <1>6, <1>7
<1>9. /\ cuts' \in SUBSET Nat /\ \A c \in cuts' : c <= Len(read)
      /\ DOMAIN Metas(read) # {}
      /\ RowsAreRight(rows, read, cuts', b.cursor.line)
      /\ ParentIsRight(rows, Metas(read), cuts', header')
  <2>1. CASE base = Unset
    <3>1. first = 0 /\ read = G /\ DOMAIN Metas(G) # {}
      BY <2>1, <1>3, <1>c DEF FromRecords
    <3>2. old.turns = {} /\ old.tools = <<>> /\ old.usage = {}
      <4>1. CASE rolloutCursor # Unset
        <5>1. old = [stored[thread] EXCEPT !.turns = {}, !.tools = <<>>, !.usage = {}]
          BY <4>1, <2>1, <1>2, <1>i, <1>o DEF ResetsRollout
        <5>2. DOMAIN stored[thread] = RowParts
          BY <1>4, <1>7
        <5> QED BY <5>1, <5>2 DEF RowParts
      <4>2. CASE rolloutCursor = Unset
        <5>1. old = stored[thread]
          BY <4>2, <1>2, <1>o DEF ResetsRollout
        <5>2. stored[thread] = NoRows
          BY <4>2, <1>0, <1>4 DEF StoreOK
        <5> QED BY <5>1, <5>2 DEF NoRows
      <4> QED BY <4>1, <4>2
    <3>3. /\ rows.turns = MergedTurns({}, Turns(G, 0))
          /\ rows.tools = MergedTools(<<>>, Tools(G, 0)) /\ rows.usage = {} \cup Usage(G)
      BY <3>1, <3>2, <1>6
    <3>4. RowsAreRight(rows, G, {}, Len(G))
      BY <3>3, FirstRows
    <3>5. b.cursor.line = Len(G)
      BY <3>1, <1>4
    <3>6. cuts' = {}
      BY <2>1, <1>1
    <3>7. ParentIsRight(rows, Metas(read), {}, header')
      BY <2>1, <1>2, <1>6 DEF ParentIsRight
    <3> QED BY <3>1, <3>4, <3>5, <3>6, <3>7
  <2>2. CASE base # Unset
    <3>a. PICK R : R = base.read
      OBVIOUS
    <3>1. base = rolloutCursor /\ rolloutCursor # Unset /\ rolloutCursor \in RolloutCursor
      BY <2>2, <1>2, <1>7
    <3>2. first >= base.line /\ ~EventsAlone(G) /\ thread = base.thread /\ read = R \o G
      BY <2>2, <3>a, <1>3, <1>c, <1>t DEF FromRecords
    <3>3. R \in Seq(RolloutRecord) /\ base.line \in Nat
      BY <3>1, <3>a DEF RolloutCursor
    <3>4. old = stored[thread]
      BY <2>2, <1>i, <1>o DEF ResetsRollout
    <3>5. /\ cuts \in SUBSET Nat /\ \A c \in cuts : c <= Len(R)
          /\ DOMAIN Metas(R) # {}
          /\ RowsAreRight(old, R, cuts, base.line)
      BY <3>1, <3>2, <3>4, <3>a, <1>0 DEF StoreOK
    <3>6. RowsAreRight(rows, R \o G, Ends(cuts, Len(R)), first + Len(G))
      BY <3>2, <3>3, <3>5, <1>6, NextRows
    <3>7. cuts' = Ends(cuts, Len(R))
      BY <2>2, <3>a, <1>1 DEF Ends
    <3>8. Len(R) \in Nat /\ Len(G) \in Nat /\ Len(read) = Len(R) + Len(G)
      BY <3>2, <3>3, BatchesJoin
    <3>9. cuts' \in SUBSET Nat /\ \A c \in cuts' : c <= Len(read)
      <4>1. ASSUME NEW c \in cuts' PROVE c \in Nat /\ c <= Len(read)
        <5>1. c \in Nat /\ c <= Len(R)
          BY <4>1, <3>5, <3>7, <3>8 DEF Ends
        <5> QED BY <5>1, <3>8
      <4> QED BY <4>1
    <3>10. DOMAIN Metas(read) # {}
      <4>1. \A s : DOMAIN Metas(s) = Those(s, {"session_meta"})
        BY DEF Metas
      <4>2. Those(R \o G, {"session_meta"}) = {} <=> Those(R, {"session_meta"}) = {} /\ Those(G, {"session_meta"}) = {}
        <5>1. Joined(R, G, R \o G, Len(R), Len(G))
          BY <3>3, BatchesJoin
        <5> QED BY <5>1, NoneJoined
      <4> QED BY <4>1, <4>2, <3>2, <3>5
    <3>11. ParentIsRight(rows, Metas(read), cuts', header')
      <4>1. cuts' # {}
        BY <3>7 DEF Ends
      <4>2. ASSUME Tells(header', Metas(read)) PROVE rows.parent = ParentOf(Metas(read))
        <5>1. readHeader(header') = ParentOf(Metas(read))
          BY <4>2, <3>10, <1>5, MetasArePlaces, HeaderTellsParent
        <5> QED BY <5>1, <2>2, <1>1, <1>2, <1>6
      <4> QED BY <4>1, <4>2 DEF ParentIsRight
    <3> QED BY <3>2, <3>6, <3>7, <3>9, <3>10, <3>11, <1>4
  <2> QED BY <2>1, <2>2
<1>10. StoreOK'
  <2>1. rolloutCursor' \in RolloutCursor /\ rolloutCursor' # Unset
    BY <1>1, <1>4, <1>5
  <2>2. rolloutCursor'.read = read /\ stored'[rolloutCursor'.thread] = rows /\ rolloutCursor'.line = b.cursor.line
    BY <1>1, <1>4, <1>8, <1>c
  <2> QED BY <2>1, <2>2, <1>8, <1>9 DEF StoreOK
<1>11. ImportOK(rolloutImport)'
  BY <1>1 DEF ImportOK, IdleImport, ImportParts
<1> QED BY <1>0, <1>1, <1>10, <1>11 DEF CodexInv

LEMMA CodexStep == CodexInv /\ [CodexNext]_codexVars => CodexInv'
<1> SUFFICES ASSUME CodexInv, [CodexNext]_codexVars PROVE CodexInv'
  OBVIOUS
<1>1. CASE AppendRecord \/ FinishRecord \/ ReplaceRollout  BY <1>1, FileSteps
<1>2. CASE LookUp  BY <1>2, LookUpStep
<1>3. CASE ParseRollout  BY <1>3, ParseStep
<1>4. CASE ReadHeader  BY <1>4, ReadHeaderStep
<1>5. CASE AcceptRollout  BY <1>5, AcceptStep
<1>6. CASE AbandonImport  BY <1>6, AbandonStep
<1>7. CASE UNCHANGED codexVars
  <2>1. UNCHANGED <<rollout, rolloutCursor, stored, rolloutImport, cuts, header>>
    BY <1>7 DEF codexVars, rolloutVars
  <2>2. StoreOK'
    BY <2>1, StoreStays DEF CodexInv
  <2> QED BY <2>1, <2>2 DEF CodexInv, ImportOK
<1> QED BY <1>1, <1>2, <1>3, <1>4, <1>5, <1>6, <1>7 DEF CodexNext

\* What is stored of a rollout is what one read of all its records would have
\* given, but for what a cut between two batches really changes, however the
\* file grows or gives way to another and whichever imports die (collectSegment,
\* applyDetail).
THEOREM RolloutsAreKept == CodexSpec => []RolloutIsStored
<1>1. CodexInv => RolloutIsStored
  BY RolloutIsRight
<1>2. CodexInv /\ [CodexNext]_codexVars => CodexInv'
  BY CodexStep
<1> QED BY CodexInitInv, <1>1, <1>2, PTL DEF CodexSpec
================================================================================
