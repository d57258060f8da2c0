---------------------------- MODULE Wizard_proofs ---------------------------
(***************************************************************************)
(* What is invariant in the listing wizard: its types, and what its        *)
(* requests rest on.  A request under way names the listing of the form,   *)
(* its photos are photos that the server has of that listing, and a        *)
(* confirmation is of a listing that has photos.  The form's own list of   *)
(* photos does not do: an import that answers late may empty it, so the    *)
(* invariant speaks of the photos the server has.  A step that is leaving  *)
(* still acts on the form it showed last: the invariant says of that form  *)
(* what it says of the current one, as long as both are of one listing.    *)
(* The draft of a listing not yet started is kept: a confirmation under    *)
(* way is of the draft's listing or of one that was started, and only the  *)
(* one that starts it forgets the draft.                                   *)
(*                                                                         *)
(* v1, v2, ... are the variables of MC_Forms, which names at the INSTANCE  *)
(* of each component what it keeps in which; here v2 is the form, v3 the   *)
(* step, v8 the step that is leaving, v9 the draft, v10 to v13 the         *)
(* uploads, imports, confirmations and orphans under way, v15 the photos   *)
(* of the server's listings, v16 those started, v17 and v18 the history.   *)
(***************************************************************************)
EXTENDS MC_Forms, FiniteSetTheorems, TLAPS

\* The wizard starts well typed, and without a draft.
LEMMA WizTypesInit ==
  ASSUME Wiz!Init
  PROVE  Wiz!TypeOK /\ Wiz!DraftNamed
<1> USE FormsAssumption
<1>1. v2 \in Wiz!Forms
  BY DEF Wiz!Init, Wiz!INITIAL_FORM_DATA, Wiz!Forms
<1>2. v15 \in [Wiz!Listings -> SUBSET Photos]
  BY DEF Wiz!Init
<1>3. {v1, v4, v5, v6, v7, v17, v18} \subseteq BOOLEAN
  BY DEF Wiz!Init
<1> QED
  BY <1>1, <1>2, <1>3 DEF Wiz!Init, Wiz!TypeOK, Wiz!DraftNamed

\* The step on screen is a step, and shows a form.
LEMMA WizDrawn ==
  ASSUME Wiz!TypeOK
  PROVE  /\ Wiz!drawn \in 1..5 /\ Wiz!props \in Wiz!Forms /\ Wiz!confirming \in BOOLEAN
         /\ v8 = None => Wiz!drawn = v3 /\ Wiz!props = v2
         /\ v8 # None => Wiz!drawn = v8.step /\ Wiz!props = v8.form
<1>1. CASE v8 = None
  <2>1. Wiz!drawn = v3 /\ Wiz!props = v2 /\ Wiz!confirming = v4
    BY <1>1, Zenon DEF Wiz!drawn, Wiz!props, Wiz!confirming
  <2>. QED
    BY <1>1, <2>1 DEF Wiz!TypeOK
<1>2. CASE v8 # None
  <2>1. Wiz!drawn = v8.step /\ Wiz!props = v8.form /\ Wiz!confirming = v8.submitting
    BY <1>2, Zenon DEF Wiz!drawn, Wiz!props, Wiz!confirming
  <2>2. v8 \in [form : Wiz!Forms, step : 1..5, submitting : BOOLEAN]
    BY <1>2 DEF Wiz!TypeOK
  <2>3. v8.step \in 1..5 /\ v8.form \in Wiz!Forms /\ v8.submitting \in BOOLEAN
    BY <2>2, Zenon
  <2>. QED
    BY <1>2, <2>1, <2>3
<1>. QED
  BY <1>1, <1>2

\* Next and Back lead to a step.
LEMMA WizNextBack ==
  ASSUME v3 \in 1..5
  PROVE  /\ Wiz!Next1 = (IF v3 = 5 THEN 5 ELSE v3 + 1) /\ Wiz!Next1 \in 1..5
         /\ Wiz!Back1 = (IF v3 = 1 THEN 1 ELSE v3 - 1) /\ Wiz!Back1 \in 1..5
<1>1. ASSUME NEW a \in Int, NEW b \in Int, a <= b
      PROVE  Wiz!Min({a, b}) = a /\ Wiz!Min({b, a}) = a
  BY <1>1 DEF Wiz!Min
<1>2. ASSUME NEW a \in Int, NEW b \in Int, a <= b
      PROVE  Wiz!Max({a, b}) = b /\ Wiz!Max({b, a}) = b
  BY <1>2 DEF Wiz!Max
<1>3. Wiz!Next1 = (IF v3 = 5 THEN 5 ELSE v3 + 1)
  <2>1. CASE v3 = 5
    BY <1>1, <2>1 DEF Wiz!Next1
  <2>2. CASE v3 # 5
    <3>1. v3 + 1 \in Int /\ 5 \in Int /\ v3 + 1 <= 5
      BY <2>2
    <3>2. Wiz!Min({v3 + 1, 5}) = v3 + 1
      BY <1>1, <3>1
    <3>. QED
      BY <2>2, <3>2 DEF Wiz!Next1
  <2>. QED
    BY <2>1, <2>2
<1>4. Wiz!Back1 = (IF v3 = 1 THEN 1 ELSE v3 - 1)
  <2>1. CASE v3 = 1
    BY <1>2, <2>1 DEF Wiz!Back1
  <2>2. CASE v3 # 1
    <3>1. v3 - 1 \in Int /\ 1 \in Int /\ 1 <= v3 - 1
      BY <2>2
    <3>2. Wiz!Max({v3 - 1, 1}) = v3 - 1
      BY <1>2, <3>1
    <3>. QED
      BY <2>2, <3>2 DEF Wiz!Back1
  <2>. QED
    BY <2>1, <2>2
<1>. QED
  BY <1>3, <1>4

\* What is saved of a form is well typed, and so is what is kept of the step it leaves.
LEMMA WizSetForm ==
  ASSUME Wiz!TypeOK, Wiz!DraftNamed, NEW f \in Wiz!Forms, NEW s \in 1..5, Wiz!SetForm(f, s)
  PROVE  /\ v2' \in Wiz!Forms /\ v3' \in 1..5
         /\ v9' \in {None} \cup [form : Wiz!Forms, step : 1..5]
         /\ v8' \in {None} \cup [form : Wiz!Forms, step : 1..5, submitting : BOOLEAN]
         /\ Wiz!DraftNamed'
<1> DEFINE F == Wiz!Forms
<1>1. f \in F /\ v2 \in F /\ v9 \in {None} \cup [form : F, step : 1..5]
  BY DEF Wiz!TypeOK
<1>5. v8' \in {None} \cup [form : F, step : 1..5, submitting : BOOLEAN]
  <2>1. v8' = None \/ v8' = [form |-> Wiz!props, step |-> Wiz!drawn,
                              submitting |-> Wiz!confirming]
    BY DEF Wiz!SetForm
  <2>2. Wiz!drawn \in 1..5 /\ Wiz!props \in F /\ Wiz!confirming \in BOOLEAN
    BY WizDrawn
  <2>. HIDE DEF F
  <2>. QED
    BY <2>1, <2>2
<1> HIDE DEF F
<1>2. v2' = f /\ v3' = s
  BY DEF Wiz!SetForm
<1>3. v9' = v9 \/ (f.listing # None /\ v9' = [form |-> f, step |-> s])
  BY DEF Wiz!SetForm
<1>4. v9' \in {None} \cup [form : F, step : 1..5] /\ (v9' # None => v9'.form.listing # None)
  BY <1>1, <1>3 DEF Wiz!DraftNamed
<1> QED
  BY <1>1, <1>2, <1>4, <1>5 DEF Wiz!DraftNamed, F


\* The instance's copy of the operator is the operator.
LEMMA WizCardinality == \A S : Wiz!Cardinality(S) = Cardinality(S)
BY DEF Wiz!Cardinality, Cardinality

\* The place of an uploaded file among those that arrived is a place in the batch.
LEMMA WizRank ==
  ASSUME NEW m \in Nat, NEW sent \in SUBSET (1..m), NEW i \in sent
  PROVE  Wiz!Rank(sent, i) \in 1..m
<1> DEFINE S == {j \in sent : j <= i}
<1>1. IsFiniteSet(1..m) /\ Cardinality(1..m) = m
  BY m \in Int, 1 \in Int, FS_Interval
<1>0. i \in Nat /\ i <= i
  OBVIOUS
<1>2. S \subseteq 1..m /\ i \in S
  BY <1>0
<1>r. Wiz!Rank(sent, i) = Cardinality(S)
  BY WizCardinality DEF Wiz!Rank
<1> HIDE DEF S
<1>3. IsFiniteSet(S) /\ Cardinality(S) <= m
  BY <1>1, <1>2, FS_Subset
<1>4. Cardinality(S) \in Nat
  BY <1>3, FS_CardinalityType
<1>5. Cardinality(S) # 0
  BY <1>2, <1>3, FS_EmptySet
<1> QED
  BY <1>r, <1>3, <1>4, <1>5

\* An upload's photos are photos of its listing, among those that arrived: a thumbnail
\* may belong to another file, an asset does not.
LEMMA WizNewUploaded ==
  ASSUME NEW u, NEW sent, u.listing \in Wiz!Listings, MaxFiles \in Nat,
         u.files \in Wiz!BoundedSeq(Photos, MaxFiles), sent \subseteq DOMAIN u.files
  PROVE  /\ Wiz!NewUploaded(u, sent) \subseteq Wiz!Shots
         /\ \A x \in Wiz!NewUploaded(u, sent) :
              x.asset[1] = u.listing /\ x.asset[2] \in {u.files[i] : i \in sent}
<1>1. PICK m \in 0..MaxFiles : u.files \in [1..m -> Photos]
  BY DEF Wiz!BoundedSeq, Wiz!SeqOf
<1>2. m \in Nat /\ sent \in SUBSET (1..m)
  BY <1>1
<1>3. \A i \in sent : u.files[i] \in Photos /\ u.files[Wiz!Rank(sent, i)] \in Photos
  BY <1>1, <1>2, WizRank
<1>4. \A i \in sent : <<u.listing, u.files[i]>> \in Wiz!Asset
  BY <1>3 DEF Wiz!Asset
<1> QED
  BY <1>3, <1>4 DEF Wiz!NewUploaded, Wiz!Shots

\* The files that arrived are photos.
LEMMA WizFiles ==
  ASSUME NEW u, NEW sent, u.files \in Wiz!BoundedSeq(Photos, MaxFiles), MaxFiles \in Nat,
         sent \subseteq DOMAIN u.files
  PROVE  {u.files[i] : i \in sent} \in SUBSET Photos
BY SMTT(30) DEF Wiz!BoundedSeq, Wiz!SeqOf

\* Every step keeps the types.
LEMMA WizTypesStep ==
  ASSUME Wiz!TypeOK, Wiz!DraftNamed, Wiz!Next
  PROVE  Wiz!TypeOK' /\ Wiz!DraftNamed'
<1> USE FormsAssumption
<1> DEFINE booleans == {v1, v4, v5, v6, v7, v17, v18} \subseteq BOOLEAN
           form == v2 \in Wiz!Forms
           step == v3 \in 1..5
           draft == v9 \in {None} \cup [form : Wiz!Forms, step : 1..5]
           leaving == v8 \in {None} \cup [form : Wiz!Forms, step : 1..5, submitting : BOOLEAN]
           import == [listing : Wiz!Listings, pc : {"job", "assets"}, snap : SUBSET Wiz!Asset,
                      here : BOOLEAN]
           confirm == [listing : Wiz!Listings, staging : SUBSET Wiz!Asset,
                       pc : {"tags", "start", "refresh"}, here : BOOLEAN]
           uploads == v10 \subseteq [listing : Wiz!Listings,
                        files : Wiz!BoundedSeq(Photos, MaxFiles), base : SUBSET Wiz!Shots]
           created == v13 \in 0..MaxListings /\ (v5 => v13 < MaxListings)
           server == /\ v14 \in 0..MaxListings /\ v15 \in [Wiz!Listings -> SUBSET Photos]
                     /\ v16 \subseteq Wiz!Listings
           rest == /\ uploads /\ v11 \subseteq import /\ v12 \subseteq confirm
                   /\ created /\ server
           saved == form /\ step /\ draft /\ leaving /\ Wiz!DraftNamed
<1>0. booleans /\ saved /\ rest
  BY DEF Wiz!TypeOK
<1> SUFFICES booleans' /\ saved' /\ rest'
  BY DEF Wiz!TypeOK
<1>n. Wiz!Next1 \in 1..5 /\ Wiz!Back1 \in 1..5
  BY <1>0, WizNextBack
<1>d. Wiz!drawn \in 1..5 /\ Wiz!props \in Wiz!Forms /\ Wiz!confirming \in BOOLEAN
  BY WizDrawn
<1>p. Wiz!Press => v17' \in BOOLEAN
  BY Zenon DEF Wiz!Press
<1>s. ASSUME NEW f \in Wiz!Forms, NEW s \in 1..5, Wiz!SetForm(f, s)
      PROVE  saved'
  BY <1>s, WizSetForm
<1>u. UNCHANGED <<v2, v3, v8, v9>> => saved'
  BY <1>0 DEF Wiz!DraftNamed
<1> USE DEF Wiz!formVars, Wiz!busyVars, Wiz!requests, Wiz!serverVars
<1> HIDE DEF saved
<1>1. CASE Wiz!handleNext
  <2>1. booleans'
    <3>1. v17' \in BOOLEAN
      BY <1>1, <1>p DEF Wiz!handleNext
    <3>2. v18' \in BOOLEAN
      BY <1>1, Zenon DEF Wiz!handleNext
    <3>3. v5' \in BOOLEAN
      BY <1>0, <1>1 DEF Wiz!handleNext
    <3>. QED
      BY <1>0, <1>1, <3>1, <3>2, <3>3 DEF Wiz!handleNext
  <2>2. rest'
    <3>1. created'
      <4>1. CASE Wiz!props.listing # None
        BY <1>0, <1>1, <4>1 DEF Wiz!handleNext
      <4>2. CASE Wiz!props.listing = None
        BY <1>0, <1>1, <4>2 DEF Wiz!handleNext
      <4>. QED
        BY <4>1, <4>2
    <3>. QED
      BY <1>0, <1>1, <3>1 DEF Wiz!handleNext
  <2>3. saved'
    <3>1. CASE Wiz!props.listing # None
      <4>1. v2 \in Wiz!Forms /\ Wiz!SetForm(v2, Wiz!Next1)
        BY <1>0, <1>1, <3>1 DEF Wiz!handleNext, saved
      <4>. QED
        BY <1>n, <1>s, <4>1
    <3>2. CASE Wiz!props.listing = None
      BY <1>u, <1>1, <3>2 DEF Wiz!handleNext
    <3>. QED
      BY <3>1, <3>2
  <2>. QED
    BY <2>1, <2>2, <2>3
<1>2. CASE Wiz!ExitEnds
  <2>1. booleans'
    <3>1. v5' \in BOOLEAN
      BY <1>0, <1>2 DEF Wiz!ExitEnds
    <3>. QED
      BY <1>0, <1>2, <3>1 DEF Wiz!ExitEnds
  <2>2. rest'
    <3>1. created'
      <4>1. CASE v8.step = 1
        <5>1. v5' = FALSE /\ v13' = (IF v5 THEN v13 + 1 ELSE v13)
          BY <1>2, <4>1 DEF Wiz!ExitEnds
        <5>2. CASE v5
          BY <1>0, <5>1, <5>2
        <5>3. CASE ~v5
          BY <1>0, <5>1, <5>3
        <5>. QED
          BY <5>2, <5>3
      <4>2. CASE v8.step # 1
        BY <1>0, <1>2, <4>2 DEF Wiz!ExitEnds
      <4>. QED
        BY <4>1, <4>2
    <3>2. \A m \in v11 : [m EXCEPT !.here = FALSE] \in import
      BY <1>0
    <3>3. v11' = v11 \/ v11' = {[m EXCEPT !.here = FALSE] : m \in v11}
      BY <1>2 DEF Wiz!ExitEnds
    <3>4. v11' \subseteq import
      BY <1>0, <3>2, <3>3
    <3>. QED
      BY <1>0, <1>2, <3>1, <3>4 DEF Wiz!ExitEnds
  <2>3. saved'
    BY <1>0, <1>2 DEF Wiz!ExitEnds, saved, Wiz!DraftNamed
  <2>. QED
    BY <2>1, <2>2, <2>3
<1>3. ASSUME NEW here \in BOOLEAN, Wiz!Created(here)
      PROVE  booleans' /\ saved' /\ rest'
  <2>1. booleans'
    <3>1. v5' \in BOOLEAN
      BY <1>0, <1>3 DEF Wiz!Created, Wiz!Answered
    <3>. QED
      BY <1>0, <1>3, <3>1 DEF Wiz!Created
  <2>2. rest'
    <3>1. created'
      <4>1. CASE here
        BY <1>0, <1>3, <4>1 DEF Wiz!Created, Wiz!Answered
      <4>2. CASE ~here
        BY <1>0, <1>3, <4>2 DEF Wiz!Created, Wiz!Answered
      <4>. QED
        BY <4>1, <4>2
    <3>2. v14' \in 0..MaxListings
      BY <1>0, <1>3 DEF Wiz!Created
    <3>. QED
      BY <1>0, <1>3, <3>1, <3>2 DEF Wiz!Created
  <2>3. saved'
    <3>0. v14' \in Wiz!Listings
      BY <1>0, <1>3 DEF Wiz!Created, Wiz!Listings
    <3> DEFINE f == [v2 EXCEPT !.listing = v14']
    <3>1. f \in Wiz!Forms
      BY <1>0, <3>0 DEF Wiz!Forms, saved
    <3>2. Wiz!SetForm(f, Wiz!Next1)
      BY <1>3 DEF Wiz!Created
    <3> HIDE DEF f
    <3> QED
      BY <1>n, <1>s, <3>1, <3>2
  <2>. QED
    BY <2>1, <2>2, <2>3
<1>4. ASSUME NEW here \in BOOLEAN, NEW reached \in BOOLEAN, Wiz!CreateFailed(here, reached)
      PROVE  booleans' /\ saved' /\ rest'
  <2>1. booleans'
    <3>1. v5' \in BOOLEAN
      BY <1>0, <1>4 DEF Wiz!CreateFailed, Wiz!Answered
    <3>. QED
      BY <1>0, <1>4, <3>1 DEF Wiz!CreateFailed
  <2>2. rest'
    <3>1. created'
      <4>1. CASE here
        BY <1>0, <1>4, <4>1 DEF Wiz!CreateFailed, Wiz!Answered
      <4>2. CASE ~here
        BY <1>0, <1>4, <4>2 DEF Wiz!CreateFailed, Wiz!Answered
      <4>. QED
        BY <4>1, <4>2
    <3>2. v14' \in 0..MaxListings
      BY <1>0, <1>4 DEF Wiz!CreateFailed
    <3>. QED
      BY <1>0, <1>4, <3>1, <3>2 DEF Wiz!CreateFailed
  <2>3. saved'
    BY <1>u, <1>4 DEF Wiz!CreateFailed
  <2>. QED
    BY <2>1, <2>2, <2>3
<1>5. CASE Wiz!goNext
  <2>1. booleans'
    <3>1. v17' \in BOOLEAN
      BY <1>5, <1>p DEF Wiz!goNext
    <3>. QED
      BY <1>0, <1>5, <3>1 DEF Wiz!goNext
  <2>2. rest'
    BY <1>0, <1>5 DEF Wiz!goNext
  <2>3. saved'
    <3>1. v2 \in Wiz!Forms /\ Wiz!SetForm(v2, Wiz!Next1)
      BY <1>0, <1>5 DEF Wiz!goNext, saved
    <3>. QED
      BY <1>n, <1>s, <3>1
  <2>. QED
    BY <2>1, <2>2, <2>3
<1>6. CASE Wiz!goBack
  <2>1. booleans'
    <3>1. v17' \in BOOLEAN
      BY <1>6, <1>p DEF Wiz!goBack
    <3>. QED
      BY <1>0, <1>6, <3>1 DEF Wiz!goBack
  <2>2. rest'
    BY <1>0, <1>6 DEF Wiz!goBack
  <2>3. saved'
    <3>1. v2 \in Wiz!Forms /\ Wiz!SetForm(v2, Wiz!Back1)
      BY <1>0, <1>6 DEF Wiz!goBack, saved
    <3>. QED
      BY <1>n, <1>s, <3>1
  <2>. QED
    BY <2>1, <2>2, <2>3
<1>7. ASSUME NEW files \in Wiz!BoundedSeq(Photos, MaxFiles), Wiz!handleUpload(files)
      PROVE  booleans' /\ saved' /\ rest'
  <2>1. booleans'
    <3>1. v17' \in BOOLEAN
      BY <1>7, <1>p DEF Wiz!handleUpload
    <3>. QED
      BY <1>0, <1>7, <3>1 DEF Wiz!handleUpload
  <2>2. rest'
    <3>1. Wiz!props.listing \in Wiz!Listings /\ Wiz!props.photos \in SUBSET Wiz!Shots
      BY <1>d, <1>7 DEF Wiz!handleUpload, Wiz!PendingFiles, Wiz!Forms
    <3>2. uploads'
      BY <1>0, <1>7, <3>1 DEF Wiz!handleUpload
    <3> QED
      BY <1>0, <1>7, <3>2 DEF Wiz!handleUpload
  <2>3. saved'
    BY <1>u, <1>7 DEF Wiz!handleUpload
  <2>. QED
    BY <2>1, <2>2, <2>3
<1>8. ASSUME NEW u \in v10, NEW sent \in SUBSET (1..MaxFiles), Wiz!Uploaded(u, sent)
      PROVE  booleans' /\ saved' /\ rest'
  <2>1. booleans'
    BY <1>0, <1>8 DEF Wiz!Uploaded
  <2>2. rest'
    <3>1. {u.files[i] : i \in sent} \in SUBSET Photos
      BY <1>0, <1>8, WizFiles DEF Wiz!Uploaded, Wiz!Registered
    <3> QED
      BY <1>0, <1>8, <3>1 DEF Wiz!Uploaded, Wiz!Registered
  <2>3. saved'
    <3> DEFINE f == [v2 EXCEPT !.photos = u.base \cup Wiz!NewUploaded(u, sent)]
    <3>1. u.base \cup Wiz!NewUploaded(u, sent) \in SUBSET Wiz!Shots
      BY <1>0, <1>8, WizNewUploaded DEF Wiz!Uploaded, Wiz!Registered
    <3>2. f \in Wiz!Forms
      BY <1>0, <3>1 DEF Wiz!Forms, saved
    <3>3. Wiz!SetForm(f, v3) /\ v3 \in 1..5
      BY <1>0, <1>8 DEF Wiz!Uploaded, saved
    <3> HIDE DEF f
    <3> QED
      BY <1>s, <3>2, <3>3
  <2>. QED
    BY <2>1, <2>2, <2>3
<1>9. ASSUME NEW u \in v10, NEW sent \in SUBSET (1..MaxFiles), Wiz!UploadFailed(u, sent)
      PROVE  booleans' /\ saved' /\ rest'
  <2>1. booleans'
    BY <1>0, <1>9 DEF Wiz!UploadFailed
  <2>2. rest'
    <3>1. {u.files[i] : i \in sent} \in SUBSET Photos
      BY <1>0, <1>9, WizFiles DEF Wiz!UploadFailed, Wiz!Registered
    <3> QED
      BY <1>0, <1>9, <3>1 DEF Wiz!UploadFailed, Wiz!Registered
  <2>3. saved'
    BY <1>u, <1>9 DEF Wiz!UploadFailed
  <2>. QED
    BY <2>1, <2>2, <2>3
<1>10. CASE Wiz!handleImportLink
  <2>1. booleans'
    <3>1. v17' \in BOOLEAN
      BY <1>10, <1>p DEF Wiz!handleImportLink
    <3>. QED
      BY <1>0, <1>10, <3>1 DEF Wiz!handleImportLink
  <2>2. rest'
    <3>1. Wiz!props.listing \in Wiz!Listings
      BY <1>d, <1>10 DEF Wiz!handleImportLink, Wiz!ImportBox, Wiz!Forms
    <3> DEFINE new == [listing |-> Wiz!props.listing, pc |-> "job", snap |-> {}, here |-> TRUE]
    <3>2. new \in import
      BY <3>1
    <3>3. v11' = v11 \cup {new}
      BY <1>10 DEF Wiz!handleImportLink
    <3>4. v11' \subseteq import
      BY <1>0, <3>2, <3>3
    <3> HIDE DEF new
    <3> QED
      BY <1>0, <1>10, <3>4 DEF Wiz!handleImportLink
  <2>3. saved'
    BY <1>u, <1>10 DEF Wiz!handleImportLink
  <2>. QED
    BY <2>1, <2>2, <2>3
<1>11. ASSUME NEW m \in v11, NEW new \in SUBSET Photos, Wiz!ImportCompleted(m, new)
       PROVE  booleans' /\ saved' /\ rest'
  <2>1. booleans'
    BY <1>0, <1>11 DEF Wiz!ImportCompleted
  <2>2. rest'
    <3>1. v15' \in [Wiz!Listings -> SUBSET Photos] /\ m.listing \in Wiz!Listings
      BY <1>0, <1>11 DEF Wiz!ImportCompleted
    <3> DEFINE s == {m.listing} \X v15'[m.listing]
    <3>2. s \in SUBSET Wiz!Asset
      BY <3>1 DEF Wiz!Asset
    <3> HIDE DEF s
    <3>3. [m EXCEPT !.pc = "assets", !.here = FALSE, !.snap = s] \in import
      BY <1>0, <3>2
    <3>4. v11' \subseteq import
      BY <1>0, <1>11, <3>3 DEF Wiz!ImportCompleted, s
    <3> QED
      BY <1>0, <1>11, <3>1, <3>4 DEF Wiz!ImportCompleted
  <2>3. saved'
    BY <1>u, <1>11 DEF Wiz!ImportCompleted
  <2>. QED
    BY <2>1, <2>2, <2>3
<1>12. ASSUME NEW m \in v11, Wiz!ImportShown(m)
       PROVE  booleans' /\ saved' /\ rest'
  <2>1. booleans'
    BY <1>0, <1>12 DEF Wiz!ImportShown
  <2>2. rest'
    BY <1>0, <1>12 DEF Wiz!ImportShown
  <2>3. saved'
    <3> DEFINE f == [v2 EXCEPT !.photos = {[asset |-> a, thumb |-> a[2]] : a \in m.snap}]
    <3>1. {[asset |-> a, thumb |-> a[2]] : a \in m.snap} \in SUBSET Wiz!Shots
      BY <1>0, <1>12 DEF Wiz!Shots, Wiz!Asset
    <3>2. f \in Wiz!Forms
      BY <1>0, <3>1 DEF Wiz!Forms, saved
    <3>3. Wiz!SetForm(f, v3) /\ v3 \in 1..5
      BY <1>0, <1>12 DEF Wiz!ImportShown, saved
    <3> HIDE DEF f
    <3> QED
      BY <1>s, <3>2, <3>3
  <2>. QED
    BY <2>1, <2>2, <2>3
<1>13. ASSUME NEW m \in v11, Wiz!ImportFailed(m)
       PROVE  booleans' /\ saved' /\ rest'
  <2>1. booleans'
    BY <1>0, <1>13 DEF Wiz!ImportFailed
  <2>2. rest'
    BY <1>0, <1>13 DEF Wiz!ImportFailed
  <2>3. saved'
    BY <1>u, <1>13 DEF Wiz!ImportFailed
  <2>. QED
    BY <2>1, <2>2, <2>3
<1>14. ASSUME NEW a \in Wiz!Asset, Wiz!toggleAsset(a)
       PROVE  booleans' /\ saved' /\ rest'
  <2>1. booleans'
    <3>1. v17' \in BOOLEAN
      BY <1>14, <1>p DEF Wiz!toggleAsset
    <3>. QED
      BY <1>0, <1>14, <3>1 DEF Wiz!toggleAsset
  <2>2. rest'
    BY <1>0, <1>14 DEF Wiz!toggleAsset
  <2>3. saved'
    <3> DEFINE ids == Wiz!props.staging
               new == IF a \in ids THEN ids \ {a} ELSE ids \cup {a}
               f == [v2 EXCEPT !.staging = new]
    <3>1. new \in SUBSET Wiz!Asset
      BY <1>d DEF Wiz!Forms
    <3>2. Wiz!SetForm(f, v3) /\ v3 \in 1..5
      BY <1>0, <1>14 DEF Wiz!toggleAsset, saved
    <3> HIDE DEF new
    <3>3. f \in Wiz!Forms
      BY <1>0, <3>1 DEF Wiz!Forms, saved
    <3> HIDE DEF f
    <3> QED
      BY <1>s, <3>2, <3>3
  <2>. QED
    BY <2>1, <2>2, <2>3
<1>15. CASE Wiz!handleSkip
  <2>1. booleans'
    <3>1. v17' \in BOOLEAN
      BY <1>15, <1>p DEF Wiz!handleSkip
    <3>. QED
      BY <1>0, <1>15, <3>1 DEF Wiz!handleSkip
  <2>2. rest'
    BY <1>0, <1>15 DEF Wiz!handleSkip
  <2>3. saved'
    <3> DEFINE f == [v2 EXCEPT !.staging = {}]
    <3>1. f \in Wiz!Forms
      BY <1>0 DEF Wiz!Forms, saved
    <3>2. Wiz!SetForm(f, Wiz!Next1)
      BY <1>15 DEF Wiz!handleSkip
    <3> HIDE DEF f
    <3> QED
      BY <1>n, <1>s, <3>1, <3>2
  <2>. QED
    BY <2>1, <2>2, <2>3
<1>16. CASE Wiz!handleConfirm
  <2>1. booleans'
    <3>1. v17' \in BOOLEAN
      BY <1>16, Zenon DEF Wiz!handleConfirm
    <3>. QED
      BY <1>0, <1>16, <3>1 DEF Wiz!handleConfirm
  <2>2. rest'
    <3>1. Wiz!props.listing \in Wiz!Listings /\ Wiz!props.staging \in SUBSET Wiz!Asset
      BY <1>d, <1>16 DEF Wiz!handleConfirm, Wiz!Forms
    <3>2. [listing |-> Wiz!props.listing, staging |-> Wiz!props.staging, here |-> TRUE,
           pc |-> IF Wiz!props.staging # {} THEN "tags" ELSE "start"] \in confirm
      BY <3>1
    <3>3. v12' \subseteq confirm
      BY <1>0, <1>16, <3>2 DEF Wiz!handleConfirm
    <3> QED
      BY <1>0, <1>16, <3>3 DEF Wiz!handleConfirm
  <2>3. saved'
    BY <1>u, <1>16 DEF Wiz!handleConfirm
  <2>. QED
    BY <2>1, <2>2, <2>3
<1>17. ASSUME NEW c \in v12, Wiz!Tagged(c)
       PROVE  booleans' /\ saved' /\ rest'
  <2>1. booleans'
    BY <1>0, <1>17 DEF Wiz!Tagged, Wiz!Advance
  <2>2. rest'
    <3>1. [c EXCEPT !.pc = "start"] \in confirm
      BY <1>0
    <3>2. v12' \subseteq confirm
      BY <1>0, <1>17, <3>1 DEF Wiz!Tagged, Wiz!Advance
    <3> QED
      BY <1>0, <1>17, <3>2 DEF Wiz!Tagged, Wiz!Advance
  <2>3. saved'
    BY <1>u, <1>17 DEF Wiz!Tagged, Wiz!Advance
  <2>. QED
    BY <2>1, <2>2, <2>3
<1>18. ASSUME NEW c \in v12, Wiz!Started(c)
       PROVE  booleans' /\ saved' /\ rest'
  <2>1. booleans'
    BY <1>0, <1>18 DEF Wiz!Started, Wiz!Advance
  <2>2. rest'
    <3>1. [c EXCEPT !.pc = "refresh"] \in confirm
      BY <1>0
    <3>2. v12' \subseteq confirm
      BY <1>0, <1>18, <3>1 DEF Wiz!Started, Wiz!Advance
    <3> QED
      BY <1>0, <1>18, <3>2 DEF Wiz!Started, Wiz!Advance
  <2>3. saved'
    BY <1>u, <1>18 DEF Wiz!Started, Wiz!Advance
  <2>. QED
    BY <2>1, <2>2, <2>3
<1>19. ASSUME NEW c \in v12, Wiz!ConfirmDone(c)
       PROVE  booleans' /\ saved' /\ rest'
  <2>1. booleans'
    <3>1. v4' \in BOOLEAN
      BY <1>19, Zenon DEF Wiz!ConfirmDone, Wiz!Finish
    <3>. QED
      BY <1>0, <1>19, <3>1 DEF Wiz!ConfirmDone, Wiz!Finish
  <2>2. rest'
    BY <1>0, <1>19 DEF Wiz!ConfirmDone, Wiz!Finish
  <2>3. saved'
    BY <1>0, <1>19 DEF Wiz!ConfirmDone, saved, Wiz!DraftNamed
  <2>. QED
    BY <2>1, <2>2, <2>3
<1>20. ASSUME NEW c \in v12, NEW status \in {402, 500}, NEW reached \in BOOLEAN,
              Wiz!ConfirmFailed(c, status, reached)
       PROVE  booleans' /\ saved' /\ rest'
  <2>1. booleans'
    <3>1. v4' \in BOOLEAN /\ v6' \in BOOLEAN
      BY <1>20, Zenon DEF Wiz!ConfirmFailed, Wiz!Finish
    <3>. QED
      BY <1>0, <1>20, <3>1 DEF Wiz!ConfirmFailed, Wiz!Finish
  <2>2. rest'
    BY <1>0, <1>20 DEF Wiz!ConfirmFailed, Wiz!Finish
  <2>3. saved'
    BY <1>u, <1>20 DEF Wiz!ConfirmFailed, Wiz!Finish
  <2>. QED
    BY <2>1, <2>2, <2>3
<1>21. CASE Wiz!KeepEditing
  <2>1. booleans'
    BY <1>0, <1>21 DEF Wiz!KeepEditing
  <2>2. rest'
    BY <1>0, <1>21 DEF Wiz!KeepEditing
  <2>3. saved'
    BY <1>u, <1>21 DEF Wiz!KeepEditing
  <2>. QED
    BY <2>1, <2>2, <2>3
<1>22. CASE Wiz!handleStartOver
  <2>1. booleans'
    <3>1. v17' \in BOOLEAN
      BY <1>22, Zenon DEF Wiz!handleStartOver
    <3>. QED
      BY <1>0, <1>22, <3>1 DEF Wiz!handleStartOver
  <2>2. rest'
    BY <1>0, <1>22 DEF Wiz!handleStartOver
  <2>3. saved'
    <3>1. form' /\ step' /\ draft' /\ Wiz!DraftNamed'
      BY <1>22 DEF Wiz!handleStartOver, Wiz!INITIAL_FORM_DATA, Wiz!Forms, Wiz!DraftNamed
    <3>2. v8' = None \/ v8' = [form |-> Wiz!props, step |-> Wiz!drawn,
                                submitting |-> Wiz!confirming]
      BY <1>22 DEF Wiz!handleStartOver
    <3>3. leaving'
      BY <1>d, <3>2
    <3>. QED
      BY <3>1, <3>3 DEF saved
  <2>. QED
    BY <2>1, <2>2, <2>3
<1>23. ASSUME NEW reload \in BOOLEAN, Wiz!Leave(reload)
       PROVE  booleans' /\ saved' /\ rest'
  <2>1. booleans'
    BY <1>0, <1>23 DEF Wiz!Leave
  <2>2. rest'
    <3>1. \A c \in v12 : [c EXCEPT !.here = FALSE] \in confirm
      BY <1>0
    <3>2. v12' \subseteq confirm
      BY <1>23, <3>1 DEF Wiz!Leave
    <3>3. 0 \in 0..MaxListings
      OBVIOUS
    <3> QED
      BY <1>0, <1>23, <3>2, <3>3 DEF Wiz!Leave
  <2>3. saved'
    BY <1>0, <1>23 DEF Wiz!Leave, Wiz!INITIAL_FORM_DATA, Wiz!Forms, saved, Wiz!DraftNamed
  <2>. QED
    BY <2>1, <2>2, <2>3
<1>24. CASE Wiz!Open
  <2>1. booleans'
    BY <1>0, <1>24 DEF Wiz!Open
  <2>2. rest'
    BY <1>0, <1>24 DEF Wiz!Open
  <2>3. saved'
    BY <1>0, <1>24 DEF Wiz!Open, saved, Wiz!DraftNamed
  <2>. QED
    BY <2>1, <2>2, <2>3
<1> HIDE DEF booleans, rest
<1> QED
  BY <1>1, <1>2, <1>3, <1>4, <1>5, <1>6, <1>7, <1>8, <1>9, <1>10, <1>11, <1>12, <1>13,
     <1>14, <1>15, <1>16, <1>17, <1>18, <1>19, <1>20, <1>21, <1>22, <1>23, <1>24 DEF
     Wiz!Next, Wiz!ConfirmAnswer

\* What it is to be grounded in the photos A of the listings, where h says of the first
\* step's Next that it was pressed again.
OfAt(A, l, as) == as \subseteq {a \in Wiz!Asset : a[1] = l /\ a[2] \in A[l]}

GroundedAt(A, h, f, s) ==
  /\ s >= 2 => f.listing # None
  /\ \A x \in f.photos : OfAt(A, f.listing, {x.asset})
  /\ OfAt(A, f.listing, f.staging)
  /\ s >= 3 => (h \/ A[f.listing] # {})

\* The form, the draft and the step that is leaving are grounded.
OnPage ==
  /\ Wiz!Grounded(v2, v3)
  /\ v9 # None => Wiz!Grounded(v9.form, v9.step)
  /\ Wiz!GroundedLeaving

\* Photos are added and never taken away, and what is grounded stays so.
Grows == /\ \A l \in Wiz!Listings : v15[l] \subseteq v15'[l]
         /\ v18 => v18'

LEMMA WizGrows ==
  ASSUME NEW A \in [Wiz!Listings -> SUBSET Photos], NEW B \in [Wiz!Listings -> SUBSET Photos],
         \A l \in Wiz!Listings : A[l] \subseteq B[l], NEW h, NEW k, h => k
  PROVE  /\ \A l, as : OfAt(A, l, as) => OfAt(B, l, as)
         /\ \A f \in Wiz!Forms, s \in 1..5 : GroundedAt(A, h, f, s) => GroundedAt(B, k, f, s)
<1>1. ASSUME NEW l, NEW as, OfAt(A, l, as)
      PROVE  OfAt(B, l, as)
  <2>1. \A a \in Wiz!Asset : a[1] \in Wiz!Listings
    BY DEF Wiz!Asset
  <2>. QED
    BY <1>1, <2>1 DEF OfAt
<1>2. ASSUME NEW f \in Wiz!Forms, NEW s \in 1..5, GroundedAt(A, h, f, s)
      PROVE  GroundedAt(B, k, f, s)
  <2>1. /\ s >= 2 => f.listing # None
        /\ \A x \in f.photos : OfAt(B, f.listing, {x.asset})
        /\ OfAt(B, f.listing, f.staging)
    BY <1>1, <1>2 DEF GroundedAt
  <2>2. ASSUME s >= 3
        PROVE  k \/ B[f.listing] # {}
    <3>1. f.listing \in Wiz!Listings
      BY <2>1, <2>2 DEF Wiz!Forms
    <3>2. h \/ A[f.listing] # {}
      BY <1>2, <2>2 DEF GroundedAt
    <3>. QED
      BY <3>1, <3>2
  <2>. QED
    BY <2>1, <2>2 DEF GroundedAt
<1>. QED
  BY <1>1, <1>2

\* A form that is changed on its page, at a step where it is grounded, leaves what is on
\* the page grounded: what is kept of the step it leaves is what that step showed.
LEMMA WizFormKept ==
  ASSUME Wiz!TypeOK, Wiz!TypeOK', OnPage, Grows,
         NEW f \in Wiz!Forms, NEW s \in 1..5, Wiz!SetForm(f, s), f.listing = v2.listing,
         GroundedAt(v15', v18', f, s)
  PROVE  OnPage'
<1>1. v2' = f /\ v3' = s /\ (v9' = v9 \/ v9' = [form |-> f, step |-> s])
  BY DEF Wiz!SetForm
<1>t. /\ v15 \in [Wiz!Listings -> SUBSET Photos] /\ v15' \in [Wiz!Listings -> SUBSET Photos]
      /\ Wiz!drawn \in 1..5 /\ Wiz!props \in Wiz!Forms
      /\ v9 # None => v9 \in [form : Wiz!Forms, step : 1..5]
  BY WizDrawn DEF Wiz!TypeOK
<1>2. \A g \in Wiz!Forms, r \in 1..5 :
         GroundedAt(v15, v18, g, r) => GroundedAt(v15', v18', g, r)
  BY <1>t, WizGrows DEF Grows
<1>3. Wiz!Grounded(v2, v3)'
  BY <1>1 DEF Wiz!Grounded, Wiz!OfListing, GroundedAt, OfAt
<1>4. (v9 # None => Wiz!Grounded(v9.form, v9.step))'
  <2>1. CASE v9' = v9
    <3>1. v9 # None => GroundedAt(v15, v18, v9.form, v9.step)
      BY DEF OnPage, Wiz!Grounded, Wiz!OfListing, GroundedAt, OfAt
    <3>2. v9' # None => GroundedAt(v15', v18', v9'.form, v9'.step)
      BY <1>t, <1>2, <2>1, <3>1
    <3>. QED
      BY <3>2 DEF Wiz!Grounded, Wiz!OfListing, GroundedAt, OfAt
  <2>2. CASE v9' = [form |-> f, step |-> s]
    BY <2>2 DEF Wiz!Grounded, Wiz!OfListing, GroundedAt, OfAt
  <2>. QED
    BY <1>1, <2>1, <2>2
<1>5. Wiz!GroundedLeaving'
  <2>. SUFFICES ASSUME v8' # None
                PROVE  /\ v8'.step # s
                       /\ v8'.step >= 2 => v8'.form.listing # None
                       /\ v8'.form.listing = f.listing
                            => GroundedAt(v15', v18', v8'.form, v8'.step)
    BY <1>1 DEF Wiz!GroundedLeaving, Wiz!Grounded, Wiz!OfListing, GroundedAt, OfAt
  <2>1. v8'.step = Wiz!drawn /\ v8'.form = Wiz!props /\ s # Wiz!drawn
    BY DEF Wiz!SetForm
  <2>2. CASE v8 = None
    <3>1. Wiz!drawn = v3 /\ Wiz!props = v2
      BY <2>2, WizDrawn
    <3>2. GroundedAt(v15, v18, v2, v3)
      BY DEF OnPage, Wiz!Grounded, Wiz!OfListing, GroundedAt, OfAt
    <3>3. GroundedAt(v15', v18', Wiz!props, Wiz!drawn) /\ (v3 >= 2 => v2.listing # None)
      BY <1>t, <1>2, <3>1, <3>2 DEF GroundedAt
    <3>. QED
      BY <2>1, <3>1, <3>3
  <2>3. CASE v8 # None
    <3>1. Wiz!drawn = v8.step /\ Wiz!props = v8.form
      BY <2>3, WizDrawn
    <3>2. /\ v8.step >= 2 => v8.form.listing # None
          /\ v8.form.listing = v2.listing => GroundedAt(v15, v18, v8.form, v8.step)
      BY <2>3 DEF OnPage, Wiz!GroundedLeaving, Wiz!Grounded, Wiz!OfListing, GroundedAt, OfAt
    <3>3. v8.form.listing = v2.listing => GroundedAt(v15', v18', Wiz!props, Wiz!drawn)
      BY <1>t, <1>2, <3>1, <3>2
    <3>. QED
      BY <2>1, <3>1, <3>2, <3>3
  <2>. QED
    BY <2>2, <2>3
<1>. QED
  BY <1>3, <1>4, <1>5 DEF OnPage

\* And so does what leaves the form alone, or only ends the animation or forgets the draft.
LEMMA WizFormSame ==
  ASSUME Wiz!TypeOK, Wiz!TypeOK', OnPage, Grows,
         UNCHANGED <<v2, v3>>, v8' = v8 \/ v8' = None, v9' = v9 \/ v9' = None
  PROVE  OnPage'
<1>t. /\ v15 \in [Wiz!Listings -> SUBSET Photos] /\ v15' \in [Wiz!Listings -> SUBSET Photos]
      /\ v2 \in Wiz!Forms /\ v3 \in 1..5
      /\ v9 # None => v9 \in [form : Wiz!Forms, step : 1..5]
      /\ v8 # None => v8 \in [form : Wiz!Forms, step : 1..5, submitting : BOOLEAN]
  BY DEF Wiz!TypeOK
<1>2. \A g \in Wiz!Forms, r \in 1..5 :
         GroundedAt(v15, v18, g, r) => GroundedAt(v15', v18', g, r)
  BY <1>t, WizGrows DEF Grows
<1>3. Wiz!Grounded(v2, v3)'
  <2>1. GroundedAt(v15, v18, v2, v3)
    BY DEF OnPage, Wiz!Grounded, Wiz!OfListing, GroundedAt, OfAt
  <2>2. GroundedAt(v15', v18', v2', v3')
    BY <1>t, <1>2, <2>1
  <2>. QED
    BY <2>2 DEF Wiz!Grounded, Wiz!OfListing, GroundedAt, OfAt
<1>4. (v9 # None => Wiz!Grounded(v9.form, v9.step))'
  <2>1. v9 # None => GroundedAt(v15, v18, v9.form, v9.step)
    BY DEF OnPage, Wiz!Grounded, Wiz!OfListing, GroundedAt, OfAt
  <2>2. v9' # None => GroundedAt(v15', v18', v9'.form, v9'.step)
    BY <1>t, <1>2, <2>1
  <2>. QED
    BY <2>2 DEF Wiz!Grounded, Wiz!OfListing, GroundedAt, OfAt
<1>5. Wiz!GroundedLeaving'
  <2>1. v8 # None =>
          /\ v8.step # v3 /\ (v8.step >= 2 => v8.form.listing # None)
          /\ v8.form.listing = v2.listing => GroundedAt(v15, v18, v8.form, v8.step)
    BY DEF OnPage, Wiz!GroundedLeaving, Wiz!Grounded, Wiz!OfListing, GroundedAt, OfAt
  <2>2. v8' # None =>
          /\ v8'.step # v3' /\ (v8'.step >= 2 => v8'.form.listing # None)
          /\ v8'.form.listing = v2'.listing => GroundedAt(v15', v18', v8'.form, v8'.step)
    BY <1>t, <1>2, <2>1
  <2>. QED
    BY <2>2 DEF Wiz!GroundedLeaving, Wiz!Grounded, Wiz!OfListing, GroundedAt, OfAt
<1>. QED
  BY <1>3, <1>4, <1>5 DEF OnPage

\* The requests: those there were, while the form keeps its listing, and new ones of it.
LEMMA WizRequestsKept ==
  ASSUME Wiz!TypeOK, Wiz!TypeOK', ~v17, Wiz!GroundedRequests, Grows, v2'.listing = v2.listing,
         \A u \in v10' : \/ u \in v10
                         \/ /\ u.listing = v2.listing
                            /\ \A x \in u.base : OfAt(v15', u.listing, {x.asset}),
         \A m \in v11' : \/ \E n \in v11 : m.listing = n.listing /\ m.snap = n.snap
                         \/ m.listing = v2.listing /\ OfAt(v15', m.listing, m.snap),
         \A c \in v12' : \/ \E d \in v12 : c.listing = d.listing /\ c.staging = d.staging
                         \/ /\ OfAt(v15', c.listing, c.staging)
                            /\ v18' \/ v15'[c.listing] # {}
  PROVE  Wiz!GroundedRequests'
<1>t. v15 \in [Wiz!Listings -> SUBSET Photos] /\ v15' \in [Wiz!Listings -> SUBSET Photos]
  BY DEF Wiz!TypeOK
<1>1. \A l, as : OfAt(v15, l, as) => OfAt(v15', l, as)
  BY <1>t, WizGrows DEF Grows
<1>2. ASSUME NEW u \in v10'
      PROVE  u.listing = v2'.listing /\ \A x \in u.base : OfAt(v15', u.listing, {x.asset})
  <2>1. u \in v10 => /\ u.listing = v2.listing
                     /\ \A x \in u.base : OfAt(v15, u.listing, {x.asset})
    BY DEF Wiz!GroundedRequests, Wiz!OfListing, OfAt
  <2>. QED
    BY <1>1, <2>1
<1>3. ASSUME NEW m \in v11'
      PROVE  m.listing = v2'.listing /\ OfAt(v15', m.listing, m.snap)
  <2>1. \A n \in v11 : n.listing = v2.listing /\ OfAt(v15, n.listing, n.snap)
    BY DEF Wiz!GroundedRequests, Wiz!OfListing, OfAt
  <2>. QED
    BY <1>1, <2>1
<1>4. ASSUME NEW c \in v12'
      PROVE  OfAt(v15', c.listing, c.staging) /\ (v18' \/ v15'[c.listing] # {})
  <2>1. \A d \in v12 : OfAt(v15, d.listing, d.staging) /\ (v18 \/ v15[d.listing] # {})
    BY DEF Wiz!GroundedRequests, Wiz!ConfirmedPhotos, Wiz!OfListing, OfAt
  <2>2. \A d \in v12 : d.listing \in Wiz!Listings
    BY DEF Wiz!TypeOK
  <2>3. \A d \in v12 : OfAt(v15', d.listing, d.staging) /\ (v18' \/ v15'[d.listing] # {})
    BY <1>1, <2>1, <2>2 DEF Grows
  <2>. QED
    BY <2>3
<1>. QED
  BY <1>2, <1>3, <1>4 DEF Wiz!GroundedRequests, Wiz!ConfirmedPhotos, Wiz!OfListing, OfAt

\* What the step on screen shows is grounded, when it is of the form's listing.
LEMMA WizProps ==
  ASSUME Wiz!TypeOK, OnPage, Wiz!props.listing = v2.listing
  PROVE  GroundedAt(v15, v18, Wiz!props, Wiz!drawn)
<1>1. CASE v8 = None
  BY <1>1, WizDrawn DEF OnPage, Wiz!Grounded, Wiz!OfListing, GroundedAt, OfAt
<1>2. CASE v8 # None
  BY <1>2, WizDrawn DEF OnPage, Wiz!GroundedLeaving, Wiz!Grounded, Wiz!OfListing, GroundedAt,
     OfAt
<1>. QED
  BY <1>1, <1>2

\* An empty wizard rests on nothing.
LEMMA WizGroundedInit ==
  ASSUME Wiz!Init
  PROVE  Wiz!GroundedInv
<1>1. Wiz!Grounded(v2, v3)
  BY DEF Wiz!Init, Wiz!Grounded, Wiz!OfListing, Wiz!INITIAL_FORM_DATA
<1> QED
  BY <1>1 DEF Wiz!Init, Wiz!GroundedInv, Wiz!GroundedRequests, Wiz!GroundedLeaving,
     Wiz!CreatingOrGone, Wiz!ConfirmedPhotos

\* Every step keeps what the form, the step that is leaving, the draft, the uploads, the
\* imports and the confirmations rest on: photos that the server has of their listing.
LEMMA WizGroundedStep ==
  ASSUME Wiz!TypeOK, Wiz!GroundedInv, Wiz!Next, Wiz!TypeOK'
  PROVE  Wiz!GroundedInv'
<1> SUFFICES ASSUME ~v17'
             PROVE  Wiz!GroundedInv'
  BY DEF Wiz!GroundedInv
<1> DEFINE Goal == OnPage' /\ Wiz!GroundedRequests' /\ Wiz!CreatingOrGone'
<1>g. SUFFICES Goal
  BY DEF Wiz!GroundedInv, OnPage
<1>t. /\ v1 \in BOOLEAN
      /\ v2 \in Wiz!Forms /\ v3 \in 1..5
      /\ \A u \in v10 : u \in [listing : Wiz!Listings,
                   files : Wiz!BoundedSeq(Photos, MaxFiles), base : SUBSET Wiz!Shots]
      /\ \A m \in v11 : m \in [listing : Wiz!Listings, pc : {"job", "assets"},
                                snap : SUBSET Wiz!Asset, here : BOOLEAN]
      /\ \A c \in v12 : c \in [listing : Wiz!Listings, staging : SUBSET Wiz!Asset,
                                pc : {"tags", "start", "refresh"}, here : BOOLEAN]
      /\ v15 \in [Wiz!Listings -> SUBSET Photos]
      /\ v15' \in [Wiz!Listings -> SUBSET Photos]
  BY DEF Wiz!TypeOK
<1>d. Wiz!drawn \in 1..5 /\ Wiz!props \in Wiz!Forms
  BY WizDrawn
<1>n. /\ Wiz!Next1 = (IF v3 = 5 THEN 5 ELSE v3 + 1) /\ Wiz!Next1 \in 1..5
      /\ Wiz!Back1 = (IF v3 = 1 THEN 1 ELSE v3 - 1) /\ Wiz!Back1 \in 1..5
  BY <1>t, WizNextBack
<1>0. ASSUME ~v17
      PROVE  OnPage /\ Wiz!GroundedRequests /\ Wiz!CreatingOrGone
  BY <1>0 DEF Wiz!GroundedInv, OnPage
<1>a. ASSUME ~v17
      PROVE  GroundedAt(v15, v18, v2, v3)
  BY <1>0, <1>a DEF OnPage, Wiz!Grounded, Wiz!OfListing, GroundedAt, OfAt
<1>p. ASSUME Wiz!Press
      PROVE  ~v17 /\ Wiz!props.listing = v2.listing /\ GroundedAt(v15, v18, Wiz!props, Wiz!drawn)
  <2>1. ~v17 /\ Wiz!props.listing = v2.listing
    BY <1>p DEF Wiz!Press
  <2>. QED
    BY <1>0, <2>1, WizProps
<1> USE DEF Wiz!formVars, Wiz!busyVars, Wiz!requests, Wiz!serverVars
\* A click that only changes the form, or leads to another step.
<1>f. ASSUME ~v17, NEW f \in Wiz!Forms, NEW s \in 1..5, Wiz!SetForm(f, s),
             f.listing = v2.listing, GroundedAt(v15, v18, f, s), v1, ~v5,
             UNCHANGED <<v1, v5, v10, v11, v12, v13, v15>>, v18 => v18'
      PROVE  Goal
  <2>1. Grows /\ OnPage /\ Wiz!GroundedRequests /\ Wiz!CreatingOrGone
    BY <1>0, <1>f DEF Grows
  <2>2. GroundedAt(v15', v18', f, s)
    BY <1>f DEF GroundedAt
  <2>3. OnPage'
    BY <1>f, <2>1, <2>2, WizFormKept
  <2>4. v2' = f
    BY <1>f DEF Wiz!SetForm
  <2>5. Wiz!GroundedRequests'
    BY <1>f, <2>1, <2>4, WizRequestsKept
  <2>6. Wiz!CreatingOrGone'
    BY <1>f, <2>1 DEF Wiz!CreatingOrGone
  <2>. QED
    BY <2>3, <2>5, <2>6
\* A step that leaves the form alone, and has only requests there were.
<1>s. ASSUME ~v17, UNCHANGED <<v1, v2, v3, v18>>, v8' = v8 \/ v8' = None,
             v9' = v9 \/ v9' = None, v5' => v5, v13' = v13, Grows,
             v10' \subseteq v10,
             \A m \in v11' : \E n \in v11 : m.listing = n.listing /\ m.snap = n.snap,
             \A c \in v12' : \E d \in v12 : c.listing = d.listing /\ c.staging = d.staging
      PROVE  Goal
  <2>1. OnPage /\ Wiz!GroundedRequests /\ Wiz!CreatingOrGone
    BY <1>0, <1>s
  <2>2. OnPage'
    BY <1>s, <2>1, WizFormSame
  <2>3. Wiz!GroundedRequests'
    BY <1>s, <2>1, WizRequestsKept
  <2>4. v11 = {} => v11' = {}
    BY <1>s
  <2>5. Wiz!CreatingOrGone'
    BY <1>s, <2>1, <2>4 DEF Wiz!CreatingOrGone
  <2>. QED
    BY <2>2, <2>3, <2>5
<1> HIDE DEF Goal
<1>1. CASE Wiz!handleNext
  <2>1. /\ v1 /\ ~v5 /\ Wiz!drawn = 1 /\ Wiz!Press /\ v18' = (v18 \/ v8 # None)
        /\ UNCHANGED <<v1, v10, v11, v12, v13, v15>>
    BY <1>1 DEF Wiz!handleNext, Wiz!DetailsNext, Wiz!Ready
  <2>2. ~v17 /\ Wiz!props.listing = v2.listing
    BY <1>p, <2>1
  <2>3. v8 = None => v3 = 1
    BY <2>1, WizDrawn
  <2>4. CASE Wiz!props.listing # None
    <3>1. Wiz!SetForm(v2, Wiz!Next1) /\ v5' = v5
      BY <1>1, <2>4 DEF Wiz!handleNext
    <3>2. Grows /\ OnPage /\ Wiz!GroundedRequests /\ Wiz!CreatingOrGone
      BY <1>0, <2>1, <2>2 DEF Grows
    <3>3. Wiz!Next1 >= 3 => v18'
      <4>1. CASE v8 = None
        BY <1>n, <2>3, <4>1
      <4>2. CASE v8 # None
        <5>1. v18'
          BY <2>1, <4>2
        <5>. QED
          BY <5>1
      <4>. QED
        BY <4>1, <4>2
    <3>4. GroundedAt(v15', v18', v2, Wiz!Next1)
      BY <1>a, <2>1, <2>2, <2>4, <3>3 DEF GroundedAt
    <3>5. OnPage' /\ v2' = v2
      BY <1>t, <1>n, <3>1, <3>2, <3>4, WizFormKept DEF Wiz!SetForm
    <3>6. Wiz!GroundedRequests'
      BY <2>1, <2>2, <3>2, <3>5, WizRequestsKept
    <3>7. Wiz!CreatingOrGone'
      BY <2>1, <3>1, <3>2 DEF Wiz!CreatingOrGone
    <3>. QED
      BY <3>5, <3>6, <3>7 DEF Goal
  <2>5. CASE Wiz!props.listing = None
    <3>1. UNCHANGED <<v2, v3, v8, v9>>
      BY <1>1, <2>5 DEF Wiz!handleNext
    <3>2. Grows /\ OnPage /\ Wiz!GroundedRequests /\ Wiz!CreatingOrGone
      BY <1>0, <2>1, <2>2 DEF Grows
    <3>3. OnPage'
      BY <3>1, <3>2, WizFormSame
    <3>4. Wiz!GroundedRequests'
      BY <2>1, <2>2, <3>1, <3>2, WizRequestsKept
    <3>5. v3 = 1
      BY <1>a, <1>t, <2>2, <2>5 DEF GroundedAt
    <3>6. v8 = None
      <4>1. v8 # None => Wiz!drawn = v8.step /\ v8.step # v3
        BY <3>2, WizDrawn DEF OnPage, Wiz!GroundedLeaving
      <4>. QED
        BY <2>1, <3>5, <4>1
    <3>7. Wiz!CreatingOrGone'
      BY <2>1, <2>2, <2>5, <3>1, <3>2, <3>5, <3>6 DEF Wiz!CreatingOrGone
    <3>. QED
      BY <3>3, <3>4, <3>7 DEF Goal
  <2>. QED
    BY <2>4, <2>5
<1>2. CASE Wiz!ExitEnds
  <2>1. ~v17 /\ v8 # None /\ v8' = None /\ v9' = v9 /\ Grows
        /\ UNCHANGED <<v1, v2, v3, v10, v12, v18>>
    BY <1>2 DEF Wiz!ExitEnds, Grows
  <2>2. ~v5
    BY <1>0, <2>1 DEF Wiz!CreatingOrGone
  <2>3. (v5' => v5) /\ v13' = v13
    BY <1>2, <2>2 DEF Wiz!ExitEnds
  <2>4. \A m \in v11 : /\ [m EXCEPT !.here = FALSE].listing = m.listing
                       /\ [m EXCEPT !.here = FALSE].snap = m.snap
    BY <1>t
  <2>5. v11' = v11 \/ v11' = {[m EXCEPT !.here = FALSE] : m \in v11}
    BY <1>2 DEF Wiz!ExitEnds
  <2>6. ASSUME NEW m \in v11'
        PROVE  \E n \in v11 : m.listing = n.listing /\ m.snap = n.snap
    <3>1. CASE v11' = v11
      BY <3>1
    <3>2. CASE v11' = {[n EXCEPT !.here = FALSE] : n \in v11}
      <4>1. PICK n \in v11 : m = [n EXCEPT !.here = FALSE]
        BY <3>2
      <4>. QED
        BY <2>4, <4>1
    <3>. QED
      BY <2>5, <3>1, <3>2
  <2>. QED
    BY <1>s, <2>1, <2>3, <2>6
<1>3. ASSUME NEW here \in BOOLEAN, Wiz!Created(here) PROVE Goal
  <2>0. ~v17 /\ OnPage /\ Wiz!GroundedRequests /\ Wiz!CreatingOrGone
    BY <1>0, <1>3 DEF Wiz!Created
  <2>1. here /\ v5 /\ v5' = FALSE /\ v13' = 0
    BY <1>3, <2>0 DEF Wiz!Created, Wiz!Answered, Wiz!CreatingOrGone
  <2>2. v1 /\ v8 = None /\ v2.listing = None /\ v3 = 1
    BY <2>0, <2>1 DEF Wiz!CreatingOrGone
  <2>3. v2.photos = {} /\ v2.staging = {} /\ v10 = {} /\ v11 = {}
    <3>1. \A a \in Wiz!Asset : a[1] # None
      BY FormsAssumption DEF Wiz!Asset, Wiz!Listings
    <3>2. None \notin Wiz!Listings
      BY FormsAssumption DEF Wiz!Listings
    <3>3. v2.photos = {} /\ v2.staging = {}
      BY <2>0, <2>2, <3>1 DEF OnPage, Wiz!Grounded, Wiz!OfListing
    <3>4. v10 = {} /\ v11 = {}
      BY <1>t, <2>0, <2>2, <3>2 DEF Wiz!GroundedRequests
    <3>. QED
      BY <3>3, <3>4
  <2>4. v14' # None
    BY <1>3, FormsAssumption DEF Wiz!Created, Wiz!TypeOK, Wiz!Listings
  <2> DEFINE f == [v2 EXCEPT !.listing = v14']
  <2>5. f.listing = v14' /\ f.photos = {} /\ f.staging = {}
    BY <1>t, <2>3 DEF Wiz!Forms
  <2>6. Wiz!SetForm(f, 2)
    BY <1>3, <1>n, <2>2 DEF Wiz!Created
  <2>7. Wiz!drawn = 1 /\ Wiz!props = v2
    BY <2>2, WizDrawn
  <2> HIDE DEF f
  <2>8. /\ v2' = f /\ v3' = 2 /\ v9' = [form |-> f, step |-> 2]
        /\ v8' = [form |-> v2, step |-> 1, submitting |-> Wiz!confirming]
        /\ UNCHANGED <<v1, v10, v11, v12, v15, v18>>
    BY <1>3, <2>4, <2>5, <2>6, <2>7 DEF Wiz!SetForm, Wiz!Created
  <2>9. OnPage'
    BY <2>2, <2>4, <2>5, <2>8
    DEF OnPage, Wiz!Grounded, Wiz!OfListing, Wiz!GroundedLeaving
  <2>10. Wiz!GroundedRequests'
    BY <2>0, <2>3, <2>8 DEF Wiz!GroundedRequests, Wiz!ConfirmedPhotos, Wiz!OfListing
  <2>11. Wiz!CreatingOrGone'
    BY <2>0, <2>1, <2>2, <2>8 DEF Wiz!CreatingOrGone
  <2> QED
    BY <2>9, <2>10, <2>11 DEF Goal
<1>4. ASSUME NEW here \in BOOLEAN, NEW reached \in BOOLEAN, Wiz!CreateFailed(here, reached)
      PROVE  Goal
  <2>1. ~v17 /\ Grows /\ UNCHANGED <<v1, v2, v3, v8, v9, v10, v11, v12, v18>>
    BY <1>4 DEF Wiz!CreateFailed, Grows
  <2>2. (v5' => v5) /\ v13' = v13
    BY <1>0, <1>4, <2>1 DEF Wiz!CreateFailed, Wiz!Answered, Wiz!CreatingOrGone
  <2>. QED
    BY <1>s, <2>1, <2>2
<1>5. CASE Wiz!goNext
  <2>1. /\ v1 /\ Wiz!drawn \in 2..4 /\ (Wiz!drawn = 2 => Wiz!props.photos # {})
        /\ Wiz!SetForm(v2, Wiz!Next1) /\ Wiz!Press
        /\ UNCHANGED <<v1, v5, v10, v11, v12, v13, v15, v18>>
    BY <1>5 DEF Wiz!goNext, Wiz!Ready, Wiz!canProceed
  <2>2. ~v17 /\ Wiz!props.listing = v2.listing /\ GroundedAt(v15, v18, Wiz!props, Wiz!drawn)
    BY <1>p, <2>1
  <2>3. v2.listing # None
    BY <2>1, <2>2 DEF GroundedAt
  <2>4. v18 \/ v15[v2.listing] # {}
    <3>1. CASE Wiz!drawn = 2
      <4>1. PICK x \in Wiz!props.photos : TRUE
        BY <2>1, <3>1
      <4>2. x.asset[2] \in v15[v2.listing]
        BY <2>2, <4>1 DEF GroundedAt, OfAt
      <4>. QED
        BY <4>2
    <3>2. CASE Wiz!drawn # 2
      BY <2>1, <2>2, <3>2 DEF GroundedAt
    <3>. QED
      BY <3>1, <3>2
  <2>5. GroundedAt(v15, v18, v2, Wiz!Next1)
    BY <1>a, <2>2, <2>3, <2>4 DEF GroundedAt
  <2>6. ~v5
    BY <1>0, <2>2, <2>3 DEF Wiz!CreatingOrGone
  <2>. QED
    BY <1>f, <1>n, <1>t, <2>1, <2>2, <2>5, <2>6
<1>6. CASE Wiz!goBack
  <2>1. /\ v1 /\ Wiz!drawn \in 2..5
        /\ Wiz!SetForm(v2, Wiz!Back1) /\ Wiz!Press
        /\ UNCHANGED <<v1, v5, v10, v11, v12, v13, v15, v18>>
    BY <1>6 DEF Wiz!goBack, Wiz!Ready
  <2>2. ~v17 /\ Wiz!props.listing = v2.listing /\ GroundedAt(v15, v18, Wiz!props, Wiz!drawn)
    BY <1>p, <2>1
  <2>3. v2.listing # None
    BY <2>1, <2>2 DEF GroundedAt
  <2>4. Wiz!Back1 >= 3 => v3 >= 3
    BY <1>n, <1>t
  <2>5. GroundedAt(v15, v18, v2, Wiz!Back1)
    BY <1>a, <2>2, <2>3, <2>4 DEF GroundedAt
  <2>6. ~v5
    BY <1>0, <2>2, <2>3 DEF Wiz!CreatingOrGone
  <2>. QED
    BY <1>f, <1>n, <1>t, <2>1, <2>2, <2>5, <2>6
<1>7. ASSUME NEW files \in Wiz!BoundedSeq(Photos, MaxFiles), Wiz!handleUpload(files)
      PROVE  Goal
  <2> DEFINE u == [listing |-> Wiz!props.listing, files |-> files, base |-> Wiz!props.photos]
  <2>1. /\ v1 /\ Wiz!props.listing # None /\ Wiz!Press /\ v10' = v10 \cup {u} /\ Grows
        /\ UNCHANGED <<v1, v2, v3, v5, v8, v9, v11, v12, v13, v15, v18>>
    BY <1>7 DEF Wiz!handleUpload, Wiz!PendingFiles, Wiz!Ready, Grows
  <2>2. ~v17 /\ Wiz!props.listing = v2.listing /\ GroundedAt(v15, v18, Wiz!props, Wiz!drawn)
    BY <1>p, <2>1
  <2>3. u.listing = v2.listing /\ \A x \in u.base : OfAt(v15', u.listing, {x.asset})
    BY <2>1, <2>2 DEF GroundedAt
  <2> HIDE DEF u
  <2>4. OnPage /\ Wiz!GroundedRequests /\ Wiz!CreatingOrGone
    BY <1>0, <2>2
  <2>5. OnPage'
    BY <2>1, <2>4, WizFormSame
  <2>6. Wiz!GroundedRequests'
    <3>1. \A w \in v10' : \/ w \in v10
                          \/ /\ w.listing = v2.listing
                             /\ \A x \in w.base : OfAt(v15', w.listing, {x.asset})
      BY <2>1, <2>3
    <3>. QED
      BY <2>1, <2>2, <2>4, <3>1, WizRequestsKept
  <2>7. Wiz!CreatingOrGone'
    BY <2>1, <2>4 DEF Wiz!CreatingOrGone
  <2> QED
    BY <2>5, <2>6, <2>7 DEF Goal
<1>8. ASSUME NEW u \in v10, NEW sent \in SUBSET (1..MaxFiles), Wiz!Uploaded(u, sent)
      PROVE  Goal
  <2> DEFINE new == Wiz!NewUploaded(u, sent)
             got == {u.files[i] : i \in sent}
             f == [v2 EXCEPT !.photos = u.base \cup new]
  <2>0. ~v17 /\ OnPage /\ Wiz!GroundedRequests /\ Wiz!CreatingOrGone
    BY <1>0, <1>8 DEF Wiz!Uploaded
  <2>a. /\ u.listing = v2.listing /\ u.listing \in Wiz!Listings
        /\ \A x \in u.base : OfAt(v15, u.listing, {x.asset})
    BY <1>t, <2>0 DEF Wiz!GroundedRequests, Wiz!OfListing, OfAt
  <2>b. \A x \in new : x.asset \in Wiz!Asset /\ x.asset[1] = u.listing /\ x.asset[2] \in got
    <3>1. new \subseteq Wiz!Shots
          /\ \A x \in new : x.asset[1] = u.listing /\ x.asset[2] \in got
      BY <1>t, <1>8, FormsAssumption, WizNewUploaded DEF Wiz!Uploaded, Wiz!Registered
    <3> QED
      BY <3>1 DEF Wiz!Shots
  <2>c. v15' = [v15 EXCEPT ![u.listing] = v15[u.listing] \cup got] /\ v10' = v10 \ {u}
    BY <1>8 DEF Wiz!Uploaded, Wiz!Registered
  <2>d. Wiz!SetForm(f, v3) /\ UNCHANGED <<v1, v5, v11, v12, v13, v18>>
    BY <1>8 DEF Wiz!Uploaded
  <2> HIDE DEF new, got
  <2>e. f.photos = u.base \cup new /\ f.staging = v2.staging /\ f.listing = v2.listing
    BY <1>t DEF Wiz!Forms
  <2>f. f = v2'
    BY <2>d DEF Wiz!SetForm
  <2> HIDE DEF f
  <2>g. Grows /\ f \in Wiz!Forms
    BY <1>t, <2>a, <2>c, <2>d, <2>f DEF Grows, Wiz!TypeOK
  <2>h. /\ \A l, as : OfAt(v15, l, as) => OfAt(v15', l, as)
        /\ GroundedAt(v15', v18', v2, v3)
    BY <1>a, <1>t, <2>0, <2>g, WizGrows DEF Grows
  <2>i. \A x \in f.photos : OfAt(v15', f.listing, {x.asset})
    <3>1. \A x \in u.base : OfAt(v15', f.listing, {x.asset})
      BY <2>a, <2>e, <2>h
    <3>2. \A x \in new : OfAt(v15', f.listing, {x.asset})
      BY <1>t, <2>a, <2>b, <2>c, <2>e DEF OfAt
    <3>. QED
      BY <2>e, <3>1, <3>2
  <2>j. GroundedAt(v15', v18', f, v3)
    BY <2>e, <2>h, <2>i DEF GroundedAt
  <2>1. OnPage'
    BY <1>t, <2>0, <2>d, <2>e, <2>g, <2>j, WizFormKept
  <2>2. Wiz!GroundedRequests'
    BY <2>0, <2>c, <2>d, <2>e, <2>f, <2>g, WizRequestsKept
  <2>3. v1 /\ ~v5
    BY <1>8, <2>0, <2>a, FormsAssumption DEF Wiz!CreatingOrGone, Wiz!Listings
  <2>4. Wiz!CreatingOrGone'
    BY <2>0, <2>3, <2>d DEF Wiz!CreatingOrGone
  <2> QED
    BY <2>1, <2>2, <2>4 DEF Goal
<1>9. ASSUME NEW u \in v10, NEW sent \in SUBSET (1..MaxFiles), Wiz!UploadFailed(u, sent)
      PROVE  Goal
  <2>1. /\ ~v17 /\ v10' \subseteq v10 /\ UNCHANGED <<v1, v2, v3, v5, v8, v9, v11, v12, v13, v18>>
        /\ v15' = [v15 EXCEPT ![u.listing] = v15[u.listing] \cup {u.files[i] : i \in sent}]
    BY <1>9 DEF Wiz!UploadFailed, Wiz!Registered
  <2>2. Grows
    BY <1>t, <2>1 DEF Grows
  <2>. QED
    BY <1>s, <2>1, <2>2
<1>10. CASE Wiz!handleImportLink
  <2> DEFINE m == [listing |-> Wiz!props.listing, pc |-> "job", snap |-> {}, here |-> TRUE]
  <2>1. /\ v1 /\ Wiz!props.listing # None /\ Wiz!Press /\ v11' = v11 \cup {m} /\ Grows
        /\ UNCHANGED <<v1, v2, v3, v5, v8, v9, v10, v12, v13, v15, v18>>
    BY <1>10 DEF Wiz!handleImportLink, Wiz!ImportBox, Wiz!Ready, Grows
  <2>2. ~v17 /\ Wiz!props.listing = v2.listing
    BY <1>p, <2>1
  <2>3. m.listing = v2.listing /\ OfAt(v15', m.listing, m.snap)
    BY <2>2 DEF OfAt
  <2> HIDE DEF m
  <2>4. OnPage /\ Wiz!GroundedRequests /\ Wiz!CreatingOrGone
    BY <1>0, <2>2
  <2>5. OnPage'
    BY <2>1, <2>4, WizFormSame
  <2>6. Wiz!GroundedRequests'
    <3>1. \A w \in v11' : \/ \E n \in v11 : w.listing = n.listing /\ w.snap = n.snap
                          \/ w.listing = v2.listing /\ OfAt(v15', w.listing, w.snap)
      BY <2>1, <2>3
    <3>. QED
      BY <2>1, <2>2, <2>4, <3>1, WizRequestsKept
  <2>7. Wiz!CreatingOrGone'
    BY <2>1, <2>4 DEF Wiz!CreatingOrGone
  <2> QED
    BY <2>5, <2>6, <2>7 DEF Goal
<1>11. ASSUME NEW m \in v11, NEW new \in SUBSET Photos, Wiz!ImportCompleted(m, new)
       PROVE  Goal
  <2> DEFINE s == {m.listing} \X v15'[m.listing]
             e == [m EXCEPT !.pc = "assets", !.here = FALSE, !.snap = s]
  <2>0. ~v17 /\ OnPage /\ Wiz!GroundedRequests /\ Wiz!CreatingOrGone
    BY <1>0, <1>11 DEF Wiz!ImportCompleted
  <2>1. /\ v11' = (v11 \ {m}) \cup {e} /\ UNCHANGED <<v1, v2, v3, v5, v8, v9, v10, v12, v13, v18>>
        /\ v15' = [v15 EXCEPT ![m.listing] = v15[m.listing] \cup new]
    BY <1>11 DEF Wiz!ImportCompleted
  <2>2. Grows
    BY <1>t, <2>1 DEF Grows
  <2>3. m.listing = v2.listing /\ m.listing \in Wiz!Listings /\ v15'[m.listing] \subseteq Photos
    BY <1>t, <2>0 DEF Wiz!GroundedRequests
  <2>4. OfAt(v15', m.listing, s)
    BY <2>3 DEF OfAt, Wiz!Asset
  <2> HIDE DEF s
  <2>5. e.listing = m.listing /\ e.snap = s
    BY <1>t
  <2> HIDE DEF e
  <2>6. OnPage'
    BY <2>0, <2>1, <2>2, WizFormSame
  <2>7. Wiz!GroundedRequests'
    <3>1. \A w \in v11' : \/ \E n \in v11 : w.listing = n.listing /\ w.snap = n.snap
                          \/ w.listing = v2.listing /\ OfAt(v15', w.listing, w.snap)
      BY <2>1, <2>3, <2>4, <2>5
    <3>. QED
      BY <2>0, <2>1, <2>2, <3>1, WizRequestsKept
  <2>8. v11 # {}
    BY <1>11
  <2>9. Wiz!CreatingOrGone'
    BY <2>0, <2>1, <2>8 DEF Wiz!CreatingOrGone
  <2> QED
    BY <2>6, <2>7, <2>9 DEF Goal
<1>12. ASSUME NEW m \in v11, Wiz!ImportShown(m) PROVE Goal
  <2> DEFINE photos == {[asset |-> a, thumb |-> a[2]] : a \in m.snap}
             f == [v2 EXCEPT !.photos = photos]
  <2>0. ~v17 /\ OnPage /\ Wiz!GroundedRequests /\ Wiz!CreatingOrGone
    BY <1>0, <1>12 DEF Wiz!ImportShown
  <2>1. /\ Wiz!SetForm(f, v3) /\ v11' = v11 \ {m}
        /\ UNCHANGED <<v1, v5, v10, v12, v13, v15, v18>>
    BY <1>12 DEF Wiz!ImportShown
  <2>2. f.photos = photos /\ f.staging = v2.staging /\ f.listing = v2.listing
    BY <1>t DEF Wiz!Forms
  <2>3. m.listing = v2.listing /\ m.listing \in Wiz!Listings /\ OfAt(v15, m.listing, m.snap)
    BY <1>t, <2>0 DEF Wiz!GroundedRequests, Wiz!OfListing, OfAt
  <2>4. \A x \in photos : x.asset \in m.snap
    OBVIOUS
  <2> HIDE DEF photos
  <2>5. f = v2'
    BY <2>1 DEF Wiz!SetForm
  <2> HIDE DEF f
  <2>6. Grows /\ f \in Wiz!Forms
    BY <2>1, <2>5 DEF Grows, Wiz!TypeOK
  <2>7. \A x \in f.photos : OfAt(v15', f.listing, {x.asset})
    BY <2>1, <2>2, <2>3, <2>4 DEF OfAt
  <2>8. GroundedAt(v15', v18', f, v3)
    BY <1>a, <2>0, <2>1, <2>2, <2>7 DEF GroundedAt
  <2>9. OnPage'
    BY <1>t, <2>0, <2>1, <2>2, <2>6, <2>8, WizFormKept
  <2>10. Wiz!GroundedRequests'
    BY <2>0, <2>1, <2>2, <2>5, <2>6, WizRequestsKept
  <2>11. v1 /\ ~v5
    BY <1>12, <2>0, <2>3, FormsAssumption DEF Wiz!CreatingOrGone, Wiz!Listings
  <2>12. Wiz!CreatingOrGone'
    BY <2>0, <2>1, <2>11 DEF Wiz!CreatingOrGone
  <2> QED
    BY <2>9, <2>10, <2>12 DEF Goal
<1>13. ASSUME NEW m \in v11, Wiz!ImportFailed(m) PROVE Goal
  <2>1. /\ ~v17 /\ v11' \subseteq v11 /\ Grows
        /\ UNCHANGED <<v1, v2, v3, v5, v8, v9, v10, v12, v13, v18>>
    BY <1>13 DEF Wiz!ImportFailed, Grows
  <2>. QED
    BY <1>s, <2>1
<1>14. ASSUME NEW a \in Wiz!Asset, Wiz!toggleAsset(a) PROVE Goal
  <2> DEFINE ids == Wiz!props.staging
             new == IF a \in ids THEN ids \ {a} ELSE ids \cup {a}
             f == [v2 EXCEPT !.staging = new]
  <2>1. /\ v1 /\ Wiz!drawn = 3 /\ a \in {x.asset : x \in Wiz!props.photos}
        /\ Wiz!SetForm(f, v3) /\ Wiz!Press
        /\ UNCHANGED <<v1, v5, v10, v11, v12, v13, v15, v18>>
    BY <1>14 DEF Wiz!toggleAsset, Wiz!StagingPhotos, Wiz!Ready
  <2>2. ~v17 /\ Wiz!props.listing = v2.listing /\ GroundedAt(v15, v18, Wiz!props, Wiz!drawn)
    BY <1>p, <2>1
  <2>3. v2.listing # None
    BY <2>1, <2>2 DEF GroundedAt
  <2>4. OfAt(v15, v2.listing, new)
    BY <2>1, <2>2 DEF GroundedAt, OfAt
  <2> HIDE DEF new
  <2>5. f.staging = new /\ f.photos = v2.photos /\ f.listing = v2.listing
    BY <1>t DEF Wiz!Forms
  <2>6. f = v2'
    BY <2>1 DEF Wiz!SetForm
  <2> HIDE DEF f
  <2>7. f \in Wiz!Forms
    BY <2>6 DEF Wiz!TypeOK
  <2>8. GroundedAt(v15, v18, f, v3)
    BY <1>a, <2>2, <2>4, <2>5 DEF GroundedAt
  <2>9. ~v5
    BY <1>0, <2>2, <2>3 DEF Wiz!CreatingOrGone
  <2>. QED
    BY <1>f, <1>t, <2>1, <2>2, <2>5, <2>7, <2>8, <2>9
<1>15. CASE Wiz!handleSkip
  <2> DEFINE f == [v2 EXCEPT !.staging = {}]
  <2>1. /\ v1 /\ Wiz!drawn = 3 /\ Wiz!SetForm(f, Wiz!Next1) /\ Wiz!Press
        /\ UNCHANGED <<v1, v5, v10, v11, v12, v13, v15, v18>>
    BY <1>15 DEF Wiz!handleSkip, Wiz!Ready
  <2>2. ~v17 /\ Wiz!props.listing = v2.listing /\ GroundedAt(v15, v18, Wiz!props, Wiz!drawn)
    BY <1>p, <2>1
  <2>3. v2.listing # None /\ (v18 \/ v15[v2.listing] # {})
    BY <2>1, <2>2 DEF GroundedAt
  <2>4. f.staging = {} /\ f.photos = v2.photos /\ f.listing = v2.listing
    BY <1>t DEF Wiz!Forms
  <2>5. f = v2'
    BY <2>1 DEF Wiz!SetForm
  <2> HIDE DEF f
  <2>6. f \in Wiz!Forms
    BY <2>5 DEF Wiz!TypeOK
  <2>7. GroundedAt(v15, v18, f, Wiz!Next1)
    BY <1>a, <2>2, <2>3, <2>4 DEF GroundedAt, OfAt
  <2>8. ~v5
    BY <1>0, <2>2, <2>3 DEF Wiz!CreatingOrGone
  <2>. QED
    BY <1>f, <1>n, <2>1, <2>2, <2>4, <2>6, <2>7, <2>8
<1>16. CASE Wiz!handleConfirm
  <2> DEFINE c == [listing |-> Wiz!props.listing, staging |-> Wiz!props.staging, here |-> TRUE,
                   pc |-> IF Wiz!props.staging # {} THEN "tags" ELSE "start"]
  <2>1. /\ v1 /\ Wiz!drawn = 5 /\ ~v17 /\ Wiz!props.listing = v2.listing
        /\ v12' = v12 \cup {c} /\ Grows
        /\ UNCHANGED <<v1, v2, v3, v5, v8, v9, v10, v11, v13, v15, v18>>
    BY <1>16 DEF Wiz!handleConfirm, Wiz!ConfirmButton, Wiz!Ready, Grows
  <2>2. OnPage /\ Wiz!GroundedRequests /\ Wiz!CreatingOrGone
    BY <1>0, <2>1
  <2>3. GroundedAt(v15, v18, Wiz!props, Wiz!drawn)
    BY <2>1, <2>2, WizProps
  <2>4. OfAt(v15', c.listing, c.staging) /\ (v18' \/ v15'[c.listing] # {})
    BY <2>1, <2>3 DEF GroundedAt
  <2> HIDE DEF c
  <2>5. OnPage'
    BY <2>1, <2>2, WizFormSame
  <2>6. Wiz!GroundedRequests'
    <3>1. \A w \in v12' : \/ \E d \in v12 : w.listing = d.listing /\ w.staging = d.staging
                          \/ /\ OfAt(v15', w.listing, w.staging)
                             /\ v18' \/ v15'[w.listing] # {}
      BY <2>1, <2>4
    <3>. QED
      BY <2>1, <2>2, <3>1, WizRequestsKept
  <2>7. Wiz!CreatingOrGone'
    BY <2>1, <2>2 DEF Wiz!CreatingOrGone
  <2> QED
    BY <2>5, <2>6, <2>7 DEF Goal
<1>17. ASSUME NEW c \in v12, NEW pc, Wiz!Advance(c, pc) PROVE Goal
  <2>1. /\ ~v17 /\ Grows /\ v12' = (v12 \ {c}) \cup {[c EXCEPT !.pc = pc]}
        /\ UNCHANGED <<v1, v2, v3, v5, v8, v9, v10, v11, v13, v18>>
    BY <1>17 DEF Wiz!Advance, Grows
  <2>2. [c EXCEPT !.pc = pc].listing = c.listing /\ [c EXCEPT !.pc = pc].staging = c.staging
    BY <1>t
  <2>3. \A d \in v12' : \E e \in v12 : d.listing = e.listing /\ d.staging = e.staging
    BY <2>1, <2>2
  <2>. QED
    BY <1>s, <2>1, <2>3
<1>18. ASSUME NEW c \in v12, Wiz!ConfirmDone(c) PROVE Goal
  <2>1. /\ ~v17 /\ Grows /\ v12' \subseteq v12 /\ v9' = None
        /\ UNCHANGED <<v1, v2, v3, v5, v8, v10, v11, v13, v18>>
    BY <1>18 DEF Wiz!ConfirmDone, Wiz!Finish, Grows
  <2>. QED
    BY <1>s, <2>1
<1>19. ASSUME NEW c \in v12, NEW status, NEW reached, Wiz!ConfirmFailed(c, status, reached)
       PROVE  Goal
  <2>1. /\ ~v17 /\ Grows /\ v12' \subseteq v12
        /\ UNCHANGED <<v1, v2, v3, v5, v8, v9, v10, v11, v13, v18>>
    BY <1>19 DEF Wiz!ConfirmFailed, Wiz!Finish, Grows
  <2>. QED
    BY <1>s, <2>1
<1>20. CASE Wiz!KeepEditing
  <2>1. ~v17 /\ Grows /\ UNCHANGED <<v1, v2, v3, v5, v8, v9, v10, v11, v12, v13, v18>>
    BY <1>20 DEF Wiz!KeepEditing, Grows
  <2>. QED
    BY <1>s, <2>1
<1>21. CASE Wiz!handleStartOver
  <2>1. /\ ~v17 /\ ~v5 /\ v10 = {} /\ v11 = {} /\ v12 = {} /\ v9' = None /\ v3' = 1
        /\ v2' = Wiz!INITIAL_FORM_DATA /\ v1
        /\ v8' = IF Wiz!drawn = 1 THEN None
                 ELSE [form |-> Wiz!props, step |-> Wiz!drawn, submitting |-> Wiz!confirming]
        /\ UNCHANGED <<v1, v5, v10, v11, v12, v13>>
    BY <1>21 DEF Wiz!handleStartOver, Wiz!ResumedBanner
  <2>2. OnPage /\ Wiz!CreatingOrGone
    BY <1>0, <2>1
  <2>3. Wiz!drawn >= 2 => Wiz!props.listing # None
    <3>1. CASE v8 = None
      BY <1>a, <2>1, <3>1, WizDrawn DEF GroundedAt
    <3>2. CASE v8 # None
      BY <2>2, <3>2, WizDrawn DEF OnPage, Wiz!GroundedLeaving
    <3>. QED
      BY <3>1, <3>2
  <2>4. v8' # None => v8'.step >= 2 /\ v8'.form.listing # None
    <3>1. CASE Wiz!drawn = 1
      BY <2>1, <3>1
    <3>2. CASE Wiz!drawn # 1
      BY <1>d, <2>1, <2>3, <3>2
    <3>. QED
      BY <3>1, <3>2
  <2>5. Wiz!Grounded(v2, v3)'
    BY <2>1 DEF Wiz!Grounded, Wiz!OfListing, Wiz!INITIAL_FORM_DATA
  <2>6. v2'.listing = None
    BY <2>1 DEF Wiz!INITIAL_FORM_DATA
  <2>7. Wiz!GroundedLeaving'
    BY <2>1, <2>4, <2>6 DEF Wiz!GroundedLeaving
  <2>8. OnPage'
    BY <2>1, <2>5, <2>7 DEF OnPage
  <2>9. Wiz!GroundedRequests' /\ Wiz!CreatingOrGone'
    BY <2>1, <2>2 DEF Wiz!GroundedRequests, Wiz!ConfirmedPhotos, Wiz!CreatingOrGone
  <2> QED
    BY <2>8, <2>9 DEF Goal
<1>22. ASSUME NEW reload \in BOOLEAN, Wiz!Leave(reload) PROVE Goal
  <2>1. /\ ~v17 /\ Grows /\ v10' = {} /\ v11' = {} /\ v8' = None /\ v3' = 1 /\ v13' = 0
        /\ v2' = Wiz!INITIAL_FORM_DATA /\ v5' = FALSE /\ v15' = v15
        /\ UNCHANGED <<v9, v18>>
    BY <1>22 DEF Wiz!Leave, Grows
  <2>2. OnPage /\ Wiz!GroundedRequests
    BY <1>0, <2>1
  <2>3. OnPage'
    BY <2>1, <2>2 DEF OnPage, Wiz!Grounded, Wiz!OfListing, Wiz!GroundedLeaving,
       Wiz!INITIAL_FORM_DATA
  <2>4. \A c \in v12 : /\ [c EXCEPT !.here = FALSE].listing = c.listing
                       /\ [c EXCEPT !.here = FALSE].staging = c.staging
    BY <1>t
  <2>5. v12' = {} \/ v12' = {[c EXCEPT !.here = FALSE] : c \in v12}
    BY <1>22 DEF Wiz!Leave
  <2>6. ASSUME NEW d \in v12'
        PROVE  \E e \in v12 : d.listing = e.listing /\ d.staging = e.staging
    <3>1. v12' = {[e EXCEPT !.here = FALSE] : e \in v12}
      BY <2>5
    <3>2. PICK e \in v12 : d = [e EXCEPT !.here = FALSE]
      BY <3>1
    <3>. QED
      BY <2>4, <3>2
  <2>7. Wiz!GroundedRequests'
    BY <2>1, <2>2, <2>6 DEF Wiz!GroundedRequests, Wiz!ConfirmedPhotos, Wiz!OfListing
  <2>8. Wiz!CreatingOrGone'
    BY <2>1 DEF Wiz!CreatingOrGone
  <2> QED
    BY <2>3, <2>7, <2>8 DEF Goal
<1>23. CASE Wiz!Open
  <2>1. /\ ~v17 /\ ~v1 /\ v1' = TRUE /\ Grows
        /\ UNCHANGED <<v5, v8, v9, v10, v11, v12, v13, v15, v18>>
    BY <1>23 DEF Wiz!Open, Grows
  <2>2. OnPage /\ Wiz!GroundedRequests /\ Wiz!CreatingOrGone
    BY <1>0, <2>1
  <2>3. v5 = FALSE /\ v8 = None /\ v10 = {} /\ v11 = {} /\ v13 = 0
    BY <2>1, <2>2 DEF Wiz!CreatingOrGone, Wiz!TypeOK
  <2>4. (v2' = v9.form /\ v3' = v9.step /\ v9 # None) \/ (v2' = v2 /\ v3' = v3)
    BY <1>23 DEF Wiz!Open
  <2>5. Wiz!Grounded(v2, v3)'
    BY <2>1, <2>2, <2>4 DEF OnPage, Wiz!Grounded, Wiz!OfListing
  <2>6. OnPage'
    BY <2>1, <2>2, <2>3, <2>5 DEF OnPage, Wiz!Grounded, Wiz!OfListing, Wiz!GroundedLeaving
  <2>7. Wiz!GroundedRequests'
    BY <2>1, <2>2, <2>3 DEF Wiz!GroundedRequests, Wiz!ConfirmedPhotos, Wiz!OfListing
  <2>8. Wiz!CreatingOrGone'
    BY <2>1, <2>2, <2>3 DEF Wiz!CreatingOrGone
  <2> QED
    BY <2>6, <2>7, <2>8 DEF Goal
<1>24. ASSUME NEW c \in v12, Wiz!ConfirmAnswer(c) PROVE Goal
  BY <1>17, <1>18, <1>19, <1>24 DEF Wiz!ConfirmAnswer, Wiz!Tagged, Wiz!Started
<1> QED
  BY <1>1, <1>2, <1>3, <1>4, <1>5, <1>6, <1>7, <1>8, <1>9, <1>10, <1>11, <1>12, <1>13,
     <1>14, <1>15, <1>16, <1>20, <1>21, <1>22, <1>23, <1>24 DEF Wiz!Next


\* The Confirm button spins while a confirmation of this wizard is under way, of which
\* there is one unless the button of the leaving step was pressed again.
LEMMA WizConfirmStep ==
  ASSUME Wiz!TypeOK, Wiz!NoFrozenConfirm, Wiz!OneConfirm, Wiz!Next
  PROVE  Wiz!NoFrozenConfirm' /\ Wiz!OneConfirm'
<1> USE DEF Wiz!formVars, Wiz!busyVars, Wiz!requests, Wiz!serverVars, Wiz!NoFrozenConfirm,
            Wiz!OneConfirm
<1> DEFINE Goal == Wiz!NoFrozenConfirm' /\ Wiz!OneConfirm'
           C == [listing : Wiz!Listings, staging : SUBSET Wiz!Asset,
                 pc : {"tags", "start", "refresh"}, here : BOOLEAN]
<1>t. v12 \subseteq C /\ v4 \in BOOLEAN /\ v17 \in BOOLEAN
  BY DEF Wiz!TypeOK
<1>0. ASSUME UNCHANGED <<v4, v12>>, v17 => v17'
      PROVE  Goal
  BY <1>0
<1>p. ASSUME Wiz!Press
      PROVE  v17 => v17'
  BY <1>p DEF Wiz!Press
<1>1. CASE Wiz!handleConfirm
  <2> DEFINE new == [listing |-> Wiz!props.listing, staging |-> Wiz!props.staging, here |-> TRUE,
                     pc |-> IF Wiz!props.staging # {} THEN "tags" ELSE "start"]
  <2>1. new.here = TRUE /\ v12' = v12 \cup {new} /\ v4' = TRUE
    BY <1>1 DEF Wiz!handleConfirm
  <2>2. v17' = (v17 \/ Wiz!props.listing # v2.listing \/ v4)
    BY <1>1 DEF Wiz!handleConfirm
  <2>3. ~v17' => ~v17 /\ ~v4
    BY <2>2, Zenon
  <2> HIDE DEF new
  <2> QED
    BY <2>1, <2>3
<1>2. ASSUME NEW c \in v12, NEW pc, Wiz!Advance(c, pc)
      PROVE  Goal
  <2>1. [c EXCEPT !.pc = pc].here = c.here
    BY <1>t
  <2>2. v12' = (v12 \ {c}) \cup {[c EXCEPT !.pc = pc]} /\ v4' = v4 /\ v17' = v17
    BY <1>2 DEF Wiz!Advance
  <2> QED
    BY <2>1, <2>2
<1>3. ASSUME NEW c \in v12, Wiz!Finish(c), v17' = v17
      PROVE  Goal
  BY <1>t, <1>3 DEF Wiz!Finish
<1>4. ASSUME NEW reload \in BOOLEAN, Wiz!Leave(reload)
      PROVE  Goal
  <2>1. \A c \in v12 : [c EXCEPT !.here = FALSE].here = FALSE
    BY <1>t
  <2>2. v4' = FALSE /\ \A c \in v12' : c.here = FALSE
    BY <1>4, <2>1 DEF Wiz!Leave
  <2> QED
    BY <2>2
<1>5. ASSUME NEW c \in v12, Wiz!ConfirmAnswer(c)
      PROVE  Goal
  BY <1>2, <1>3, <1>5 DEF Wiz!ConfirmAnswer, Wiz!Tagged, Wiz!Started, Wiz!ConfirmDone,
     Wiz!ConfirmFailed
<1>6. ASSUME NEW files, Wiz!handleUpload(files) PROVE Goal
  BY <1>0, <1>p, <1>6 DEF Wiz!handleUpload
<1>7. ASSUME NEW u, NEW sent, Wiz!Uploaded(u, sent) \/ Wiz!UploadFailed(u, sent)
      PROVE  Goal
  BY <1>0, <1>7 DEF Wiz!Uploaded, Wiz!UploadFailed
<1>8. ASSUME NEW m, Wiz!ImportShown(m) \/ Wiz!ImportFailed(m) \/ \E new : Wiz!ImportCompleted(m, new)
      PROVE  Goal
  BY <1>0, <1>8 DEF Wiz!ImportShown, Wiz!ImportFailed, Wiz!ImportCompleted
<1>9. CASE Wiz!handleNext \/ Wiz!goNext \/ Wiz!goBack \/ Wiz!handleImportLink
  BY <1>0, <1>p, <1>9 DEF Wiz!handleNext, Wiz!goNext, Wiz!goBack, Wiz!handleImportLink
<1>10. CASE (\E a \in Wiz!Asset : Wiz!toggleAsset(a)) \/ Wiz!handleSkip
  BY <1>0, <1>p, <1>10 DEF Wiz!toggleAsset, Wiz!handleSkip
<1>11. CASE Wiz!ExitEnds \/ Wiz!KeepEditing \/ Wiz!Open
  BY <1>0, <1>11 DEF Wiz!ExitEnds, Wiz!KeepEditing, Wiz!Open
<1>12. CASE Wiz!handleStartOver
  <2>1. v17 => v17'
    BY <1>12, Zenon DEF Wiz!handleStartOver
  <2>. QED
    BY <1>0, <1>12, <2>1 DEF Wiz!handleStartOver
<1>13. ASSUME NEW here \in BOOLEAN, Wiz!Created(here)
       PROVE  Goal
  BY <1>0, <1>13 DEF Wiz!Created
<1>14. ASSUME NEW here \in BOOLEAN, NEW reached \in BOOLEAN, Wiz!CreateFailed(here, reached)
       PROVE  Goal
  BY <1>0, <1>14 DEF Wiz!CreateFailed
<1> QED
  BY Zenon, <1>1, <1>4, <1>5, <1>6, <1>7, <1>8, <1>9, <1>10, <1>11, <1>12, <1>13, <1>14
     DEF Wiz!Next

\* At first there is no draft, nor a listing in the form.
LEMMA WizDraftInit ==
  ASSUME Wiz!Init
  PROVE  Wiz!DraftInv
BY DEF Wiz!Init, Wiz!DraftInv, Wiz!DraftKept, Wiz!ConfirmsDraft, Wiz!INITIAL_FORM_DATA

\* A change of the form is written into the draft, whose listing stays or is the first.
LEMMA WizDraftForm ==
  ASSUME Wiz!TypeOK, Wiz!DraftInv, v1, NEW f \in Wiz!Forms, NEW s \in 1..5,
         Wiz!SetForm(f, s), UNCHANGED <<v1, v12, v16>>, v17 => v17',
         f.listing = v2.listing \/ (v2.listing = None /\ f.listing # None)
  PROVE  Wiz!DraftInv'
<1>1. /\ v2' = f /\ v3' = s
      /\ f.listing # None => v9' = [form |-> f, step |-> s]
      /\ f.listing = None => v9' = v9
  BY DEF Wiz!SetForm
<1>2. [form |-> f, step |-> s] # None
  BY KeptAssumption
<1>3. None \notin v16 /\ \A c \in v12 : c.listing # None
  BY FormsAssumption DEF Wiz!TypeOK, Wiz!Listings
<1>4. Wiz!DraftKept'
  BY <1>1, <1>3 DEF Wiz!DraftInv, Wiz!DraftKept
<1>5. \A c \in v12 : Wiz!OfDraft(c.listing) => Wiz!OfDraft(c.listing)'
  BY <1>1, <1>2, <1>3 DEF Wiz!OfDraft
<1>6. ~v17' => Wiz!ConfirmsDraft'
  BY <1>5 DEF Wiz!DraftInv, Wiz!ConfirmsDraft
<1>. QED
  BY <1>4, <1>6 DEF Wiz!DraftInv

\* A confirmation under way goes one step on; only the one that starts the listing does so
\* past the start.
LEMMA WizDraftAdvance ==
  ASSUME Wiz!TypeOK, Wiz!DraftInv, NEW c \in v12, NEW pc, Wiz!Advance(c, pc),
         \/ pc = "start" /\ v16' = v16
         \/ pc = "refresh" /\ c.listing \notin v16 /\ v16' = v16 \cup {c.listing}
  PROVE  Wiz!DraftInv'
<1>. USE DEF Wiz!formVars, Wiz!busyVars
<1>. DEFINE e == [c EXCEPT !.pc = pc]
<1>1. /\ v12' = (v12 \ {c}) \cup {e}
      /\ UNCHANGED <<v1, v2, v3, v9, v17>>
  BY DEF Wiz!Advance
<1>2. e.listing = c.listing /\ e.pc = pc
  BY DEF Wiz!TypeOK
<1>. HIDE DEF e
<1>3. Wiz!DraftKept'
  BY <1>1 DEF Wiz!DraftInv, Wiz!DraftKept
<1>4. ASSUME ~v17
      PROVE  Wiz!ConfirmsDraft'
  <2>0. /\ \A d \in v12 : d.listing \in v16 \/ Wiz!OfDraft(d.listing)
        /\ \A d \in v12 : d.pc = "refresh" => d.listing \in v16 /\ Wiz!OfDraft(d.listing)
        /\ \A d, g \in v12 : d.pc = "refresh" /\ g.pc = "refresh" => d = g
    BY <1>4 DEF Wiz!DraftInv, Wiz!ConfirmsDraft
  <2>1. \A l : Wiz!OfDraft(l)' <=> Wiz!OfDraft(l)
    BY <1>1 DEF Wiz!OfDraft
  <2>2. \A l, m : Wiz!OfDraft(l) /\ Wiz!OfDraft(m) => l = m
    BY DEF Wiz!OfDraft
  <2>3. CASE pc = "start" /\ v16' = v16
    BY <1>1, <1>2, <2>0, <2>1, <2>3 DEF Wiz!ConfirmsDraft
  <2>4. CASE pc = "refresh" /\ c.listing \notin v16 /\ v16' = v16 \cup {c.listing}
    <3>1. Wiz!OfDraft(c.listing)
      BY <2>0, <2>4
    <3>2. \A d \in v12 : d.pc # "refresh"
      BY <2>0, <2>2, <2>4, <3>1
    <3>. QED
      BY <1>1, <1>2, <2>0, <2>1, <2>4, <3>1, <3>2 DEF Wiz!ConfirmsDraft
  <2>. QED
    BY <2>3, <2>4
<1>. QED
  BY <1>1, <1>3, <1>4 DEF Wiz!DraftInv

\* Every step keeps the draft.
LEMMA WizDraftStep ==
  ASSUME Wiz!TypeOK, Wiz!DraftNamed, Wiz!GroundedInv, Wiz!DraftInv, Wiz!Next, Wiz!TypeOK'
  PROVE  Wiz!DraftInv'
<1>. USE DEF Wiz!formVars, Wiz!busyVars, Wiz!requests, Wiz!serverVars
<1>t. /\ v2 \in Wiz!Forms /\ v3 \in 1..5
      /\ v9 \in {None} \cup [form : Wiz!Forms, step : 1..5]
      /\ None \notin v16 /\ \A c \in v12 : c.listing # None
  BY FormsAssumption DEF Wiz!TypeOK, Wiz!Listings
<1>0. ASSUME ~v17
      PROVE  /\ v1 /\ v2.listing \notin v16 =>
                  v9 = IF v2.listing = None THEN None ELSE [form |-> v2, step |-> v3]
             /\ \A d \in v12 : d.listing \in v16 \/ Wiz!OfDraft(d.listing)
             /\ \A d \in v12 : d.pc = "refresh" => d.listing \in v16 /\ Wiz!OfDraft(d.listing)
             /\ \A d, g \in v12 : d.pc = "refresh" /\ g.pc = "refresh" => d = g
             /\ v13 = 0 /\ (v5 => v1 /\ v2.listing = None)
             /\ Wiz!drawn >= 2 => Wiz!props.listing # None
             /\ ~v1 => v10 = {} /\ v11 = {} /\ v2.listing = None
  <2>1. Wiz!drawn >= 2 => Wiz!props.listing # None
    <3>1. Wiz!Grounded(v2, v3) /\ Wiz!GroundedLeaving
      BY <1>0 DEF Wiz!GroundedInv
    <3>. QED
      BY <3>1, WizDrawn DEF Wiz!Grounded, Wiz!GroundedLeaving
  <2>. QED
    BY <1>0, <2>1 DEF Wiz!DraftInv, Wiz!DraftKept, Wiz!ConfirmsDraft, Wiz!GroundedInv,
       Wiz!CreatingOrGone, Wiz!INITIAL_FORM_DATA
<1>d. Wiz!drawn \in 1..5 /\ Wiz!props \in Wiz!Forms
  BY WizDrawn
<1>n. Wiz!Next1 \in 1..5 /\ Wiz!Back1 \in 1..5
  BY <1>t, WizNextBack
<1>p. ASSUME Wiz!Press
      PROVE  (v17 => v17') /\ (~v17' => ~v17 /\ Wiz!props.listing = v2.listing)
  BY <1>p, Zenon DEF Wiz!Press
<1>g. SUFFICES ASSUME ~v17'
               PROVE  Wiz!DraftInv'
  BY DEF Wiz!DraftInv, Wiz!DraftKept
<1>u. ASSUME UNCHANGED <<v1, v2, v3, v9, v12, v16, v17>>
      PROVE  Wiz!DraftInv'
  BY <1>u DEF Wiz!DraftInv, Wiz!DraftKept, Wiz!ConfirmsDraft, Wiz!OfDraft
<1>v. ASSUME UNCHANGED <<v1, v2, v3, v9, v12, v16>>, Wiz!Press
      PROVE  Wiz!DraftInv'
  BY <1>g, <1>p, <1>v DEF Wiz!DraftInv, Wiz!DraftKept, Wiz!ConfirmsDraft, Wiz!OfDraft
<1>f. ASSUME NEW f \in Wiz!Forms, NEW s \in 1..5, Wiz!SetForm(f, s), v1,
             f.listing = v2.listing, UNCHANGED <<v1, v12, v16>>, v17 => v17'
      PROVE  Wiz!DraftInv'
  BY <1>f, WizDraftForm
<1>1. CASE Wiz!handleNext
  <2>1. v1 /\ Wiz!Press /\ UNCHANGED <<v1, v12, v16>>
    BY <1>1 DEF Wiz!handleNext, Wiz!DetailsNext, Wiz!Ready
  <2>2. Wiz!SetForm(v2, Wiz!Next1) \/ UNCHANGED <<v2, v3, v9>>
    BY <1>1 DEF Wiz!handleNext
  <2>. QED
    BY <1>t, <1>n, <1>p, <1>v, <1>f, <2>1, <2>2
<1>2. ASSUME NEW here \in BOOLEAN, Wiz!Created(here)
      PROVE  Wiz!DraftInv'
  <2>. DEFINE f == [v2 EXCEPT !.listing = v14']
  <2>1. v14' \in Wiz!Listings /\ v14' # None
    BY <1>2, FormsAssumption DEF Wiz!Created, Wiz!TypeOK, Wiz!Listings
  <2>2. f \in Wiz!Forms /\ f.listing = v14'
    BY <1>t, <2>1 DEF Wiz!Forms
  <2>3. Wiz!SetForm(f, Wiz!Next1) /\ UNCHANGED <<v1, v12, v16, v17>>
    BY <1>2 DEF Wiz!Created
  <2>4. v1 /\ v2.listing = None
    <3>1. here
      BY <1>0, <1>g, <1>2, <2>3 DEF Wiz!Created, Wiz!Answered
    <3>. QED
      BY <1>0, <1>g, <1>2, <2>3, <3>1 DEF Wiz!Created, Wiz!Answered
  <2>. HIDE DEF f
  <2>. QED
    BY <1>n, <2>1, <2>2, <2>3, <2>4, WizDraftForm
<1>3. ASSUME NEW here \in BOOLEAN, NEW reached \in BOOLEAN, Wiz!CreateFailed(here, reached)
      PROVE  Wiz!DraftInv'
  BY <1>u, <1>3 DEF Wiz!CreateFailed
<1>e. CASE Wiz!ExitEnds
  BY <1>u, <1>e DEF Wiz!ExitEnds
<1>4. CASE Wiz!goNext \/ Wiz!goBack
  <2>1. PICK s \in 1..5 : Wiz!SetForm(v2, s)
    BY <1>n, <1>4 DEF Wiz!goNext, Wiz!goBack
  <2>2. v1 /\ Wiz!Press /\ UNCHANGED <<v1, v12, v16>>
    BY <1>4 DEF Wiz!goNext, Wiz!goBack, Wiz!Ready
  <2>. QED
    BY <1>t, <1>f, <1>p, <2>1, <2>2
<1>5. ASSUME NEW files, Wiz!handleUpload(files)
      PROVE  Wiz!DraftInv'
  BY <1>v, <1>5 DEF Wiz!handleUpload
<1>6. ASSUME NEW u \in v10, NEW sent \in SUBSET (1..MaxFiles), Wiz!Uploaded(u, sent)
      PROVE  Wiz!DraftInv'
  <2>. DEFINE f == [v2 EXCEPT !.photos = u.base \cup Wiz!NewUploaded(u, sent)]
  <2>1. Wiz!SetForm(f, v3) /\ v2' = f /\ UNCHANGED <<v1, v12, v16, v17>>
    BY <1>6 DEF Wiz!Uploaded, Wiz!SetForm
  <2>2. f \in Wiz!Forms
    BY <2>1 DEF Wiz!TypeOK
  <2>3. v1 /\ f.listing = v2.listing
    BY <1>0, <1>t, <1>g, <2>1 DEF Wiz!Forms
  <2>. HIDE DEF f
  <2>. QED
    BY <1>t, <1>f, <2>1, <2>2, <2>3
<1>7. ASSUME NEW u, NEW sent, Wiz!UploadFailed(u, sent)
      PROVE  Wiz!DraftInv'
  BY <1>u, <1>7 DEF Wiz!UploadFailed
<1>8. ASSUME NEW m \in v11, Wiz!ImportShown(m)
      PROVE  Wiz!DraftInv'
  <2>. DEFINE f == [v2 EXCEPT !.photos = {[asset |-> a, thumb |-> a[2]] : a \in m.snap}]
  <2>1. Wiz!SetForm(f, v3) /\ v2' = f /\ UNCHANGED <<v1, v12, v16, v17>>
    BY <1>8 DEF Wiz!ImportShown, Wiz!SetForm
  <2>2. f \in Wiz!Forms
    BY <2>1 DEF Wiz!TypeOK
  <2>3. v1 /\ f.listing = v2.listing
    BY <1>0, <1>t, <1>g, <2>1 DEF Wiz!Forms
  <2>. HIDE DEF f
  <2>. QED
    BY <1>t, <1>f, <2>1, <2>2, <2>3
<1>9. ASSUME NEW m, Wiz!ImportFailed(m) \/ \E new : Wiz!ImportCompleted(m, new)
      PROVE  Wiz!DraftInv'
  BY <1>u, <1>9 DEF Wiz!ImportFailed, Wiz!ImportCompleted
<1>10. ASSUME NEW f, f = [v2 EXCEPT !.staging = f.staging], NEW s \in 1..5, Wiz!SetForm(f, s),
              v1, Wiz!Press, UNCHANGED <<v1, v12, v16>>
       PROVE  Wiz!DraftInv'
  <2>1. v2' = f
    BY <1>10 DEF Wiz!SetForm
  <2>2. f \in Wiz!Forms
    BY <2>1 DEF Wiz!TypeOK
  <2>3. f.listing = v2.listing
    BY <1>t, <1>10 DEF Wiz!Forms
  <2>. QED
    BY <1>f, <1>p, <1>10, <2>2, <2>3
<1>11. ASSUME NEW a, Wiz!toggleAsset(a)
       PROVE  Wiz!DraftInv'
  <2>. DEFINE ids == Wiz!props.staging
              f == [v2 EXCEPT !.staging = IF a \in ids THEN ids \ {a} ELSE ids \cup {a}]
  <2>1. v1 /\ Wiz!Press
    BY <1>11 DEF Wiz!toggleAsset, Wiz!StagingPhotos, Wiz!Ready
  <2>2. Wiz!SetForm(f, v3) /\ UNCHANGED <<v1, v12, v16>>
    BY <1>11 DEF Wiz!toggleAsset
  <2>3. f = [v2 EXCEPT !.staging = f.staging]
    BY <1>t DEF Wiz!Forms
  <2>. HIDE DEF f
  <2>. QED
    BY <1>t, <1>10, <2>1, <2>2, <2>3
<1>12. CASE Wiz!handleSkip
  <2>. DEFINE f == [v2 EXCEPT !.staging = {}]
  <2>1. v1 /\ Wiz!Press /\ Wiz!SetForm(f, Wiz!Next1) /\ UNCHANGED <<v1, v12, v16>>
    BY <1>12 DEF Wiz!handleSkip, Wiz!Ready
  <2>2. f = [v2 EXCEPT !.staging = f.staging]
    BY <1>t DEF Wiz!Forms
  <2>. HIDE DEF f
  <2>. QED
    BY <1>n, <1>10, <2>1, <2>2
<1>13. CASE Wiz!handleImportLink \/ Wiz!KeepEditing
  BY <1>u, <1>v, <1>13 DEF Wiz!handleImportLink, Wiz!KeepEditing
<1>14. CASE Wiz!handleConfirm
  <2>. DEFINE new == [listing |-> Wiz!props.listing, staging |-> Wiz!props.staging,
                      here |-> TRUE,
                      pc |-> IF Wiz!props.staging # {} THEN "tags" ELSE "start"]
  <2>1. /\ v1 /\ v12' = v12 \cup {new} /\ Wiz!props.listing # None
        /\ UNCHANGED <<v1, v2, v3, v9, v16>>
    BY <1>14 DEF Wiz!handleConfirm, Wiz!ConfirmButton, Wiz!Ready
  <2>0. ~v17 /\ Wiz!props.listing = v2.listing
    BY <1>g, <1>14, Zenon DEF Wiz!handleConfirm
  <2>2. new.listing = v2.listing /\ new.pc # "refresh" /\ v2.listing # None
    BY <2>0, <2>1
  <2>. HIDE DEF new
  <2>3. v2.listing \in v16 \/ Wiz!OfDraft(v2.listing)
    <3>1. CASE v2.listing \notin v16
      <4>1. v9 = [form |-> v2, step |-> v3]
        BY <1>0, <2>0, <2>1, <2>2, <3>1
      <4>2. v9 # None /\ v9.form = v2
        BY <1>t, <4>1, KeptAssumption
      <4>. QED
        BY <4>2 DEF Wiz!OfDraft
    <3>. QED
      BY <3>1
  <2>4. \A l : Wiz!OfDraft(l)' <=> Wiz!OfDraft(l)
    BY <2>1 DEF Wiz!OfDraft
  <2>5. Wiz!ConfirmsDraft'
    BY <1>0, <2>0, <2>1, <2>2, <2>3, <2>4 DEF Wiz!ConfirmsDraft
  <2>6. Wiz!DraftKept'
    BY <2>0, <2>1 DEF Wiz!DraftInv, Wiz!DraftKept
  <2>. QED
    BY <2>5, <2>6 DEF Wiz!DraftInv
<1>15. ASSUME NEW c \in v12, Wiz!Tagged(c) \/ Wiz!Started(c)
       PROVE  Wiz!DraftInv'
  <2>1. ASSUME Wiz!Tagged(c)
        PROVE  Wiz!DraftInv'
    <3>1. Wiz!Advance(c, "start") /\ v16' = v16
      BY <2>1 DEF Wiz!Tagged
    <3>. QED
      BY <3>1, WizDraftAdvance
  <2>2. ASSUME Wiz!Started(c)
        PROVE  Wiz!DraftInv'
    <3>1. /\ Wiz!Advance(c, "refresh")
          /\ c.listing \notin v16 /\ v16' = v16 \cup {c.listing}
      BY <2>2 DEF Wiz!Started, Wiz!StartAccepted
    <3>. QED
      BY <3>1, WizDraftAdvance
  <2>. QED
    BY <1>15, <2>1, <2>2
<1>16. ASSUME NEW c \in v12, Wiz!ConfirmDone(c)
       PROVE  Wiz!DraftInv'
  <2>1. /\ c.pc = "refresh" /\ v9' = None /\ v12' = v12 \ {c}
        /\ UNCHANGED <<v1, v2, v3, v16, v17>>
    BY <1>16 DEF Wiz!ConfirmDone, Wiz!Finish
  <2>2. c.listing \in v16 /\ Wiz!OfDraft(c.listing)
    BY <1>0, <1>g, <2>1
  <2>3. \A d \in v12 : d.listing \in v16
    BY <1>0, <1>g, <2>1, <2>2 DEF Wiz!OfDraft
  <2>4. \A d \in v12' : d.pc # "refresh"
    BY <1>0, <1>g, <2>1
  <2>5. Wiz!ConfirmsDraft'
    BY <2>1, <2>3, <2>4 DEF Wiz!ConfirmsDraft
  <2>6. Wiz!DraftKept'
    BY <2>1, <2>2 DEF Wiz!DraftKept, Wiz!OfDraft
  <2>. QED
    BY <2>5, <2>6 DEF Wiz!DraftInv
<1>17. ASSUME NEW c \in v12, NEW status, NEW reached, Wiz!ConfirmFailed(c, status, reached)
       PROVE  Wiz!DraftInv'
  <2>1. /\ v12' = v12 \ {c} /\ v16 \subseteq v16'
        /\ UNCHANGED <<v1, v2, v3, v9, v17>>
    BY <1>17 DEF Wiz!ConfirmFailed, Wiz!Finish
  <2>2. \A l : Wiz!OfDraft(l)' <=> Wiz!OfDraft(l)
    BY <2>1 DEF Wiz!OfDraft
  <2>3. Wiz!ConfirmsDraft'
    BY <1>0, <1>g, <2>1, <2>2 DEF Wiz!ConfirmsDraft
  <2>. QED
    BY <2>1, <2>3 DEF Wiz!DraftInv, Wiz!DraftKept
<1>18. CASE Wiz!handleStartOver
  <2>1. v9' = None /\ v2'.listing = None /\ v12' = {}
    BY <1>g, <1>18 DEF Wiz!handleStartOver, Wiz!INITIAL_FORM_DATA
  <2>. QED
    BY <2>1 DEF Wiz!DraftInv, Wiz!DraftKept, Wiz!ConfirmsDraft
<1>19. ASSUME NEW reload \in BOOLEAN, Wiz!Leave(reload)
       PROVE  Wiz!DraftInv'
  <2>1. v1' = FALSE /\ UNCHANGED <<v9, v16, v17>>
    BY <1>19 DEF Wiz!Leave
  <2>2. \A l : Wiz!OfDraft(l) => Wiz!OfDraft(l)'
    BY <2>1 DEF Wiz!OfDraft
  <2>3. \A c \in v12 : /\ [c EXCEPT !.here = FALSE].listing = c.listing
                     /\ [c EXCEPT !.here = FALSE].pc = c.pc
    BY DEF Wiz!TypeOK
  <2>4. v12' = {} \/ v12' = {[c EXCEPT !.here = FALSE] : c \in v12}
    BY <1>19 DEF Wiz!Leave
  <2>5. ASSUME NEW d \in v12'
        PROVE  \E c \in v12 : d = [c EXCEPT !.here = FALSE] /\ d.listing = c.listing /\ d.pc = c.pc
    <3>1. PICK c \in v12 : d = [c EXCEPT !.here = FALSE]
      BY <2>4
    <3>2. d.listing = c.listing /\ d.pc = c.pc
      BY <2>3, <3>1
    <3>. QED
      BY <3>1, <3>2
  <2>6. Wiz!ConfirmsDraft'
    <3>1. ASSUME NEW d \in v12'
          PROVE  /\ d.listing \in v16' \/ Wiz!OfDraft(d.listing)'
                 /\ d.pc = "refresh" => d.listing \in v16' /\ Wiz!OfDraft(d.listing)'
      BY <1>0, <1>g, <2>1, <2>2, <2>5
    <3>2. ASSUME NEW d \in v12', NEW g \in v12', d.pc = "refresh", g.pc = "refresh"
          PROVE  d = g
      <4>1. PICK c \in v12 : d = [c EXCEPT !.here = FALSE] /\ c.pc = "refresh"
        BY <2>5, <3>2
      <4>2. PICK e \in v12 : g = [e EXCEPT !.here = FALSE] /\ e.pc = "refresh"
        BY <2>5, <3>2
      <4>3. c = e
        BY <1>0, <1>g, <2>1, <4>1, <4>2
      <4>. QED
        BY <4>1, <4>2, <4>3
    <3>. QED
      BY <3>1, <3>2 DEF Wiz!ConfirmsDraft
  <2>. QED
    BY <2>1, <2>6 DEF Wiz!DraftInv, Wiz!DraftKept
<1>20. CASE Wiz!Open
  <2>1. ~v1 /\ v1' = TRUE /\ UNCHANGED <<v9, v12, v16, v17>>
    BY <1>20 DEF Wiz!Open
  <2>2. CASE v9 # None
    <3>1. /\ v2' = v9.form /\ v3' = v9.step
          /\ v9 \in [form : Wiz!Forms, step : 1..5]
      BY <1>t, <1>20, <2>2 DEF Wiz!Open
    <3>2. v9' = [form |-> v2', step |-> v3'] /\ v2'.listing # None
      BY <2>1, <2>2, <3>1 DEF Wiz!DraftNamed
    <3>3. \A l : Wiz!OfDraft(l) => Wiz!OfDraft(l)'
      BY <2>1, <3>1 DEF Wiz!OfDraft
    <3>4. Wiz!ConfirmsDraft'
      BY <1>0, <1>g, <2>1, <3>3 DEF Wiz!ConfirmsDraft
    <3>. QED
      BY <3>2, <3>4 DEF Wiz!DraftInv, Wiz!DraftKept
  <2>3. CASE v9 = None
    <3>1. v2' = v2 /\ v3' = v3 /\ v2.listing = None
      BY <1>0, <1>g, <1>20, <2>1, <2>3 DEF Wiz!Open
    <3>2. \A c \in v12 : c.listing \in v16 /\ c.pc # "refresh"
      BY <1>0, <1>g, <2>1, <2>3 DEF Wiz!OfDraft
    <3>3. Wiz!ConfirmsDraft'
      BY <2>1, <3>2 DEF Wiz!ConfirmsDraft
    <3>. QED
      BY <2>1, <2>3, <3>1, <3>3 DEF Wiz!DraftInv, Wiz!DraftKept
  <2>. QED
    BY <2>2, <2>3
<1>. QED
  BY <1>1, <1>2, <1>3, <1>e, <1>4, <1>5, <1>6, <1>7, <1>8, <1>9, <1>11, <1>12, <1>13, <1>14, <1>15,
     <1>16, <1>17, <1>18, <1>19, <1>20 DEF Wiz!Next, Wiz!ConfirmAnswer

\* What every step of the wizard keeps.
WizInv ==
  /\ Wiz!TypeOK /\ Wiz!DraftNamed /\ Wiz!GroundedInv /\ Wiz!DraftInv
  /\ Wiz!NoFrozenConfirm /\ Wiz!OneConfirm

\* The invariant of the wizard holds at first,
LEMMA WizInvInit ==
  ASSUME Wiz!Init
  PROVE  WizInv
<1>1. Wiz!NoFrozenConfirm /\ Wiz!OneConfirm
  BY DEF Wiz!Init, Wiz!NoFrozenConfirm, Wiz!OneConfirm
<1> QED
  BY <1>1, WizTypesInit, WizGroundedInit, WizDraftInit DEF WizInv

\* through every step of it,
LEMMA WizInvStep ==
  ASSUME WizInv, Wiz!Next
  PROVE  WizInv'
<1>1. /\ Wiz!TypeOK
      /\ Wiz!DraftNamed
      /\ Wiz!GroundedInv
      /\ Wiz!DraftInv
      /\ Wiz!NoFrozenConfirm
      /\ Wiz!OneConfirm
  BY DEF WizInv
<1>2. Wiz!TypeOK' /\ Wiz!DraftNamed'
  BY <1>1, WizTypesStep
<1>3. Wiz!GroundedInv'
  BY <1>1, <1>2, WizGroundedStep
<1>4. Wiz!NoFrozenConfirm' /\ Wiz!OneConfirm'
  BY <1>1, WizConfirmStep
<1>5. Wiz!DraftInv'
  BY <1>1, <1>2, WizDraftStep
<1> QED
  BY <1>2, <1>3, <1>4, <1>5 DEF WizInv

\* and while nothing happens.
LEMMA WizInvStutter ==
  ASSUME WizInv, UNCHANGED vars
  PROVE  WizInv'
<1>1. Wiz!TypeOK' /\ Wiz!DraftNamed' /\ Wiz!NoFrozenConfirm' /\ Wiz!OneConfirm'
  BY DEF vars, WizInv, Wiz!TypeOK, Wiz!DraftNamed, Wiz!NoFrozenConfirm, Wiz!OneConfirm
<1>2. Wiz!GroundedInv'
  BY DEF vars, WizInv, Wiz!GroundedInv, Wiz!Grounded, Wiz!OfListing, Wiz!GroundedRequests,
     Wiz!GroundedLeaving, Wiz!CreatingOrGone, Wiz!ConfirmedPhotos
<1>3. Wiz!DraftInv'
  BY DEF vars, WizInv, Wiz!DraftInv, Wiz!DraftKept, Wiz!ConfirmsDraft, Wiz!OfDraft
<1> QED
  BY <1>1, <1>2, <1>3 DEF WizInv
=============================================================================
