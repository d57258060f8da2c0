---------------------------- MODULE Forms_proofs ----------------------------
(***************************************************************************)
(* Theorems about the forms: no photo changes place in the upload form or  *)
(* in a demo, the pipeline starts on listings that have photos, no spinner *)
(* is left behind, and what the user left alone is kept.  One form is on   *)
(* screen for ever; the inductive invariant has a part per form, and a     *)
(* step of one form is no step of another.  v1, v2, ... are the variables  *)
(* of MC_Forms.                                                            *)
(***************************************************************************)
EXTENDS Wizard_proofs, SequenceTheorems

\* What a bounded sequence of files is,
LEMMA UploadBounded ==
  ASSUME NEW r \in Upload!BoundedSeq(Accepted, MAX_FILES)
  PROVE  r \in Seq(Accepted) /\ Len(r) \in 0..MAX_FILES /\ DOMAIN r = 1..Len(r)
<1>1. PICK m \in 0..MAX_FILES : r \in [1..m -> Accepted]
  BY DEF Upload!BoundedSeq, Upload!SeqOf
<1> QED
  BY <1>1, FormsAssumption

\* and that every short enough sequence is one.
LEMMA UploadBoundedOf ==
  ASSUME NEW r \in Seq(Accepted), Len(r) <= MAX_FILES
  PROVE  r \in Upload!BoundedSeq(Accepted, MAX_FILES)
<1>1. Len(r) \in 0..MAX_FILES /\ r \in [1..Len(r) -> Accepted]
  BY FormsAssumption, LenProperties
<1> QED
  BY <1>1 DEF Upload!BoundedSeq, Upload!SeqOf

\* The files of the form's rows, row by row.
LEMMA UploadFilesOf ==
  ASSUME NEW f \in Seq(Upload!Rows)
  PROVE  /\ Upload!FilesOf(f) \in Seq(Accepted) /\ Len(Upload!FilesOf(f)) = Len(f)
         /\ \A i \in 1..Len(f) : Upload!FilesOf(f)[i] = f[i].file
<1>1. f \in [1..Len(f) -> Upload!Rows] /\ Len(f) \in Nat
  BY LenProperties
<1>2. Upload!FilesOf(f) = [i \in 1..Len(f) |-> f[i].file]
  BY <1>1 DEF Upload!FilesOf
<1> QED
  BY <1>1, <1>2 DEF Upload!Rows

\* Row i of the form is file i of the batch.
Follows(r, f) == Len(r) <= Len(f) /\ \A i \in 1..Len(r) : r[i] = f[i].file

\* A batch is a prefix of the form's files when each of its rows is in place.
LEMMA UploadPrefix ==
  ASSUME NEW r \in Seq(Accepted), NEW f \in Seq(Upload!Rows)
  PROVE  Upload!IsPrefix(r, Upload!FilesOf(f)) <=> Follows(r, f)
<1> DEFINE g == Upload!FilesOf(f)
<1>1. g \in Seq(Accepted) /\ Len(g) = Len(f) /\ \A i \in 1..Len(f) : g[i] = f[i].file
  BY UploadFilesOf
<1> HIDE DEF g
<1>2. Len(r) \in Nat /\ Len(f) \in Nat
  BY LenProperties
<1>3. SubSeq(r, 1, Len(r)) = r
  BY SubSeqFull
<1>4. ASSUME Len(r) <= Len(f)
      PROVE  r = SubSeq(g, 1, Len(r)) <=> \A i \in 1..Len(r) : r[i] = g[i]
  <2> DEFINE h == SubSeq(g, 1, Len(r))
  <2>1. \A i \in 1..Len(r) : g[i] \in Accepted
    BY <1>1, <1>2, <1>4, ElementOfSeq
  <2>2. h \in Seq(Accepted) /\ Len(h) = Len(r) /\ \A i \in 1..Len(r) : h[i] = g[i]
    BY <1>2, <2>1, SubSeqProperties
  <2> HIDE DEF h
  <2> QED
    BY <2>2, SeqEqual
<1> QED
  BY SMTT(30), <1>1, <1>2, <1>3, <1>4 DEF Upload!IsPrefix, Follows, g

\* Files added at the end, up to the limit, leave the rows before them in place.
LEMMA UploadAppend ==
  ASSUME NEW f \in Seq(Upload!Rows), NEW r \in Seq(Accepted), NEW n \in 0..Len(f \o Upload!Pending(r))
  PROVE  /\ SubSeq(f \o Upload!Pending(r), 1, n) \in Seq(Upload!Rows)
         /\ Len(SubSeq(f \o Upload!Pending(r), 1, n)) = n
         /\ \A i \in 1..Len(f) : i <= n => SubSeq(f \o Upload!Pending(r), 1, n)[i] = f[i]
<1> DEFINE p == Upload!Pending(r)
           c == f \o p
<1>1. p \in Seq(Upload!Rows)
  <2>1. r \in [1..Len(r) -> Accepted] /\ Len(r) \in Nat
    BY LenProperties
  <2> QED
    BY <2>1 DEF Upload!Pending, Upload!Rows
<1> HIDE DEF p
<1>2. c \in Seq(Upload!Rows) /\ \A i \in 1..Len(f) : c[i] = f[i]
  BY <1>1, ConcatProperties, LenProperties
<1> HIDE DEF c
<1>3. n \in Nat /\ n <= Len(c) /\ Len(f) \in Nat /\ \A i \in 1..n : c[i] \in Upload!Rows
  BY <1>2, ElementOfSeq, LenProperties DEF c, p
<1>4. /\ SubSeq(c, 1, n) \in Seq(Upload!Rows) /\ Len(SubSeq(c, 1, n)) = n
      /\ \A i \in 1..n : SubSeq(c, 1, n)[i] = c[i]
  BY <1>3, SubSeqProperties
<1> QED
  BY <1>2, <1>3, <1>4 DEF c, p

\* Adding files makes no form shorter.
LEMMA UploadPending ==
  ASSUME NEW f \in Seq(Upload!Rows), NEW r \in Seq(Accepted)
  PROVE  Len(f \o Upload!Pending(r)) \in Nat /\ Len(f \o Upload!Pending(r)) >= Len(f)
<1>1. r \in [1..Len(r) -> Accepted] /\ Len(r) \in Nat
  BY LenProperties
<1>2. Upload!Pending(r) \in Seq(Upload!Rows)
  BY <1>1 DEF Upload!Pending, Upload!Rows
<1> QED
  BY <1>2, ConcatProperties, LenProperties

\* Removing a row makes a shorter form.
LEMMA UploadRemoveAt ==
  ASSUME NEW f \in Seq(Upload!Rows), NEW i \in DOMAIN f
  PROVE  Upload!RemoveAt(f, i) \in Seq(Upload!Rows) /\ Len(Upload!RemoveAt(f, i)) <= Len(f)
<1>1. Len(f) \in Nat /\ i \in 1..Len(f) /\ \A j \in 1..Len(f) : f[j] \in Upload!Rows
  BY ElementOfSeq, LenProperties
<1>2. i - 1 \in Int /\ i + 1 \in Int /\ 1 \in Int /\ Len(f) \in Int
  BY <1>1
<1>3. SubSeq(f, 1, i - 1) \in Seq(Upload!Rows) /\ Len(SubSeq(f, 1, i - 1)) = i - 1
  BY <1>1, <1>2, SubSeqProperties
<1>4. /\ SubSeq(f, i + 1, Len(f)) \in Seq(Upload!Rows)
      /\ Len(SubSeq(f, i + 1, Len(f))) = Len(f) - i
  BY <1>1, <1>2, SubSeqProperties
<1> QED
  BY SMTT(30), <1>1, <1>3, <1>4, ConcatProperties DEF Upload!RemoveAt

\* A change of status leaves every row its file.
SameFiles(f, g) ==
  /\ g \in Seq(Upload!Rows) /\ Len(g) = Len(f) /\ \A i \in 1..Len(f) : g[i].file = f[i].file

\* A form that does not change has the same files.
LEMMA UploadSame ==
  ASSUME NEW f \in Seq(Upload!Rows)
  PROVE  SameFiles(f, f)
BY DEF SameFiles

\* A change of status leaves every row its file.
LEMMA UploadStatus ==
  ASSUME NEW f \in Seq(Upload!Rows), NEW i \in DOMAIN f,
         NEW s \in {"pending", "uploading", "done", "error"}
  PROVE  SameFiles(f, [f EXCEPT ![i].status = s])
<1> DEFINE e == [f[i] EXCEPT !.status = s]
<1>1. i \in 1..Len(f) /\ f[i] \in Upload!Rows
  BY ElementOfSeq, LenProperties
<1>2. e \in Upload!Rows /\ e.file = f[i].file
  BY <1>1 DEF Upload!Rows
<1>3. [f EXCEPT ![i].status = s] = [f EXCEPT ![i] = e]
  OBVIOUS
<1> HIDE DEF e
<1> QED
  BY <1>1, <1>2, <1>3, ExceptSeq DEF SameFiles

\* So does the start of an upload.
LEMMA UploadStarts ==
  ASSUME NEW f \in Seq(Upload!Rows), NEW n \in Nat
  PROVE  SameFiles(f, [i \in DOMAIN f |-> IF i <= n THEN [f[i] EXCEPT !.status = "uploading"]
                                                   ELSE f[i]])
<1> DEFINE e(i) == IF i <= n THEN [f[i] EXCEPT !.status = "uploading"] ELSE f[i]
           g == [i \in 1..Len(f) |-> e(i)]
<1>1. Len(f) \in Nat /\ DOMAIN f = 1..Len(f) /\ \A i \in 1..Len(f) : f[i] \in Upload!Rows
  BY ElementOfSeq, LenProperties
<1>2. \A i \in 1..Len(f) : e(i) \in Upload!Rows /\ e(i).file = f[i].file
  BY <1>1 DEF Upload!Rows
<1>3. [i \in DOMAIN f |-> IF i <= n THEN [f[i] EXCEPT !.status = "uploading"] ELSE f[i]] = g
  BY <1>1
<1> HIDE DEF e
<1>4. g \in [1..Len(f) -> Upload!Rows] /\ Len(g) = Len(f)
  BY <1>1, <1>2
<1>5. g \in Seq(Upload!Rows) /\ \A i \in 1..Len(f) : g[i].file = f[i].file
  BY <1>1, <1>2, <1>4
<1> HIDE DEF g
<1> QED
  BY <1>3, <1>4, <1>5 DEF SameFiles

\* What every step of the form keeps.
UploadInv ==
  /\ Upload!TypeOK /\ Upload!BatchesOfForm /\ Upload!RegisteredIsStored
  /\ \A b \in v4 : b.here => Follows(b.rows, v2)

\* RowsFollowBatch, row by row.
LEMMA UploadFollows ==
  Upload!TypeOK => (Upload!RowsFollowBatch <=> \A b \in v4 : b.here => Follows(b.rows, v2))
<1> SUFFICES ASSUME Upload!TypeOK, NEW b \in v4
             PROVE  Upload!IsPrefix(b.rows, Upload!FilesOf(v2)) <=> Follows(b.rows, v2)
  BY DEF Upload!RowsFollowBatch
<1>1. v2 \in Seq(Upload!Rows) /\ b.rows \in Seq(Accepted)
  BY UploadBounded DEF Upload!TypeOK, Upload!Batches
<1> QED
  BY <1>1, UploadPrefix

\* The upload form starts empty.
LEMMA UploadInvInit ==
  ASSUME Upload!Init
  PROVE  UploadInv
<1>1. v2 \in Seq(Upload!Rows) /\ Len(v2) <= MAX_FILES
  BY FormsAssumption, EmptySeq DEF Upload!Init
<1>2. Upload!TypeOK
  BY <1>1 DEF Upload!Init, Upload!TypeOK
<1>3. v4 = {} /\ ~v3 /\ v6 \subseteq v5
  BY DEF Upload!Init
<1>4. Upload!BatchesOfForm /\ Upload!RegisteredIsStored
  BY <1>3 DEF Upload!BatchesOfForm, Upload!RegisteredIsStored
<1> QED
  BY <1>2, <1>3, <1>4 DEF UploadInv

\* A batch that moves on, its rows on screen keeping their files.
LEMMA UploadMoved ==
  ASSUME UploadInv, NEW b \in v4, NEW c \in Upload!Batches, c.rows = b.rows, c.here = b.here,
         c.done \subseteq DOMAIN c.rows, Upload!Successful(c) \subseteq v5',
         v5 \subseteq v5', v5' \subseteq Accepted, Upload!Move(b, c), UNCHANGED <<v1, v3, v6>>,
         SameFiles(v2, v2')
  PROVE  UploadInv'
<1>1. v4' = (v4 \ {b}) \cup {c}
  BY DEF Upload!Move
<1>2. Upload!TypeOK'
  BY <1>1 DEF UploadInv, Upload!TypeOK, SameFiles
<1>3. Upload!BatchesOfForm'
  BY <1>1 DEF UploadInv, Upload!BatchesOfForm, Upload!Successful
<1>4. \A r : Follows(r, v2) => Follows(r, v2')
  BY DEF SameFiles, Follows
<1>5. \A d \in v4' : d.here => Follows(d.rows, v2')
  BY <1>1, <1>4 DEF UploadInv
<1>6. Upload!RegisteredIsStored'
  BY DEF UploadInv, Upload!RegisteredIsStored
<1> QED
  BY <1>2, <1>3, <1>5, <1>6 DEF UploadInv, Follows

\* A batch that ends, its rows on screen kept or dropped.
LEMMA UploadEnded ==
  ASSUME UploadInv, NEW b \in v4, Upload!Finish(b), UNCHANGED <<v1, v5>>,
         v2' = v2 \/ (b.here /\ v2' = <<>>),
         v6' = v6 \/ v6' = v6 \cup Upload!Successful(b)
  PROVE  UploadInv'
<1>1. v4' = v4 \ {b} /\ v3' = IF b.here THEN FALSE ELSE v3
  BY DEF Upload!Finish
<1>2. Upload!RegisteredIsStored'
  BY DEF UploadInv, Upload!RegisteredIsStored, Upload!BatchesOfForm
<1>3. v2' \in Seq(Upload!Rows) /\ Len(v2') <= MAX_FILES
  <2>1. <<>> \in Seq(Upload!Rows) /\ Len(<<>>) <= MAX_FILES
    BY FormsAssumption, EmptySeq
  <2> QED
    BY <2>1 DEF UploadInv, Upload!TypeOK
<1>4. Upload!TypeOK'
  BY <1>1, <1>2, <1>3 DEF UploadInv, Upload!TypeOK, Upload!RegisteredIsStored
<1>5. Upload!BatchesOfForm'
  BY <1>1 DEF UploadInv, Upload!BatchesOfForm, Upload!Successful
<1>6. \A d \in v4' : d.here => Follows(d.rows, v2')
  BY <1>1 DEF UploadInv, Upload!BatchesOfForm
<1> QED
  BY <1>2, <1>4, <1>5, <1>6 DEF UploadInv, Follows

\* Every step of the upload form keeps the rows of a batch in place: files are added at
\* the end, and removed only while nothing uploads.
LEMMA UploadInvStep ==
  ASSUME UploadInv, Upload!Next
  PROVE  UploadInv'
<1> USE DEF Upload!serverVars
<1>t. /\ v2 \in Seq(Upload!Rows) /\ Len(v2) <= MAX_FILES /\ Len(v2) \in Nat
      /\ DOMAIN v2 = 1..Len(v2)
      /\ \A b \in v4 : b \in Upload!Batches
      /\ v5 \subseteq Accepted /\ MAX_FILES \in Nat
  BY FormsAssumption, LenProperties DEF UploadInv, Upload!TypeOK
<1>1. ASSUME NEW valid \in Upload!BoundedSeq(Accepted, MAX_FILES), Upload!addFiles(valid)
      PROVE  UploadInv'
  <2> DEFINE c == v2 \o Upload!Pending(valid)
             n == IF Len(c) > MAX_FILES THEN MAX_FILES ELSE Len(c)
  <2>1. valid \in Seq(Accepted)
    BY UploadBounded
  <2>2. Len(c) \in Nat /\ Len(c) >= Len(v2)
    BY <1>t, <2>1, UploadPending
  <2>3. n \in 0..Len(c) /\ n <= MAX_FILES /\ Len(v2) <= n
    BY <1>t, <2>2
  <2>4. v2' = SubSeq(c, 1, n) /\ UNCHANGED <<v1, v3, v4, v5, v6>>
    BY <1>1 DEF Upload!addFiles
  <2>5. v2' \in Seq(Upload!Rows) /\ Len(v2') = n /\ \A i \in 1..Len(v2) : v2'[i] = v2[i]
    BY <1>t, <2>1, <2>3, <2>4, UploadAppend
  <2> HIDE DEF n, c
  <2>6. \A r : Follows(r, v2) => Follows(r, v2')
    BY <1>t, <2>3, <2>5 DEF Follows
  <2>7. Upload!TypeOK'
    BY <2>3, <2>4, <2>5 DEF UploadInv, Upload!TypeOK
  <2> QED
    BY <2>4, <2>6, <2>7 DEF UploadInv, Follows, Upload!BatchesOfForm,
       Upload!RegisteredIsStored,
       Upload!Successful
<1>2. ASSUME NEW f, v2' = f, f \in Seq(Upload!Rows), Len(f) <= MAX_FILES, ~v3,
             UNCHANGED <<v1, v3, v4, v5, v6>>
      PROVE  UploadInv'
  <2>1. \A b \in v4 : ~b.here
    BY <1>2 DEF UploadInv, Upload!BatchesOfForm
  <2> QED
    BY <1>2, <2>1 DEF UploadInv, Follows, Upload!TypeOK, Upload!BatchesOfForm,
       Upload!RegisteredIsStored, Upload!Successful
<1>3. ASSUME NEW i \in 1..MAX_FILES, Upload!removeFile(i)
      PROVE  UploadInv'
  <2>1. /\ Upload!RemoveAt(v2, i) \in Seq(Upload!Rows)
        /\ Len(Upload!RemoveAt(v2, i)) <= MAX_FILES
    BY <1>t, <1>3, UploadRemoveAt DEF Upload!removeFile
  <2> QED
    BY <1>2, <1>3, <2>1 DEF Upload!removeFile
<1>4. CASE Upload!Clear
  <2>1. <<>> \in Seq(Upload!Rows) /\ Len(<<>>) <= MAX_FILES
    BY <1>t, EmptySeq
  <2> QED
    BY <1>2, <1>4, <2>1 DEF Upload!Clear, Upload!ButtonsIdle
<1>5. CASE Upload!handleUpload
  <2> DEFINE new == [rows |-> Upload!FilesOf(v2), pc |-> "urls", done |-> {}, failed |-> {},
                     here |-> TRUE]
  <2>1. Upload!FilesOf(v2) \in Seq(Accepted) /\ Len(Upload!FilesOf(v2)) = Len(v2)
    BY <1>t, UploadFilesOf
  <2>2. Upload!FilesOf(v2) \in Upload!BoundedSeq(Accepted, MAX_FILES)
    BY <1>t, <2>1, UploadBoundedOf
  <2>3. new \in Upload!Batches /\ new.here /\ new.done = {} /\ new.rows = Upload!FilesOf(v2)
    BY <2>2 DEF Upload!Batches
  <2>4. Follows(new.rows, v2) /\ Upload!Successful(new) = {}
    BY <1>t, <2>1, <2>3, UploadFilesOf DEF Follows, Upload!Successful
  <2>5. v4' = v4 \cup {new} /\ v3' = TRUE /\ ~v3 /\ v1 /\ UNCHANGED <<v1, v2, v5, v6>>
    BY <1>5 DEF Upload!handleUpload, Upload!ButtonsIdle, Upload!Previews
  <2> HIDE DEF new
  <2>6. Upload!TypeOK'
    BY <2>3, <2>5 DEF UploadInv, Upload!TypeOK
  <2>7. Upload!BatchesOfForm'
    BY <2>3, <2>4, <2>5 DEF UploadInv, Upload!BatchesOfForm, Upload!Successful
  <2> QED
    BY <2>4, <2>5, <2>6, <2>7 DEF UploadInv, Follows, Upload!RegisteredIsStored
<1>6. CASE Upload!Leave
  <2>1. \A b \in v4 : LET c == [b EXCEPT !.here = FALSE]
                      IN c \in Upload!Batches /\ c.here = FALSE /\ c.done = b.done /\ c.rows = b.rows
    BY <1>t DEF Upload!Batches
  <2>2. v2' \in Seq(Upload!Rows) /\ Len(v2') <= MAX_FILES
    BY <1>t, <1>6, EmptySeq DEF Upload!Leave
  <2>3. Upload!TypeOK'
    BY <1>6, <2>1, <2>2 DEF UploadInv, Upload!TypeOK, Upload!Leave
  <2>s. \A b \in v4 : Upload!Successful([b EXCEPT !.here = FALSE]) = Upload!Successful(b)
    BY <2>1 DEF Upload!Successful
  <2>a. \A c \in v4' : ~c.here /\ c.done \subseteq DOMAIN c.rows /\ Upload!Successful(c) \subseteq v5
    <3> TAKE c \in v4'
    <3>1. PICK b \in v4 : c = [b EXCEPT !.here = FALSE]
      BY <1>6 DEF Upload!Leave
    <3>2. b.done \subseteq DOMAIN b.rows /\ Upload!Successful(b) \subseteq v5
      BY DEF UploadInv, Upload!BatchesOfForm
    <3> QED
      BY <2>1, <2>s, <3>1, <3>2
  <2>b. ~v3' /\ v5' = v5
    BY <1>6 DEF Upload!Leave
  <2>4. Upload!BatchesOfForm' /\ \A b \in v4' : ~b.here
    BY <2>a, <2>b DEF Upload!BatchesOfForm, Upload!Successful
  <2> QED
    BY <1>6, <2>3, <2>4 DEF UploadInv, Follows, Upload!RegisteredIsStored, Upload!Leave
<1>7. CASE Upload!Return
  <2>1. Upload!TypeOK'
    BY <1>7 DEF UploadInv, Upload!TypeOK, Upload!Return
  <2> QED
    BY <1>7, <2>1 DEF UploadInv, Follows, Upload!BatchesOfForm, Upload!RegisteredIsStored,
       Upload!Successful, Upload!Return
<1>8. ASSUME NEW b \in v4, Upload!Presigned(b)
      PROVE  UploadInv'
  <2> DEFINE c == [b EXCEPT !.pc = "send"]
  <2>1. c \in Upload!Batches /\ c.rows = b.rows /\ c.here = b.here /\ c.done = b.done
    BY <1>t DEF Upload!Batches
  <2>2. Len(b.rows) \in Nat
    BY <1>t, UploadBounded DEF Upload!Batches
  <2>3. SameFiles(v2, v2')
    BY <1>t, <1>8, <2>2, UploadStarts, UploadSame DEF Upload!Presigned
  <2>4. Upload!Successful(c) = Upload!Successful(b)
    BY <2>1 DEF Upload!Successful
  <2>5. Upload!Move(b, c) /\ UNCHANGED <<v1, v3, v5, v6>>
    BY <1>8 DEF Upload!Presigned
  <2>6. c.done \subseteq DOMAIN c.rows /\ Upload!Successful(c) \subseteq v5
    BY <2>1, <2>4 DEF UploadInv, Upload!BatchesOfForm
  <2> HIDE DEF c
  <2> QED
    BY <1>t, <2>1, <2>3, <2>5, <2>6, UploadMoved
<1>9. ASSUME NEW b \in v4, NEW i \in 1..MAX_FILES, Upload!Sent(b, i)
      PROVE  UploadInv'
  <2> DEFINE c == [b EXCEPT !.done = @ \cup {i}]
  <2>1. /\ c \in Upload!Batches
        /\ c.rows = b.rows
        /\ c.here = b.here
        /\ c.done = b.done \cup {i}
    BY <1>t DEF Upload!Batches
  <2>2. i \in DOMAIN b.rows /\ b.rows[i] \in Accepted /\ v5' = v5 \cup {b.rows[i]}
    <3>1. b.rows \in Seq(Accepted) /\ i \in DOMAIN b.rows /\ v5' = v5 \cup {b.rows[i]}
      BY <1>t, <1>9, UploadBounded DEF Upload!Sent, Upload!Waiting, Upload!Batches
    <3> QED
      BY <3>1, ElementOfSeq, LenProperties
  <2>3. SameFiles(v2, v2')
    BY <1>t, <1>9, UploadStatus, UploadSame DEF Upload!Sent, Upload!SetStatus
  <2>4. c.done \subseteq DOMAIN c.rows /\ Upload!Successful(c) \subseteq v5'
    BY <2>1, <2>2 DEF UploadInv, Upload!BatchesOfForm, Upload!Successful
  <2>5. Upload!Move(b, c) /\ UNCHANGED <<v1, v3, v6>>
    BY <1>9 DEF Upload!Sent
  <2> HIDE DEF c
  <2> QED
    BY <1>t, <2>1, <2>2, <2>3, <2>4, <2>5, UploadMoved
<1>10. ASSUME NEW b \in v4, NEW i \in 1..MAX_FILES, Upload!SendFailed(b, i)
       PROVE  UploadInv'
  <2> DEFINE c == [b EXCEPT !.failed = @ \cup {i}]
  <2>1. c \in Upload!Batches /\ c.rows = b.rows /\ c.here = b.here /\ c.done = b.done
    BY <1>t DEF Upload!Batches
  <2>2. SameFiles(v2, v2')
    BY <1>t, <1>10, UploadStatus, UploadSame DEF Upload!SendFailed, Upload!SetStatus
  <2>3. c.done \subseteq DOMAIN c.rows /\ Upload!Successful(c) \subseteq v5
    BY <2>1 DEF UploadInv, Upload!BatchesOfForm, Upload!Successful
  <2>4. Upload!Move(b, c) /\ UNCHANGED <<v1, v3, v5, v6>>
    BY <1>10 DEF Upload!SendFailed
  <2> HIDE DEF c
  <2> QED
    BY <1>t, <2>1, <2>2, <2>3, <2>4, UploadMoved
<1>11. ASSUME NEW b \in v4, Upload!AllSent(b)
       PROVE  UploadInv'
  <2>1. CASE b.done = {}
    BY <1>11, <2>1, UploadEnded DEF Upload!AllSent
  <2>2. CASE b.done # {}
    <3> DEFINE c == [b EXCEPT !.pc = "register"]
    <3>1. c \in Upload!Batches /\ c.rows = b.rows /\ c.here = b.here /\ c.done = b.done
      BY <1>t DEF Upload!Batches
    <3>2. c.done \subseteq DOMAIN c.rows /\ Upload!Successful(c) \subseteq v5
      BY <3>1 DEF UploadInv, Upload!BatchesOfForm, Upload!Successful
    <3>3. Upload!Move(b, c) /\ UNCHANGED <<v1, v2, v3, v5, v6>>
      BY <1>11, <2>2 DEF Upload!AllSent
    <3>4. SameFiles(v2, v2')
      BY <1>t, <3>3, UploadSame
    <3> HIDE DEF c
    <3> QED
      BY <1>t, <3>1, <3>2, <3>3, <3>4, UploadMoved
  <2> QED
    BY <2>1, <2>2
<1>12. ASSUME NEW b \in v4, Upload!Registered(b)
       PROVE  UploadInv'
  BY <1>12, UploadEnded DEF Upload!Registered
<1>13. ASSUME NEW b \in v4, NEW reached \in BOOLEAN, Upload!UploadFailed(b, reached)
       PROVE  UploadInv'
  BY <1>13, UploadEnded DEF Upload!UploadFailed
<1> QED
  BY <1>1, <1>3, <1>4, <1>5, <1>6, <1>7, <1>8, <1>9, <1>10, <1>11, <1>12, <1>13
     DEF Upload!Next, Upload!UploadAnswer

\* The form has one batch of its own at most, and spins exactly while there is one.
LEMMA UploadSpins ==
  ASSUME UploadInv
  PROVE  Upload!SpinsForOwnBatch
<1> DEFINE H == {b \in v4 : b.here}
<1>1. Upload!Cardinality(H) = Cardinality(H)
  BY DEF Upload!Cardinality, Cardinality
<1>2. CASE v3
  <2>1. PICK b \in v4 : b.here
    BY <1>2 DEF UploadInv, Upload!BatchesOfForm
  <2>2. H = {b}
    BY <2>1 DEF UploadInv, Upload!BatchesOfForm
  <2> QED
    BY <1>1, <1>2, <2>2, FS_Singleton DEF Upload!SpinsForOwnBatch
<1>3. CASE ~v3
  <2>1. H = {}
    BY <1>3 DEF UploadInv, Upload!BatchesOfForm
  <2> QED
    BY <1>1, <1>3, <2>1, FS_EmptySet DEF Upload!SpinsForOwnBatch
<1> QED
  BY <1>2, <1>3

\* The team page loads exactly while one of its requests is under way.
LEMMA TeamLoads ==
  /\ Team!Init => Team!LoadingIsFetching
  /\ Team!LoadingIsFetching /\ Team!Next => Team!LoadingIsFetching'
<1>1. ASSUME Team!Init
      PROVE  Team!LoadingIsFetching
  BY <1>1 DEF Team!Init, Team!LoadingIsFetching
<1>2. ASSUME Team!LoadingIsFetching, Team!Next
      PROVE  Team!LoadingIsFetching'
  <2> USE DEF Team!LoadingIsFetching
  <2> DEFINE Goal == v5' => v11' # {}
  <2>0. ASSUME UNCHANGED <<v5, v11>>
        PROVE  Goal
    BY <1>2, <2>0
  <2>1. ASSUME NEW f \in v11, Team!TeamRead(f)
        PROVE  Goal
    <3> DEFINE g == [f EXCEPT !.team = TRUE, !.unread = Team!Listed]
    <3>1. v11' = (v11 \ {f}) \cup {g}
      BY <2>1 DEF Team!TeamRead
    <3> HIDE DEF g
    <3> QED
      BY <3>1
  <2>2. ASSUME NEW f \in v11, NEW b \in BOOLEAN, Team!TeamUnread(f, b)
        PROVE  Goal
    BY <2>2 DEF Team!TeamUnread
  <2>3. ASSUME NEW f \in v11, NEW p \in People, NEW ok \in BOOLEAN, Team!GrantsRead(f, p, ok)
        PROVE  Goal
    BY <2>3 DEF Team!GrantsRead
  <2>4. ASSUME NEW f \in v11, Team!Fetched(f)
        PROVE  Goal
    BY <2>4 DEF Team!Fetched
  <2>5. ASSUME NEW p, NEW step, NEW to, NEW old, Team!Change(p, step, to, old)
        PROVE  Goal
    BY <2>0, <2>5 DEF Team!Change
  <2>6. ASSUME NEW p \in People, Team!setRemoveTarget(p)
        PROVE  Goal
    BY <2>0, <2>6 DEF Team!setRemoveTarget
  <2>7. ASSUME NEW n, Team!fetchData(n)
        PROVE  Goal
    BY <2>7 DEF Team!fetchData
  <2>8. ASSUME NEW c \in v10, Team!Succeeded(c)
        PROVE  Goal
    BY <2>0, <2>7, <2>8 DEF Team!Succeeded
  <2>9. ASSUME NEW c \in v10, Team!AfterFailure(c)
        PROVE  Goal
    BY <2>0, <2>7, <2>9 DEF Team!AfterFailure
  <2>10. ASSUME \/ \E p \in People : Team!handleInvite(p)
                \/ \E p \in People, r \in Team!Roles : Team!handleRoleChange(p, r)
                \/ \E p \in People, to \in Team!Permissions \cup {None} :
                      Team!handleListingAccessChange(p, to)
                \/ Team!confirmRemove
         PROVE  Goal
    BY <2>5, <2>10 DEF Team!handleInvite, Team!handleRoleChange,
       Team!handleListingAccessChange,
       Team!confirmRemove
  <2>11. ASSUME \/ \E c \in v10 : Team!Refused(c)
                \/ \E c \in v10 : Team!Lost(c)
         PROVE  Goal
    BY <2>9, <2>11 DEF Team!Refused, Team!Lost
  <2> QED
    BY ZenonT(30), <1>2, <2>1, <2>2, <2>3, <2>4, <2>6, <2>8, <2>10, <2>11 DEF Team!Next
<1> QED
  BY <1>1, <1>2

\* What a bounded sequence of rows is,
LEMMA DemoBounded ==
  ASSUME NEW S, NEW r \in Demo!BoundedSeq(S, MAX_FILES)
  PROVE  /\ r \in Seq(S) /\ Len(r) \in 0..MAX_FILES /\ DOMAIN r = 1..Len(r)
         /\ \A i \in 1..Len(r) : r[i] \in S
<1>1. PICK m \in 0..MAX_FILES : r \in [1..m -> S]
  BY DEF Demo!BoundedSeq, Demo!SeqOf
<1> QED
  BY <1>1, FormsAssumption

\* that every short enough sequence is one,
LEMMA DemoBoundedOf ==
  ASSUME NEW S, NEW r \in Seq(S), Len(r) <= MAX_FILES
  PROVE  r \in Demo!BoundedSeq(S, MAX_FILES)
<1>1. Len(r) \in 0..MAX_FILES /\ r \in [1..Len(r) -> S]
  BY FormsAssumption, LenProperties
<1> QED
  BY <1>1 DEF Demo!BoundedSeq, Demo!SeqOf

\* and that it stays one without one of its rows.
LEMMA DemoRemoveAt ==
  ASSUME NEW S, NEW f \in Demo!BoundedSeq(S, MAX_FILES), NEW i \in DOMAIN f
  PROVE  Demo!RemoveAt(f, i) \in Demo!BoundedSeq(S, MAX_FILES)
<1>0. f \in Seq(S) /\ Len(f) <= MAX_FILES
  BY DemoBounded, FormsAssumption
<1>1. Len(f) \in Nat /\ i \in 1..Len(f) /\ \A j \in 1..Len(f) : f[j] \in S
  BY <1>0, ElementOfSeq, LenProperties
<1>2. i - 1 \in Int /\ i + 1 \in Int /\ 1 \in Int /\ Len(f) \in Int
  BY <1>1
<1>3. SubSeq(f, 1, i - 1) \in Seq(S) /\ Len(SubSeq(f, 1, i - 1)) = i - 1
  BY <1>1, <1>2, SubSeqProperties
<1>4. SubSeq(f, i + 1, Len(f)) \in Seq(S) /\ Len(SubSeq(f, i + 1, Len(f))) = Len(f) - i
  BY <1>1, <1>2, SubSeqProperties
<1>5. Demo!RemoveAt(f, i) \in Seq(S) /\ Len(Demo!RemoveAt(f, i)) <= MAX_FILES
  BY SMTT(30), <1>0, <1>1, <1>3, <1>4, ConcatProperties, FormsAssumption DEF Demo!RemoveAt
<1> QED
  BY <1>5, DemoBoundedOf

\* Marking a row changes its status and nothing else.
LEMMA DemoMarked ==
  ASSUME NEW i, NEW s \in {"pending", "done", "error"},
         v1 \in Demo!BoundedSeq(Demo!Rows, MAX_FILES)
  PROVE  /\ Demo!Marked(i, s) \in Demo!BoundedSeq(Demo!Rows, MAX_FILES)
         /\ Len(Demo!Marked(i, s)) = Len(v1)
         /\ \A j \in 1..Len(v1) : /\ Demo!Marked(i, s)[j].file = v1[j].file
                                 /\ Demo!Marked(i, s)[j].status = IF j = i THEN s ELSE v1[j].status
<1> DEFINE e(j) == IF j = i THEN [v1[j] EXCEPT !.status = s] ELSE v1[j]
           g == [j \in 1..Len(v1) |-> e(j)]
<1>1. /\ v1 \in Seq(Demo!Rows) /\ Len(v1) \in Nat /\ Len(v1) <= MAX_FILES
      /\ DOMAIN v1 = 1..Len(v1) /\ \A j \in 1..Len(v1) : v1[j] \in Demo!Rows
  BY DemoBounded, FormsAssumption
<1>2. \A j \in 1..Len(v1) : /\ e(j) \in Demo!Rows /\ e(j).file = v1[j].file
                          /\ e(j).status = IF j = i THEN s ELSE v1[j].status
  BY <1>1 DEF Demo!Rows
<1>3. Demo!Marked(i, s) = g
  BY <1>1 DEF Demo!Marked
<1> HIDE DEF e
<1>4. g \in [1..Len(v1) -> Demo!Rows]
  BY <1>2
<1>5. g \in Seq(Demo!Rows) /\ Len(g) = Len(v1)
  BY <1>1, <1>4
<1>6. \A j \in 1..Len(v1) : g[j] = e(j)
  OBVIOUS
<1> HIDE DEF g
<1> QED
  BY <1>1, <1>2, <1>3, <1>5, <1>6, DemoBoundedOf

\* What every step of the demo keeps; the part of TypeOK it needs.
DemoInv ==
  /\ v1 \in Demo!BoundedSeq(Demo!Rows, MAX_FILES) /\ v3 \in Demo!Batches \cup {None}
  /\ Demo!RowsOfBatch /\ Demo!DoneIsStored

\* The demo starts empty.
LEMMA DemoInvInit ==
  ASSUME Demo!Init
  PROVE  DemoInv
<1>1. <<>> \in Seq(Demo!Rows) /\ Len(<<>>) <= MAX_FILES
  BY EmptySeq, FormsAssumption
<1> QED
  BY <1>1, DemoBoundedOf DEF Demo!Init, DemoInv, Demo!RowsOfBatch, Demo!DoneIsStored

\* Every step of a demo keeps its rows in line with the run over them, and a row is done
\* only when its photo is stored.
LEMMA DemoInvStep ==
  ASSUME DemoInv, Demo!Next
  PROVE  DemoInv'
<1> USE DEF Demo!formVars, Demo!serverVars, Demo!visitVars
<1>t. /\ /\ v1 \in Seq(Demo!Rows)
      /\ Len(v1) \in Nat
      /\ Len(v1) <= MAX_FILES
      /\ MAX_FILES \in Nat
      /\ DOMAIN v1 = 1..Len(v1) /\ \A i \in 1..Len(v1) : v1[i] \in Demo!Rows
      /\ v1 \in Demo!BoundedSeq(Demo!Rows, MAX_FILES)
  BY DemoBounded, FormsAssumption DEF DemoInv
<1>b. ASSUME v3 # None
      PROVE  /\ v3 \in Demo!Batches /\ v3.next \in Nat /\ Len(v3.photos) \in Nat
             /\ DOMAIN v3.photos = 1..Len(v3.photos) /\ v3.photos \in Seq(DemoFiles)
             /\ v2 /\ Len(v3.photos) <= Len(v1) /\ Len(v3.photos) <= MAX_FILES
             /\ \A i \in 1..Len(v3.photos) : v1[i].file = v3.photos[i]
  <2>1. v3 \in Demo!Batches
    BY <1>b DEF DemoInv
  <2>2. /\ v3.photos \in Demo!BoundedSeq(DemoFiles, MAX_FILES)
        /\ v3.next \in 0..(MAX_FILES + 1)
    BY <2>1 DEF Demo!Batches
  <2>3. /\ v3.photos \in Seq(DemoFiles) /\ DOMAIN v3.photos = 1..Len(v3.photos)
        /\ Len(v3.photos) \in 0..MAX_FILES
    BY <2>2, DemoBounded
  <2> QED
    BY <1>b, <1>t, <2>1, <2>2, <2>3 DEF DemoInv, Demo!RowsOfBatch
\* The batch is over, and what is stored is not looked at.
<1>1. ASSUME v3' = None, v1' = v1
      PROVE  DemoInv'
  BY <1>1 DEF DemoInv, Demo!RowsOfBatch, Demo!DoneIsStored
\* The form keeps its rows, and what is stored grows or is not looked at.
<1>2. ASSUME UNCHANGED <<v1, v2, v3>>, Demo!There' /\ ~v7' => Demo!There /\ ~v7 /\ v5 \subseteq v5'
      PROVE  DemoInv'
  BY <1>2 DEF DemoInv, Demo!RowsOfBatch, Demo!DoneIsStored
<1>3. ASSUME NEW f \in DemoFiles, Demo!addFiles(f)
      PROVE  DemoInv'
  <2> DEFINE r == [file |-> f, status |-> "pending"]
  <2>1. r \in Demo!Rows /\ r.status = "pending"
    BY DEF Demo!Rows
  <2>2. /\ v1' = Append(v1, r) /\ UNCHANGED <<v2, v3, v5, v6, v7>> /\ Len(v1) < MAX_FILES
    BY <1>3 DEF Demo!addFiles
  <2> HIDE DEF r
  <2>3. /\ v1' \in Seq(Demo!Rows) /\ Len(v1') = Len(v1) + 1 /\ v1'[Len(v1) + 1] = r
        /\ \A i \in 1..Len(v1) : v1'[i] = v1[i]
    BY <1>t, <2>1, <2>2, AppendProperties
  <2>a. DOMAIN v1' = 1..(Len(v1) + 1) /\ Len(v1') <= MAX_FILES
    BY <1>t, <2>2, <2>3, LenProperties
  <2>4. v1' \in Demo!BoundedSeq(Demo!Rows, MAX_FILES) /\ DOMAIN v1' = 1..(Len(v1) + 1)
    BY <2>3, <2>a, DemoBoundedOf
  <2>5. Demo!RowsOfBatch'
    <3> SUFFICES ASSUME v3 # None
                 PROVE  /\ v2 /\ Len(v3.photos) <= Len(v1')
                        /\ \A i \in DOMAIN v3.photos : v1'[i].file = v3.photos[i]
      BY <2>2 DEF Demo!RowsOfBatch
    <3>1. v2 /\ Len(v3.photos) <= Len(v1')
      BY <1>t, <1>b, <2>3
    <3>2. \A i \in 1..Len(v3.photos) : v1'[i] = v1[i]
      BY <1>t, <1>b, <2>3
    <3> QED
      BY <1>b, <3>1, <3>2
  <2>6. Demo!DoneIsStored'
    BY <1>t, <2>1, <2>2, <2>3, <2>4 DEF DemoInv, Demo!DoneIsStored, Demo!There
  <2> QED
    BY <2>2, <2>4, <2>5, <2>6 DEF DemoInv
<1>4. ASSUME v1' \in Demo!BoundedSeq(Demo!Rows, MAX_FILES), ~v2, v3' = v3
      PROVE  DemoInv'
  <2>1. v3 = None
    BY <1>4 DEF DemoInv, Demo!RowsOfBatch
  <2> QED
    BY <1>4, <2>1 DEF DemoInv, Demo!RowsOfBatch, Demo!DoneIsStored
<1>5. ASSUME NEW i \in DOMAIN v1, Demo!removeFile(i)
      PROVE  DemoInv'
  BY <1>t, <1>4, <1>5, DemoRemoveAt DEF Demo!removeFile, Demo!RemoveButton
<1>6. CASE Demo!ClearAll
  <2>1. <<>> \in Seq(Demo!Rows) /\ Len(<<>>) <= MAX_FILES
    BY EmptySeq, <1>t
  <2> QED
    BY <1>4, <1>6, <2>1, DemoBoundedOf DEF Demo!ClearAll, Demo!RemoveButton
<1>7. CASE Demo!handleUpload
  <2> DEFINE p == [i \in DOMAIN v1 |-> v1[i].file]
             b == [photos |-> p, next |-> 0, keys |-> {}]
  <2>1. p \in [1..Len(v1) -> DemoFiles]
    BY <1>t DEF Demo!Rows
  <2>2. p \in Seq(DemoFiles) /\ Len(p) = Len(v1) /\ \A i \in 1..Len(v1) : p[i] = v1[i].file
    BY <1>t, <2>1
  <2> HIDE DEF p
  <2>3. p \in Demo!BoundedSeq(DemoFiles, MAX_FILES)
    BY <1>t, <2>2, DemoBoundedOf
  <2>4. b \in Demo!Batches /\ b.photos = p /\ b.next = 0
    BY <1>t, <2>3 DEF Demo!Batches
  <2>5. v3' = b /\ v2' = TRUE /\ v1' = v1
    BY <1>7 DEF Demo!handleUpload, p
  <2> HIDE DEF b
  <2>6. Demo!RowsOfBatch'
    BY <1>t, <2>2, <2>4, <2>5 DEF Demo!RowsOfBatch
  <2>7. Demo!DoneIsStored'
    BY <1>t, <2>4, <2>5 DEF Demo!DoneIsStored
  <2> QED
    BY <2>4, <2>5, <2>6, <2>7 DEF DemoInv
<1>8. CASE Demo!demo_create
  <2>1. v3 # None /\ v1' = v1 /\ v2' = v2 /\ v3' = [v3 EXCEPT !.next = 1]
    BY <1>8 DEF Demo!demo_create, Demo!Creates
  <2>2. v3' \in Demo!Batches /\ v3'.photos = v3.photos /\ v3'.next = 1
    BY SMTT(30), <1>t, <1>b, <2>1 DEF Demo!Batches
  <2>3. Demo!RowsOfBatch'
    BY <1>b, <2>1, <2>2 DEF Demo!RowsOfBatch
  <2>4. Demo!DoneIsStored'
    BY <1>t, <2>1, <2>2 DEF Demo!DoneIsStored
  <2> QED
    BY <2>1, <2>2, <2>3, <2>4 DEF DemoInv
\* One photo tried: its row, and nothing else, is marked.
<1>9. ASSUME v3 # None, v3.next \in 1..Len(v3.photos), NEW s \in {"done", "error"},
             v1' = Demo!Marked(v3.next, s), v3'.next = v3.next + 1, v3'.photos = v3.photos,
             v3' \in Demo!Batches, v5 \subseteq v5', s = "done" => v3.photos[v3.next] \in v5',
             UNCHANGED <<v2, v6, v7>>
      PROVE  DemoInv'
  <2>1. /\ v1' \in Demo!BoundedSeq(Demo!Rows, MAX_FILES) /\ Len(v1') = Len(v1)
        /\ \A j \in 1..Len(v1) : /\ v1'[j].file = v1[j].file
                                /\ v1'[j].status = IF j = v3.next THEN s ELSE v1[j].status
    BY SMTT(30), <1>t, <1>9, DemoMarked
  <2>2. Demo!RowsOfBatch'
    BY SMTT(30), <1>b, <1>9, <2>1 DEF Demo!RowsOfBatch
  <2>3. DOMAIN v1' = 1..Len(v1)
    BY <2>1, DemoBounded
  <2>4. Demo!DoneIsStored'
    <3> SUFFICES ASSUME Demo!There, ~v7, NEW j \in 1..Len(v1), v3.next + 1 > j, v1'[j].status = "done"
                 PROVE  v1'[j].file \in v5'
      BY <1>9, <2>3 DEF Demo!DoneIsStored, Demo!There
    <3>1. CASE j = v3.next
      BY <1>b, <1>9, <2>1, <3>1
    <3>2. CASE j # v3.next
      <4>1. v3.next > j /\ v1[j].status = "done"
        BY <1>b, <1>t, <1>9, <2>1, <3>2
      <4>2. v1[j].file \in v5
        BY <1>t, <1>9, <4>1 DEF DemoInv, Demo!DoneIsStored
      <4> QED
        BY <1>9, <2>1, <4>2
    <3> QED
      BY <3>1, <3>2
  <2> QED
    BY <1>9, <2>1, <2>2, <2>4 DEF DemoInv
<1>10. CASE Demo!Uploaded
  <2>1. v3 # None /\ v3.next \in 1..Len(v3.photos)
    BY <1>10 DEF Demo!Uploaded
  <2>2. /\ v3' = [v3 EXCEPT !.next = v3.next + 1, !.keys = v3.keys \cup {v3.next}]
        /\ v1' = Demo!Marked(v3.next, "done") /\ v5' = v5 \cup {v3.photos[v3.next]}
        /\ UNCHANGED <<v2, v6, v7>>
    BY <1>10 DEF Demo!Uploaded
  <2>n. v3.next + 1 \in 0..(MAX_FILES + 1) /\ v3.next \in 1..MAX_FILES
    BY <1>b, <1>t, <2>1
  <2>3. v3' \in Demo!Batches /\ v3'.next = v3.next + 1 /\ v3'.photos = v3.photos
    BY <1>b, <2>1, <2>2, <2>n DEF Demo!Batches
  <2> QED
    BY <1>9, <2>1, <2>2, <2>3
<1>11. CASE Demo!NotUploaded
  <2>1. v3 # None /\ v3.next \in 1..Len(v3.photos)
    BY <1>11 DEF Demo!NotUploaded
  <2>2. /\ v3' = [v3 EXCEPT !.next = v3.next + 1]
        /\ v1' = Demo!Marked(v3.next, "error") /\ UNCHANGED <<v2, v5, v6, v7>>
    BY <1>11 DEF Demo!NotUploaded
  <2>n. v3.next + 1 \in 0..(MAX_FILES + 1) /\ v3.next \in 1..MAX_FILES
    BY <1>b, <1>t, <2>1
  <2>3. v3' \in Demo!Batches /\ v3'.next = v3.next + 1 /\ v3'.photos = v3.photos
    BY <1>b, <2>1, <2>2, <2>n DEF Demo!Batches
  <2> QED
    BY <1>9, <2>1, <2>2, <2>3
<1>12. CASE Demo!Refused \/ Demo!CreateLost \/ Demo!TooFew \/ Demo!demo_finalize \/ Demo!NotFinalized
  BY <1>1, <1>12 DEF Demo!Refused, Demo!CreateLost, Demo!TooFew, Demo!demo_finalize,
     Demo!NotFinalized, Demo!UploadFailed
<1>13. ASSUME NEW v \in People, \/ Demo!demo_view(v) \/ Demo!handleClaim(v) \/ Demo!CheckClaim(v)
                               \/ Demo!ToRegister(v) \/ Demo!Registered(v) \/ Demo!Arrived(v)
       PROVE  DemoInv'
  BY <1>2, <1>13 DEF Demo!demo_view, Demo!handleClaim, Demo!CheckClaim, Demo!ToRegister,
     Demo!Registered, Demo!Arrived, Demo!There
<1>14. ASSUME NEW v \in People, Demo!demo_claim(v)
       PROVE  DemoInv'
  BY <1>2, <1>14 DEF Demo!demo_claim, Demo!There
<1>15. CASE Demo!Expire
  BY <1>2, <1>15 DEF Demo!Expire, Demo!Open, Demo!There
<1>16. CASE Demo!SelectExpired
  BY <1>2, <1>16 DEF Demo!SelectExpired
<1>17. CASE Demo!cleanup_expired_demos
  BY <1>2, <1>17 DEF Demo!cleanup_expired_demos, Demo!There
<1> QED
  BY <1>3, <1>5, <1>6, <1>7, <1>8, <1>10, <1>11, <1>12, <1>13, <1>14, <1>15, <1>16, <1>17
     DEF Demo!Next

\* The fields of a demo listing, and of a run over the photos.
DemoFields == {"is_demo", "owner", "photos", "expired", "deleted"}
RunFields == {"photos", "next", "keys"}
IsDemo(d) == DOMAIN d = DemoFields /\ d.photos \subseteq DemoFiles /\ d.deleted \in BOOLEAN

\* What every step of a demo keeps besides: a claim found the demo open and alone, and the
\* photos of what is there are in storage.
ClaimsInv ==
  /\ v3 # None => DOMAIN v3 = RunFields
  /\ v6 # None => IsDemo(v6)
  /\ DOMAIN v8 = People /\ DOMAIN v9 = People /\ v10 \in [People -> {0, 1}]
  /\ v5 \subseteq DemoFiles
  /\ Demo!ClaimInv

\* At first nobody claims anything,
LEMMA ClaimsInvInit ==
  ASSUME Demo!Init
  PROVE  ClaimsInv
BY DEF Demo!Init, ClaimsInv, Demo!ClaimInv, Demo!There

\* and every step keeps it.
LEMMA ClaimsInvStep ==
  ASSUME DemoInv, ClaimsInv, Demo!Next
  PROVE  ClaimsInv'
<1>. USE DEF Demo!formVars, Demo!serverVars, Demo!visitVars
<1>n. None \notin Demo!Demos
  BY ToldAssumption
<1>0. /\ v3 # None => DOMAIN v3 = RunFields
      /\ v6 # None => IsDemo(v6)
      /\ DOMAIN v8 = People /\ DOMAIN v9 = People /\ v10 \in [People -> {0, 1}]
      /\ v5 \subseteq DemoFiles
      /\ v7 => Demo!There /\ ~Demo!Open
      /\ v3 # None /\ v3.next = 0 => v3.keys = {}
      /\ Demo!There /\ ~v7 =>
           /\ v6.photos \subseteq v5
           /\ v3 # None => \A i \in v3.keys : v3.photos[i] \in v5
      /\ ~v12 => \A v \in People :
           /\ v8[v] = "ok" => Demo!There /\ ~v6.is_demo /\ ~v7 /\ v6.owner = <<v, v10[v]>>
           /\ v8[v] = "checked" => \A u \in People \ {v} : v8[u] \notin {"checked", "ok"}
  BY DEF ClaimsInv, Demo!ClaimInv
<1>r. ASSUME v3' # None => DOMAIN v3' = RunFields, v6' # None => IsDemo(v6'),
             DOMAIN v8' = People /\ DOMAIN v9' = People, v10' \in [People -> {0, 1}],
             v5' \subseteq DemoFiles,
             v7' => Demo!There' /\ ~Demo!Open',
             v3' # None /\ v3'.next = 0 => v3'.keys = {},
             Demo!There' /\ ~v7' => /\ v6'.photos \subseteq v5'
                                    /\ v3' # None => \A i \in v3'.keys : v3'.photos[i] \in v5',
             ~v12' => \A v \in People :
               /\ v8'[v] = "ok" =>
                    Demo!There' /\ ~v6'.is_demo /\ ~v7' /\ v6'.owner = <<v, v10'[v]>>
               /\ v8'[v] = "checked" => \A u \in People \ {v} : v8'[u] \notin {"checked", "ok"}
      PROVE  ClaimsInv'
  BY <1>r DEF ClaimsInv, Demo!ClaimInv
<1>b. ASSUME v3 # None
      PROVE  \A i \in 1..Len(v3.photos) : v3.photos[i] \in DemoFiles
  BY <1>b, DemoBounded, FormsAssumption DEF DemoInv, Demo!Batches
\* The run is as it was, or over, and nothing but the form changes.
<1>1. ASSUME v3' = v3 \/ v3' = None, UNCHANGED <<v5, v6, v7, v8, v9, v10, v12>>
      PROVE  ClaimsInv'
  BY <1>0, <1>1, <1>r DEF Demo!There, Demo!Open
<1>2. ASSUME NEW f, Demo!addFiles(f) \/ Demo!removeFile(f)
      PROVE  ClaimsInv'
  BY <1>1, <1>2 DEF Demo!addFiles, Demo!removeFile
<1>3. CASE Demo!ClearAll \/ Demo!Refused \/ Demo!TooFew \/ Demo!NotFinalized
  BY <1>1, <1>3 DEF Demo!ClearAll, Demo!Refused, Demo!TooFew, Demo!NotFinalized, Demo!UploadFailed
<1>4. CASE Demo!handleUpload
  <2>1. /\ v3' = [photos |-> [i \in DOMAIN v1 |-> v1[i].file], next |-> 0, keys |-> {}]
        /\ UNCHANGED <<v5, v6, v7, v8, v9, v10, v12>>
    BY <1>4 DEF Demo!handleUpload
  <2>2. DOMAIN v3' = RunFields /\ v3'.keys = {}
    BY <2>1 DEF RunFields
  <2>. QED
    BY <1>0, <1>r, <2>1, <2>2 DEF Demo!There, Demo!Open
\* The demo is made when there is none, so nobody has claimed it.
<1>5. ASSUME Demo!Created, DOMAIN v3 = RunFields, v3.next = 0, v3 # None,
             v3' = None \/ v3' = [v3 EXCEPT !.next = 1],
             UNCHANGED <<v5, v7, v8, v9, v10, v12>>
      PROVE  ClaimsInv'
  <2>. DEFINE d == [is_demo |-> TRUE, owner |-> None, photos |-> {}, expired |-> FALSE,
                    deleted |-> FALSE]
  <2>1. v6 = None /\ v6' = d
    BY <1>5 DEF Demo!Created
  <2>2. d # None /\ IsDemo(d) /\ d.photos = {} /\ ~d.deleted
    <3>1. d \in Demo!Demos
      BY DEF Demo!Demos
    <3>. QED
      BY <1>n, <3>1 DEF IsDemo, DemoFields
  <2>3. ~Demo!There /\ ~v7
    BY <1>0, <2>1 DEF Demo!There
  <2>4. v3' # None => DOMAIN v3' = RunFields /\ v3'.next = 1 /\ v3'.keys = {}
    BY <1>0, <1>5 DEF RunFields
  <2>5. ~v12 => \A v \in People : v8[v] # "ok"
    BY <1>0, <2>3
  <2>. HIDE DEF d
  <2>. QED
    BY <1>0, <1>5, <1>r, <2>1, <2>2, <2>3, <2>4, <2>5
<1>6. CASE Demo!demo_create
  BY <1>0, <1>5, <1>6 DEF Demo!demo_create, Demo!Creates
<1>7. CASE Demo!CreateLost
  <2>1. CASE UNCHANGED v6
    BY <1>1, <1>7, <2>1 DEF Demo!CreateLost, Demo!UploadFailed
  <2>2. CASE Demo!Created
    BY <1>0, <1>5, <1>7, <2>2 DEF Demo!CreateLost, Demo!Creates, Demo!UploadFailed
  <2>. QED
    BY <1>7, <2>1, <2>2 DEF Demo!CreateLost
\* A photo stored is one more that the run may give to the demo.
<1>8. CASE Demo!Uploaded
  <2>1. /\ v3 # None /\ v3.next \in 1..Len(v3.photos)
        /\ v3' = [v3 EXCEPT !.next = v3.next + 1, !.keys = v3.keys \cup {v3.next}]
        /\ v5' = v5 \cup {v3.photos[v3.next]}
        /\ UNCHANGED <<v6, v7, v8, v9, v10, v12>>
    BY <1>8 DEF Demo!Uploaded
  <2>2. /\ DOMAIN v3' = RunFields /\ v3'.photos = v3.photos
        /\ v3'.keys = v3.keys \cup {v3.next} /\ v3'.next = v3.next + 1
    BY <1>0, <2>1 DEF RunFields
  <2>3. v3.next + 1 # 0 /\ v3.photos[v3.next] \in DemoFiles
    BY <1>b, <2>1
  <2>. QED
    BY <1>0, <1>r, <2>1, <2>2, <2>3 DEF Demo!There, Demo!Open
<1>9. CASE Demo!NotUploaded
  <2>1. /\ v3 # None /\ v3.next \in 1..Len(v3.photos) /\ v3' = [v3 EXCEPT !.next = v3.next + 1]
        /\ UNCHANGED <<v5, v6, v7, v8, v9, v10, v12>>
    BY <1>9 DEF Demo!NotUploaded
  <2>2. /\ DOMAIN v3' = RunFields /\ v3'.photos = v3.photos
        /\ v3'.keys = v3.keys /\ v3'.next = v3.next + 1
    BY <1>0, <2>1 DEF RunFields
  <2>3. v3.next + 1 # 0
    BY <2>1
  <2>. QED
    BY <1>0, <1>r, <2>1, <2>2, <2>3 DEF Demo!There, Demo!Open
\* What the demo is given was stored; it is open, so nobody has claimed it and the clean-up
\* is not at it.
<1>10. CASE Demo!demo_finalize
  <2>1. /\ v3 # None /\ Demo!Open /\ v3' = None
        /\ v6' = [v6 EXCEPT !.photos = {v3.photos[i] : i \in v3.keys}]
        /\ v9' = [v9 EXCEPT ![Demo!Maker] = "results"]
        /\ UNCHANGED <<v5, v7, v8, v10, v12>>
    BY <1>10 DEF Demo!demo_finalize, Demo!AllTried
  <2>2. /\ DOMAIN v6' = DemoFields /\ v6'.is_demo = v6.is_demo /\ v6'.owner = v6.owner
        /\ v6'.deleted = v6.deleted /\ v6'.photos = {v3.photos[i] : i \in v3.keys}
    BY <1>0, <2>1 DEF IsDemo, DemoFields, Demo!Open, Demo!There
  <2>3. Demo!There /\ v6.is_demo /\ ~v7
    BY <1>0, <2>1 DEF Demo!Open
  <2>4. v6'.photos \subseteq v5 /\ IsDemo(v6')
    BY <1>0, <2>1, <2>2, <2>3 DEF IsDemo, Demo!There
  <2>5. DOMAIN v9' = People
    BY <1>0, <2>1
  <2>6. ~v12 => \A v \in People : v8[v] # "ok"
    BY <1>0, <2>3
  <2>. QED
    BY <1>0, <1>r, <2>1, <2>2, <2>3, <2>4, <2>5, <2>6
\* A visitor goes from page to page.
<1>11. ASSUME NEW v \in People, Demo!demo_view(v) \/ Demo!ToRegister(v) \/ Demo!Arrived(v)
       PROVE  ClaimsInv'
  <2>1. DOMAIN v9' = DOMAIN v9 /\ UNCHANGED <<v3, v5, v6, v7, v8, v10, v12>>
    BY <1>11 DEF Demo!demo_view, Demo!ToRegister, Demo!Arrived
  <2>. QED
    BY <1>0, <1>r, <2>1 DEF Demo!There, Demo!Open
\* One claim is not, or no longer, one that found the demo open.
<1>12. ASSUME NEW v \in People, NEW s \in {"none", "asked", "error"},
              v8' = [v8 EXCEPT ![v] = s], v10' \in [People -> {0, 1}],
              \A u \in People \ {v} : v10'[u] = v10[u],
              ~v12' => ~v12, UNCHANGED <<v3, v5, v6, v7, v9>>
       PROVE  ClaimsInv'
  <2>1. /\ DOMAIN v8' = People /\ v8'[v] = s
        /\ \A u \in People \ {v} : v8'[u] = v8[u]
    BY <1>0, <1>12
  <2>2. ~v12' => \A u \in People :
               /\ v8'[u] = "ok" =>
                    Demo!There' /\ ~v6'.is_demo /\ ~v7' /\ v6'.owner = <<u, v10'[u]>>
               /\ v8'[u] = "checked" => \A w \in People \ {u} : v8'[w] \notin {"checked", "ok"}
    <3>. SUFFICES ASSUME ~v12, NEW u \in People
                  PROVE  /\ v8'[u] = "ok" =>
                              Demo!There /\ ~v6.is_demo /\ ~v7 /\ v6.owner = <<u, v10'[u]>>
                         /\ v8'[u] = "checked" =>
                              \A w \in People \ {u} : v8'[w] \notin {"checked", "ok"}
      BY <1>12 DEF Demo!There
    <3>1. CASE u = v
      BY <1>12, <2>1, <3>1
    <3>2. CASE u # v
      BY <1>0, <1>12, <2>1, <3>2
    <3>. QED
      BY <3>1, <3>2
  <2>. QED
    BY <1>0, <1>12, <1>r, <2>1, <2>2 DEF Demo!There, Demo!Open
<1>13. ASSUME NEW v \in People, Demo!handleClaim(v)
       PROVE  ClaimsInv'
  <2>1. /\ \E s \in {"asked", "error"} : v8' = [v8 EXCEPT ![v] = s]
        /\ UNCHANGED <<v3, v5, v6, v7, v9, v10, v12>>
    BY <1>13 DEF Demo!handleClaim
  <2>. QED
    BY <1>0, <1>12, <2>1
<1>14. ASSUME NEW v \in People, Demo!Registered(v)
       PROVE  ClaimsInv'
  <2>1. /\ v8' = [v8 EXCEPT ![v] = "asked"] /\ v10' = [v10 EXCEPT ![v] = 1]
        /\ UNCHANGED <<v3, v5, v6, v7, v9, v12>>
    BY <1>14 DEF Demo!Registered, Demo!Claiming
  <2>2. v10' \in [People -> {0, 1}] /\ \A u \in People \ {v} : v10'[u] = v10[u]
    BY <1>0, <2>1
  <2>. QED
    BY <1>12, <2>1, <2>2
\* A claim that finds the demo open finds no other that did, or they overlap.
<1>15. ASSUME NEW v \in People, Demo!CheckClaim(v)
       PROVE  ClaimsInv'
  <2>1. CASE ~Demo!Open
    <3>1. v8' = [v8 EXCEPT ![v] = "error"] /\ UNCHANGED <<v3, v5, v6, v7, v9, v10>>
      BY <1>15, <2>1 DEF Demo!CheckClaim, Demo!Claiming
    <3>2. ~v12' => ~v12
      BY <1>15 DEF Demo!CheckClaim
    <3>. QED
      BY <1>0, <1>12, <3>1, <3>2
  <2>2. CASE Demo!Open
    <3>1. /\ v8' = [v8 EXCEPT ![v] = "checked"] /\ UNCHANGED <<v3, v5, v6, v7, v9, v10>>
          /\ ~v12' => ~v12 /\ \A u \in People \ {v} : v8[u] # "checked"
      BY <1>15, <2>2 DEF Demo!CheckClaim, Demo!Claiming
    <3>2. /\ DOMAIN v8' = People /\ v8'[v] = "checked"
          /\ \A u \in People \ {v} : v8'[u] = v8[u]
      BY <1>0, <3>1
    <3>3. ~v12 => \A u \in People : v8[u] # "ok"
      BY <1>0, <2>2 DEF Demo!Open
    <3>4. ~v12' => \A u \in People : v8'[u] # "ok"
      BY <3>1, <3>2, <3>3
    <3>5. ~v12' => \A u \in People \ {v} : v8'[u] # "checked"
      BY <3>1, <3>2
    <3>6. ~v12' => \A u \in People :
            v8'[u] = "checked" => \A w \in People \ {u} : v8'[w] \notin {"checked", "ok"}
      BY <3>4, <3>5
    <3>. QED
      BY <1>0, <1>r, <3>1, <3>2, <3>4, <3>6 DEF Demo!There, Demo!Open
  <2>. QED
    BY <2>1, <2>2
\* The claim that found the demo open gets it: no other was told that it has it.
<1>16. ASSUME NEW v \in People, Demo!demo_claim(v)
       PROVE  ClaimsInv'
  <2>1. CASE ~Demo!There
    <3>1. v8' = [v8 EXCEPT ![v] = "error"] /\ UNCHANGED <<v3, v5, v6, v7, v9, v10, v12>>
      BY <1>16, <2>1 DEF Demo!demo_claim, Demo!Claiming
    <3>. QED
      BY <1>0, <1>12, <3>1
  <2>2. CASE Demo!There
    <3>1. /\ v8[v] = "checked" /\ v8' = [v8 EXCEPT ![v] = "ok"]
          /\ v6' = [v6 EXCEPT !.owner = <<v, v10[v]>>, !.is_demo = FALSE, !.expired = FALSE]
          /\ ~v12' => ~v12 /\ ~v7
          /\ UNCHANGED <<v3, v5, v7, v9, v10>>
      BY <1>16, <2>2 DEF Demo!demo_claim, Demo!Claiming
    <3>2. /\ DOMAIN v8' = People /\ v8'[v] = "ok"
          /\ \A u \in People \ {v} : v8'[u] = v8[u]
      BY <1>0, <3>1
    <3>3. /\ IsDemo(v6') /\ v6'.owner = <<v, v10[v]>> /\ v6'.is_demo = FALSE
          /\ v6'.photos = v6.photos /\ v6'.deleted = v6.deleted
      BY <1>0, <2>2, <3>1 DEF IsDemo, DemoFields, Demo!There
    <3>4. v6' # None
      <4>1. v6' \in Demo!Demos
        BY <1>0, <2>2, <3>1 DEF IsDemo, DemoFields, Demo!Demos, Demo!Accounts, Demo!There
      <4>. QED
        BY <1>n, <4>1
    <3>5. Demo!There' /\ ~Demo!Open'
      BY <2>2, <3>3, <3>4 DEF Demo!There, Demo!Open
    <3>6. ~v12' => \A u \in People \ {v} : v8'[u] \notin {"checked", "ok"}
      BY <1>0, <3>1, <3>2
    <3>7. ~v12' => \A u \in People :
               /\ v8'[u] = "ok" =>
                    Demo!There' /\ ~v6'.is_demo /\ ~v7' /\ v6'.owner = <<u, v10'[u]>>
               /\ v8'[u] = "checked" => \A w \in People \ {u} : v8'[w] \notin {"checked", "ok"}
      BY <3>1, <3>2, <3>3, <3>5, <3>6
    <3>. QED
      BY <1>0, <1>r, <2>2, <3>1, <3>2, <3>3, <3>5, <3>7
  <2>. QED
    BY <2>1, <2>2
\* What expires or is deleted is still a demo: nobody was told that it is theirs.
<1>17. ASSUME Demo!There, v6.is_demo \/ v7, v6' # None => IsDemo(v6'),
              v6'.photos = v6.photos, Demo!There' => ~Demo!Open', v5' = v5 \/ v7', v5' \subseteq v5,
              v7' => Demo!There', Demo!There' /\ ~v7' => ~v7,
              UNCHANGED <<v3, v8, v9, v10, v12>>
       PROVE  ClaimsInv'
  <2>1. ~v12 => \A v \in People : v8[v] # "ok"
    BY <1>0, <1>17
  <2>2. Demo!There' /\ ~v7' => /\ v6'.photos \subseteq v5'
                               /\ v3' # None => \A i \in v3'.keys : v3'.photos[i] \in v5'
    BY <1>0, <1>17
  <2>. QED
    BY <1>0, <1>17, <1>r, <2>1, <2>2
<1>18. CASE Demo!Expire
  <2>1. /\ Demo!Open /\ v6' = [v6 EXCEPT !.expired = TRUE]
        /\ UNCHANGED <<v3, v5, v7, v8, v9, v10, v12>>
    BY <1>18 DEF Demo!Expire
  <2>2. /\ IsDemo(v6') /\ v6'.expired = TRUE /\ v6'.photos = v6.photos
    BY <1>0, <2>1 DEF IsDemo, DemoFields, Demo!Open, Demo!There
  <2>3. ~Demo!Open' /\ Demo!There /\ v6.is_demo /\ ~v7
    BY <1>0, <2>1, <2>2 DEF Demo!Open
  <2>. QED
    BY <1>17, <2>1, <2>2, <2>3
<1>19. CASE Demo!SelectExpired
  <2>1. /\ Demo!There /\ v6.is_demo /\ v6.expired /\ v7' = TRUE /\ v5' \subseteq v5
        /\ UNCHANGED <<v3, v6, v8, v9, v10, v12>>
    BY <1>19 DEF Demo!SelectExpired
  <2>. QED
    BY <1>0, <1>17, <2>1 DEF Demo!Open, Demo!There
<1>20. CASE Demo!cleanup_expired_demos
  <2>1. /\ v7 /\ v7' = FALSE /\ v6' = [v6 EXCEPT !.deleted = TRUE]
        /\ UNCHANGED <<v3, v5, v8, v9, v10, v12>>
    BY <1>20 DEF Demo!cleanup_expired_demos
  <2>2. Demo!There
    BY <1>0, <2>1
  <2>3. IsDemo(v6') /\ v6'.deleted = TRUE /\ v6'.photos = v6.photos
    BY <1>0, <2>1, <2>2 DEF IsDemo, DemoFields, Demo!There
  <2>4. ~Demo!There'
    BY <2>3 DEF Demo!There
  <2>. QED
    BY <1>17, <2>1, <2>2, <2>3, <2>4
<1>. QED
  BY <1>2, <1>3, <1>4, <1>6, <1>7, <1>8, <1>9, <1>10, <1>11, <1>13, <1>14, <1>15, <1>16,
     <1>18, <1>19, <1>20 DEF Demo!Next

\* So an account that was told it has the demo has it, and its photos.
LEMMA ClaimsAreKept ==
  ASSUME ClaimsInv
  PROVE  Demo!ClaimedIsKept
BY DEF ClaimsInv, Demo!ClaimInv, Demo!ClaimedIsKept, Demo!There

\* What a save of the administrator's form carries.
SaveFields == {"op", "n", "of", "plan", "kept"}

\* The invariant of the administrator's tabs: every tenant has a plan, and that no save of
\* an untouched form changes it.
AdminInv ==
  /\ DOMAIN v1 = Tenants
  /\ v5 \in Tenants \cup {None}
  /\ \A c \in v10 : c.op = "save" => c.of \in Tenants /\ DOMAIN c = SaveFields
  /\ Admin!PlanInv

\* The administrator's tabs start with nobody selected,
LEMMA AdminInvInit ==
  ASSUME Admin!Init
  PROVE  AdminInv
BY DEF Admin!Init, AdminInv, Admin!PlanInv, Admin!PlanKept, Admin!Injection

\* a save that was overtaken is the same save,
LEMMA AdminOvertaken ==
  ASSUME NEW t, NEW p, NEW cs,
         \A c \in cs : c.op = "save" => c.of \in Tenants /\ DOMAIN c = SaveFields
  PROVE  \A d \in Admin!Overtaken(t, p, cs) :
           d.op = "save" =>
             /\ d.of \in Tenants /\ DOMAIN d = SaveFields
             /\ d.kept => \E c \in cs : /\ c.op = "save" /\ c.kept
                                        /\ c.of = d.of /\ c.plan = d.plan
                                        /\ d.of = t => d.plan = p
<1>1. TAKE d \in Admin!Overtaken(t, p, cs)
<1>2. HAVE d.op = "save"
<1>3. PICK c \in cs :
        d = IF c.op = "save" /\ c.of = t /\ c.plan # p THEN [c EXCEPT !.kept = FALSE] ELSE c
  BY DEF Admin!Overtaken
<1>4. CASE c.op = "save" /\ c.of = t /\ c.plan # p
  <2>1. DOMAIN c = SaveFields /\ c.of \in Tenants /\ d = [c EXCEPT !.kept = FALSE]
    BY <1>3, <1>4
  <2>2. d.kept = FALSE /\ d.of = c.of /\ DOMAIN d = SaveFields
    BY <2>1 DEF SaveFields
  <2>. QED
    BY <2>1, <2>2
<1>5. CASE ~(c.op = "save" /\ c.of = t /\ c.plan # p)
  <2>1. d = c
    BY <1>3, <1>5
  <2>. QED
    BY <1>2, <1>5, <2>1
<1>. QED
  BY <1>4, <1>5

\* and every step keeps the plans of those it does not mean.
LEMMA AdminInvStep ==
  ASSUME AdminInv, Admin!Next
  PROVE  AdminInv'
<1>. USE DEF Admin!serverVars, Admin!pageVars, Admin!counters
<1>. DEFINE Same == \A c \in v10' : c.op = "save" => c \in v10
<1>0. /\ DOMAIN v1 = Tenants /\ v5 \in Tenants \cup {None} /\ ~v20
      /\ \A c \in v10 : c.op = "save" => c.of \in Tenants /\ DOMAIN c = SaveFields
      /\ v5 # None /\ v18 /\ ~v17 => v8 = v1[v5]
      /\ \A c \in v10 : c.op = "save" /\ c.kept => c.plan = v1[c.of]
  BY DEF AdminInv, Admin!PlanInv, Admin!PlanKept
<1>s. ASSUME UNCHANGED <<v1, v5, v8, v17, v18, v20>>, Same
      PROVE  AdminInv'
  BY <1>0, <1>s DEF AdminInv, Admin!PlanInv, Admin!PlanKept
<1>1. ASSUME NEW r, Admin!setTenants(r) \/ Admin!setTenantCredits(r) \/ Admin!ReadFailed(r)
      PROVE  AdminInv'
  BY <1>s, <1>1 DEF Admin!setTenants, Admin!setTenantCredits, Admin!ReadFailed
<1>2. ASSUME NEW t \in Tenants, Admin!handleSelect(t)
      PROVE  AdminInv'
  <2>1. /\ v1' = v1 /\ v5' = t /\ v8' = v4[t].plan /\ v10' = v10 /\ v20' = v20
        /\ v18' = (v4[t].plan = v1[t])
    BY <1>2 DEF Admin!handleSelect, Admin!FormOf
  <2>. QED
    BY <1>0, <2>1 DEF AdminInv, Admin!PlanInv, Admin!PlanKept
<1>3. CASE Admin!handleAdjust
  <2>1. /\ UNCHANGED <<v1, v5, v8, v17, v18, v20>>
        /\ v10' = v10 \cup {[op |-> "adjust", n |-> v13 + 1, of |-> v5]}
    BY <1>3 DEF Admin!handleAdjust
  <2>. QED
    BY <1>s, <2>1
<1>4. ASSUME NEW c \in v10, Admin!Adjusted(c) \/ \E b \in BOOLEAN : Admin!NotAdjusted(c, b)
      PROVE  AdminInv'
  BY <1>s, <1>4 DEF Admin!Adjusted, Admin!NotAdjusted
<1>5. ASSUME NEW p \in Plans, Admin!setEditPlan(p)
      PROVE  AdminInv'
  <2>1. UNCHANGED <<v1, v5, v10, v20>> /\ v17' = TRUE
    BY <1>5 DEF Admin!setEditPlan
  <2>. QED
    BY <1>0, <2>1 DEF AdminInv, Admin!PlanInv, Admin!PlanKept
<1>6. CASE Admin!handleUpdateTenant
  <2>. DEFINE new == [op |-> "save", n |-> MaxAdjusted + v14 + 1, of |-> v5, plan |-> v8,
                      kept |-> v18 /\ ~v17]
  <2>1. v5 # None /\ UNCHANGED <<v1, v5, v8, v17, v18, v20>> /\ v10' = v10 \cup {new}
    BY <1>6 DEF Admin!handleUpdateTenant, Admin!EditForm
  <2>2. /\ DOMAIN new = SaveFields /\ new.of = v5
        /\ new.kept => new.plan = v1[v5]
    BY <1>0, <2>1 DEF SaveFields
  <2>. HIDE DEF new
  <2>. QED
    BY <1>0, <2>1, <2>2 DEF AdminInv, Admin!PlanInv, Admin!PlanKept
<1>7. ASSUME NEW c \in v10, Admin!update_tenant(c)
      PROVE  AdminInv'
  <2>1. /\ c.op = "save" /\ c.of \in Tenants
        /\ v1' = [v1 EXCEPT ![c.of] = c.plan]
        /\ v10' = Admin!Overtaken(c.of, c.plan, v10 \ {c})
        /\ UNCHANGED <<v5, v8, v17>>
        /\ v18' = (v18 /\ (c.of = v5 => c.plan = v8))
        /\ v20' = (v20 \/ (c.kept /\ c.plan # v1[c.of]))
    BY <1>0, <1>7 DEF Admin!update_tenant
  <2>2. /\ DOMAIN v1' = Tenants /\ v1'[c.of] = c.plan
        /\ \A t \in Tenants : t # c.of => v1'[t] = v1[t]
    BY <1>0, <2>1
  <2>3. ~v20'
    BY <1>0, <2>1
  <2>4. v5' # None /\ v18' /\ ~v17' => v8' = v1'[v5']
    BY <1>0, <2>1, <2>2
  <2>5. \A d \in v10' : d.op = "save" =>
          /\ d.of \in Tenants /\ DOMAIN d = SaveFields
          /\ d.kept => \E e \in v10 \ {c} : /\ e.op = "save" /\ e.kept
                                            /\ e.of = d.of /\ e.plan = d.plan
                                            /\ d.of = c.of => d.plan = c.plan
    BY <1>0, <2>1, AdminOvertaken
  <2>6. \A d \in v10' : d.op = "save" /\ d.kept => d.plan = v1'[d.of]
    BY <1>0, <2>2, <2>5
  <2>. QED
    BY <1>0, <2>1, <2>2, <2>3, <2>4, <2>5, <2>6 DEF AdminInv, Admin!PlanInv, Admin!PlanKept
<1>8. ASSUME NEW t \in Tenants, NEW p \in Plans, Admin!PlanChanged(t, p)
      PROVE  AdminInv'
  <2>1. /\ v1' = [v1 EXCEPT ![t] = p]
        /\ v10' = Admin!Overtaken(t, p, v10)
        /\ UNCHANGED <<v5, v8, v17, v20>>
        /\ v18' = (v18 /\ t # v5)
    BY <1>8 DEF Admin!PlanChanged
  <2>2. /\ DOMAIN v1' = Tenants /\ v1'[t] = p
        /\ \A u \in Tenants : u # t => v1'[u] = v1[u]
    BY <1>0, <2>1
  <2>4. v5' # None /\ v18' /\ ~v17' => v8' = v1'[v5']
    BY <1>0, <2>1, <2>2
  <2>5. \A d \in v10' : d.op = "save" =>
          /\ d.of \in Tenants /\ DOMAIN d = SaveFields
          /\ d.kept => \E e \in v10 : /\ e.op = "save" /\ e.kept
                                      /\ e.of = d.of /\ e.plan = d.plan
                                      /\ d.of = t => d.plan = p
    BY <1>0, <2>1, AdminOvertaken
  <2>6. \A d \in v10' : d.op = "save" /\ d.kept => d.plan = v1'[d.of]
    BY <1>0, <2>2, <2>5
  <2>. QED
    BY <1>0, <2>1, <2>2, <2>4, <2>5, <2>6 DEF AdminInv, Admin!PlanInv, Admin!PlanKept
<1>. QED
  BY <1>1, <1>2, <1>3, <1>4, <1>5, <1>6, <1>7, <1>8 DEF Admin!Next

\* The fields of a brand kit.
KitKeys == Brand!FormKeys \cup {"extras"}

\* The invariant of the brand kit's page: the types, and that what the user left alone is
\* what it was.
KitsInv ==
  /\ v1 \in [KitKeys -> Nat] \cup {None} /\ v16 \in [KitKeys -> Nat]
  /\ v3 \in [Brand!FormKeys -> Nat] /\ v4 \in Nat
  /\ v8 => v10 \in [KitKeys -> Nat]
  /\ \A u \in v7 : u.of \in Kinds /\ u.n \in Nat
  /\ v12 \in Nat /\ v13 \in Nat
  /\ Brand!KitInv

\* The page starts before the kit is loaded,
LEMMA KitsInvInit ==
  ASSUME Brand!Init
  PROVE  KitsInv
<1>1. Brand!NoKit \in [KitKeys -> Nat]
  BY DEF Brand!NoKit, KitKeys
<1>2. v1 \in [KitKeys -> Nat] \cup {None} /\ v16 \in [KitKeys -> Nat]
  BY <1>1 DEF Brand!Init, KitKeys
<1>3. v3 \in [Brand!FormKeys -> Nat]
  BY DEF Brand!Init, Brand!Default
<1>4. Brand!get_brand_kit = v16
  BY DEF Brand!Init, Brand!get_brand_kit
<1>. QED
  BY <1>2, <1>3, <1>4 DEF Brand!Init, KitsInv, Brand!KitInv, Brand!KitKept

\* a change of the form is the user's,
LEMMA KitForm ==
  ASSUME KitsInv, NEW f \in Brand!FormKeys, NEW v \in Nat, Brand!setForm(f, v),
         UNCHANGED <<v1, v2, v4, v8, v10, v16, v18>>,
         v12' \in Nat, v13' \in Nat, \A u \in v7' : u \in v7
  PROVE  KitsInv'
<1>1. v3' = [v3 EXCEPT ![f] = v] /\ v17' = v17 \cup {f}
  BY DEF Brand!setForm
<1>2. v3' \in [Brand!FormKeys -> Nat]
  BY <1>1 DEF KitsInv
<1>3. \A g \in KitKeys \ v17' : Brand!Body'[g] = Brand!Body[g]
  BY <1>1, <1>2 DEF KitsInv, Brand!Body, KitKeys
<1>4. Brand!get_brand_kit' = Brand!get_brand_kit
  BY DEF Brand!get_brand_kit
<1>5. Brand!KitInv'
  BY <1>1, <1>3, <1>4 DEF KitsInv, Brand!KitInv, Brand!KitKept, Brand!Untouched, KitKeys
<1>. QED
  BY <1>2, <1>5 DEF KitsInv

\* what the server stores of a request is what it says, or the old,
LEMMA KitStored ==
  ASSUME KitsInv, v8
  PROVE  /\ Brand!upsert_brand_kit(v10) \in [KitKeys -> Nat]
         /\ ~v18 => \A f \in KitKeys \ v17 : Brand!upsert_brand_kit(v10)[f] = v16[f]
<1>1. Brand!get_brand_kit \in [KitKeys -> Nat]
  BY DEF KitsInv, Brand!get_brand_kit, Brand!NoKit, KitKeys
<1>2. v10 \in [KitKeys -> Nat]
  BY DEF KitsInv
<1>3. \A f \in KitKeys : Brand!upsert_brand_kit(v10)[f] \in {Brand!get_brand_kit[f], v10[f]}
  BY DEF Brand!upsert_brand_kit, KitKeys
<1>4. Brand!upsert_brand_kit(v10) \in [KitKeys -> Nat]
  BY <1>1, <1>2 DEF Brand!upsert_brand_kit, KitKeys
<1>. QED
  BY <1>3, <1>4 DEF KitsInv, Brand!KitInv, Brand!KitKept, Brand!Untouched, KitKeys

\* and so every step keeps it.
LEMMA KitsInvStep ==
  ASSUME KitsInv, Brand!Next
  PROVE  KitsInv'
<1>. USE DEF Brand!formVars, Brand!pictureVars, Brand!saveVars, Brand!history
<1>0. /\ v12 \in Nat /\ v13 \in Nat /\ MaxTyped \in Nat
      /\ \A u \in v7 : u.of \in Kinds /\ u.n \in Nat
      /\ v8 => v10 \in [KitKeys -> Nat]
  BY KeptAssumption DEF KitsInv
<1>n. None \notin [KitKeys -> Nat]
  BY KeptAssumption DEF KitKeys
<1>k. Brand!get_brand_kit \in [KitKeys -> Nat]
  BY DEF KitsInv, Brand!get_brand_kit, Brand!NoKit, KitKeys
<1>s. ASSUME UNCHANGED <<v1, v2, v3, v4, v10, v16, v17, v18>>, v8' => v8,
             \A u \in v7' : u.of \in Kinds /\ u.n \in Nat, v13' \in Nat, v12' = v12
      PROVE  KitsInv'
  BY <1>s DEF KitsInv, Brand!KitInv, Brand!KitKept, Brand!Untouched, Brand!Body,
     Brand!get_brand_kit
<1>1. CASE Brand!Loaded
  <2>1. /\ v2 /\ v2' = FALSE /\ UNCHANGED <<v1, v7, v8, v10, v12, v13, v16, v17, v18>>
        /\ v3' = [f \in Brand!FormKeys |-> Brand!get_brand_kit[f]]
        /\ v4' = Brand!get_brand_kit["extras"]
    BY <1>1 DEF Brand!Loaded
  <2>2. ~v8
    BY <2>1 DEF KitsInv, Brand!KitInv
  <2>3. v3' \in [Brand!FormKeys -> Nat] /\ v4' \in Nat
    BY <1>k, <2>1 DEF KitKeys
  <2>4. \A f \in KitKeys : Brand!Body'[f] = Brand!get_brand_kit[f]
    BY <2>1 DEF Brand!Body, KitKeys
  <2>5. Brand!get_brand_kit' = Brand!get_brand_kit
    BY <2>1 DEF Brand!get_brand_kit
  <2>6. Brand!KitInv'
    BY <2>1, <2>2, <2>4, <2>5 DEF KitsInv, Brand!KitInv, Brand!KitKept, Brand!Untouched, KitKeys
  <2>. QED
    BY <2>1, <2>3, <2>6 DEF KitsInv
<1>2. CASE Brand!NotLoaded
  <2>1. /\ v2 /\ v2' = FALSE /\ v18' = TRUE
        /\ UNCHANGED <<v1, v3, v4, v7, v8, v10, v12, v13, v16, v17>>
    BY <1>2 DEF Brand!NotLoaded
  <2>2. Brand!KitInv'
    BY <2>1 DEF KitsInv, Brand!KitInv, Brand!KitKept, Brand!Untouched
  <2>. QED
    BY <2>1, <2>2 DEF KitsInv
<1>3. ASSUME NEW f \in Brand!Texts, Brand!type(f)
      PROVE  KitsInv'
  <2>1. /\ f \in Brand!FormKeys /\ v12' = v12 + 1 /\ Brand!setForm(f, 1 + v12')
        /\ UNCHANGED <<v1, v2, v4, v7, v8, v10, v13, v16, v18>>
    BY <1>3 DEF Brand!type, Brand!FormKeys
  <2>2. 1 + v12' \in Nat /\ v12' \in Nat
    BY <1>0, <2>1
  <2>. QED
    BY <1>0, <2>1, <2>2, KitForm
<1>4. ASSUME NEW k \in Kinds, Brand!upload(k)
      PROVE  KitsInv'
  <2>1. /\ v13' = v13 + 1 /\ v7' = v7 \cup {[of |-> k, n |-> 1 + MaxTyped + v13']}
        /\ UNCHANGED <<v1, v2, v3, v4, v8, v10, v12, v16, v17, v18>>
    BY <1>4 DEF Brand!upload
  <2>2. \A u \in v7' : u.of \in Kinds /\ u.n \in Nat
    BY <1>0, <2>1
  <2>. QED
    BY <1>0, <1>s, <2>1, <2>2
<1>5. ASSUME NEW u \in v7, Brand!uploadToS3(u)
      PROVE  KitsInv'
  <2>1. /\ u.of \in Brand!FormKeys /\ u.n \in Nat /\ Brand!setForm(u.of, u.n) /\ v7' = v7 \ {u}
        /\ UNCHANGED <<v1, v2, v4, v8, v10, v12, v13, v16, v18>>
    BY <1>0, <1>5 DEF Brand!uploadToS3, Brand!FormKeys
  <2>. QED
    BY <1>0, <2>1, KitForm
<1>6. ASSUME NEW u \in v7, Brand!NotUploaded(u)
      PROVE  KitsInv'
  BY <1>0, <1>s, <1>6 DEF Brand!NotUploaded
<1>7. ASSUME NEW k \in Kinds, Brand!remove(k)
      PROVE  KitsInv'
  <2>1. /\ k \in Brand!FormKeys /\ Brand!setForm(k, 0)
        /\ UNCHANGED <<v1, v2, v4, v7, v8, v10, v12, v13, v16, v18>>
    BY <1>7 DEF Brand!remove, Brand!FormKeys
  <2>. QED
    BY <1>0, <2>1, KitForm
<1>8. CASE Brand!handleSave
  <2>1. /\ ~v2 /\ v8' = TRUE /\ v10' = Brand!Body
        /\ UNCHANGED <<v1, v2, v3, v4, v7, v12, v13, v16, v17, v18>>
    BY <1>8 DEF Brand!handleSave, Brand!SaveButton, Brand!FormShown
  <2>2. v10' \in [KitKeys -> Nat]
    BY <2>1 DEF KitsInv, Brand!Body, KitKeys
  <2>3. Brand!Body' = Brand!Body /\ Brand!get_brand_kit' = Brand!get_brand_kit
    BY <2>1 DEF Brand!Body, Brand!get_brand_kit
  <2>4. Brand!KitInv'
    BY <2>1, <2>3 DEF KitsInv, Brand!KitInv, Brand!KitKept, Brand!Untouched
  <2>. QED
    BY <2>1, <2>2, <2>4 DEF KitsInv
<1>9. ASSUME v8, v8' = FALSE, v1' \in {v1, Brand!upsert_brand_kit(v10)},
             UNCHANGED <<v2, v3, v4, v7, v12, v13, v16, v17, v18>>
      PROVE  KitsInv'
  <2>1. v1' \in [KitKeys -> Nat] \cup {None}
    BY <1>9, KitStored DEF KitsInv
  <2>2. ~v18' => \A f \in KitKeys \ v17' : Brand!get_brand_kit'[f] = v16'[f]
    BY <1>9, <1>n, KitStored DEF KitsInv, Brand!KitInv, Brand!KitKept, Brand!get_brand_kit, KitKeys
  <2>3. Brand!KitInv'
    BY <1>9, <2>2 DEF KitsInv, Brand!KitInv, Brand!KitKept, Brand!Untouched, Brand!Body, KitKeys
  <2>. QED
    BY <1>9, <2>1, <2>3 DEF KitsInv
<1>10. CASE Brand!Saved \/ \E b \in BOOLEAN : Brand!NotSaved(b)
  BY <1>9, <1>10 DEF Brand!Saved, Brand!NotSaved
<1>11. CASE Brand!SavedFades
  BY <1>0, <1>s, <1>11 DEF Brand!SavedFades
<1>. QED
  BY <1>1, <1>2, <1>3, <1>4, <1>5, <1>6, <1>7, <1>8, <1>10, <1>11 DEF Brand!Next

\* The server's price of a confirmation is the page's for the same selection, but for the
\* base.
LEMMA AddonsPrice ==
  ASSUME NEW o
  PROVE  Addons!total_cost(o) = v8 + Addons!addonCost(o.bundle, o.addons)
BY DEF Addons!total_cost, Addons!addonCost, Addons!BUNDLE_PRICING, Addons!BUNDLE_CREDITS,
   Addons!SERVICE_CREDIT_COSTS, Addons!INDIVIDUAL_ADDONS

\* What every step of the wizard's add-ons keeps.
AddonsInv ==
  /\ v8 \in BaseCosts /\ Addons!OfferInv
  /\ BaseCosts \subseteq {Addons!BASE_CREDITS} => Addons!ChargedAsShown

\* At first nothing is confirmed,
LEMMA AddonsInvInit ==
  ASSUME Addons!Init
  PROVE  AddonsInv
BY DEF Addons!Init, AddonsInv, Addons!OfferInv, Addons!ChargedAsShown

\* and where every listing costs the base the price charged is the one shown.
LEMMA AddonsInvStep ==
  ASSUME AddonsInv, Addons!Next
  PROVE  AddonsInv'
<1>. USE DEF Addons!Keep, Addons!selection
<1>s. ASSUME UNCHANGED <<v8, v9, v10>>, v6' = v6 \/ v6' = None
      PROVE  AddonsInv'
  BY <1>s DEF AddonsInv, Addons!OfferInv, Addons!ChargedAsShown
<1>1. ASSUME NEW p, Addons!toggleAsset(p)
      PROVE  AddonsInv'
  BY <1>s, <1>1 DEF Addons!toggleAsset
<1>2. ASSUME NEW id, Addons!toggleAddon(id)
      PROVE  AddonsInv'
  BY <1>s, <1>2 DEF Addons!toggleAddon
<1>3. CASE Addons!handleSkip \/ Addons!toggleBundle \/ Addons!goNext \/ Addons!goBack
  BY <1>s, <1>3 DEF Addons!handleSkip, Addons!toggleBundle, Addons!goNext, Addons!goBack
<1>4. CASE Addons!Refused \/ Addons!Spend
  BY <1>s, <1>4 DEF Addons!Refused, Addons!Spend
<1>5. CASE Addons!handleConfirm
  <2>. DEFINE t == Addons!addonCost(v4, v3)
  <2>1. /\ v6' = [bundle |-> v4, addons |-> v3, total |-> Addons!BASE_CREDITS + t]
        /\ UNCHANGED <<v8, v9, v10>>
    BY <1>5 DEF Addons!handleConfirm, Addons!totalCredits
  <2>2. v6'.bundle = v4 /\ v6'.addons = v3
    BY <2>1
  <2>3. v6'.total = Addons!BASE_CREDITS + t
    BY <2>1
  <2>4. Addons!addonCost(v6'.bundle, v6'.addons) = t
    BY <2>2
  <2>5. Addons!OfferInv'
    BY <2>3, <2>4 DEF Addons!OfferInv
  <2>. QED
    BY <2>1, <2>5 DEF AddonsInv, Addons!ChargedAsShown
<1>6. CASE Addons!Started
  <2>1. v6 # None /\ v6' = None /\ v9' = Addons!total_cost(v6) /\ v10' = v6.total /\ v8' = v8
    BY <1>6 DEF Addons!Started
  <2>2. v6.total = Addons!BASE_CREDITS + Addons!addonCost(v6.bundle, v6.addons)
    BY <2>1 DEF AddonsInv, Addons!OfferInv
  <2>3. BaseCosts \subseteq {Addons!BASE_CREDITS} => v8 = Addons!BASE_CREDITS
    BY DEF AddonsInv
  <2>4. BaseCosts \subseteq {Addons!BASE_CREDITS} => v9' = v10'
    BY Zenon, <2>1, <2>2, <2>3, AddonsPrice
  <2>. QED
    BY <2>1, <2>4 DEF AddonsInv, Addons!OfferInv, Addons!ChargedAsShown
<1>. QED
  BY <1>1, <1>2, <1>3, <1>4, <1>5, <1>6 DEF Addons!Next

\* No tick is forgotten.
LEMMA SocialTicked ==
  ASSUME v11 \subseteq v11'
  PROVE  \A e, p : Social!WasTicked(e, p) => Social!WasTicked(e, p)'
BY DEF Social!WasTicked

\* What every step of the social page keeps.
SocialInv ==
  /\ DOMAIN v2 = Events
  /\ \A c \in v7 : c.of \in Events /\ DOMAIN c = {"n", "of", "on", "got"}
  /\ v1 \in Seq(Events) /\ v4 \in Seq(Events) /\ v5 \in Events \cup {None}
  /\ Social!TickInv /\ Social!TickIsRecorded
  /\ \A e \in Events : \A p \in v2[e] : Social!WasTicked(e, p)

\* At first nothing is ticked,
LEMMA SocialInvInit ==
  ASSUME Social!Init
  PROVE  SocialInv
<1>1. v1 \in Seq(Events) /\ v4 \in Seq(Events)
  BY EmptySeq DEF Social!Init
<1>. QED
  BY <1>1 DEF Social!Init, SocialInv, Social!TickInv, Social!TickIsRecorded,
     Social!RecordedWasTicked

\* and every step records what was ticked.
LEMMA SocialInvStep ==
  ASSUME SocialInv, Social!Next
  PROVE  SocialInv'
<1>. USE DEF Social!serverVars, Social!pageVars
<1>0. /\ DOMAIN v2 = Events /\ v1 \in Seq(Events) /\ v4 \in Seq(Events)
      /\ v5 \in Events \cup {None}
      /\ \A c \in v7 : c.of \in Events /\ DOMAIN c = {"n", "of", "on", "got"}
      /\ \A c \in v7 :
           /\ Social!WasTicked(c.of, c.on)
           /\ c.got # None => \A p \in c.got : Social!WasTicked(c.of, p)
           /\ c.of \notin v12 => c.got \in {None, v2[c.of]} /\ \A d \in v7 : d.of = c.of => d = c
      /\ \A t \in v11 :
           t[1] \in v12 \/ (\E c \in v7 : c.of = t[1] /\ c.on = t[2]) \/ t[2] \in v2[t[1]]
      /\ \A e \in Events : \A p \in v2[e] : Social!WasTicked(e, p)
  BY DEF SocialInv, Social!TickInv, Social!TickIsRecorded
<1>s. ASSUME UNCHANGED <<v2, v7, v11, v12>>, v1' \in Seq(Events), v4' \in Seq(Events),
             v5' \in Events \cup {None}
      PROVE  SocialInv'
  BY <1>0, <1>s, SocialTicked DEF SocialInv, Social!TickInv, Social!TickIsRecorded
<1>1. ASSUME NEW e \in Events, Social!create_listing_event(e)
      PROVE  SocialInv'
  <2>1. <<e>> \o v1 \in Seq(Events)
    BY <1>0, ConcatProperties
  <2>. QED
    BY <1>0, <1>s, <1>1, <2>1 DEF Social!create_listing_event
<1>2. CASE Social!Load
  <2>1. Social!Newest(v1) \in Events \cup {None}
    BY <1>0, HeadTailProperties DEF Social!Newest
  <2>. QED
    BY <1>0, <1>s, <1>2, <2>1 DEF Social!Load
<1>3. CASE Social!NotLoaded \/ Social!Mount
  <2>1. <<>> \in Seq(Events)
    BY EmptySeq
  <2>. QED
    BY <1>0, <1>s, <1>3, <2>1 DEF Social!NotLoaded, Social!Mount
<1>4. ASSUME NEW i \in 1..Len(v4), Social!setActiveEvent(i)
      PROVE  SocialInv'
  <2>1. v4[i] \in Events
    BY <1>0, ElementOfSeq
  <2>. QED
    BY <1>0, <1>s, <1>4, <2>1 DEF Social!setActiveEvent
<1>5. ASSUME NEW p, Social!Sending(p), v5 # None, UNCHANGED <<v1, v2, v4, v5>>
      PROVE  SocialInv'
  <2>. DEFINE new == [n |-> v9 + 1, of |-> v5, on |-> p, got |-> None]
              over == {d.of : d \in {c \in v7 : c.of = v5}}
  <2>1. /\ v7' = v7 \cup {new} /\ v11' = v11 \cup {<<v5, p>>}
        /\ v12' = v12 \cup over
    BY <1>5 DEF Social!Sending, Social!EventOfTick
  <2>2. /\ DOMAIN new = {"n", "of", "on", "got"} /\ new.of = v5 /\ new.on = p /\ new.got = None
        /\ v5 \in Events
    BY <1>0, <1>5
  <2>3. \A c \in v7 : c.of = v5 => v5 \in v12'
    BY <2>1
  <2>. HIDE DEF new
  <2>5. v11 \subseteq v11' /\ Social!WasTicked(v5, p)'
    <3>1. v11 \subseteq v11' /\ <<v5, p>> \in v11'
      BY Zenon, <2>1
    <3>2. v5' = v5
      BY <1>5
    <3>. QED
      BY Zenon, <3>1, <3>2 DEF Social!WasTicked
  <2>w. \A e, q : Social!WasTicked(e, q) => Social!WasTicked(e, q)'
    BY <2>5, SocialTicked
  <2>4. Social!TickInv'
    <3>1. ASSUME NEW c \in v7, c.of \notin v12'
          PROVE  c.got \in {None, v2[c.of]} /\ \A d \in v7' : d.of = c.of => d = c
      BY <1>0, <2>1, <2>2, <2>3, <3>1
    <3>2. new.of \notin v12' => \A d \in v7' : d.of = new.of => d = new
      BY <2>1, <2>2, <2>3
    <3>. QED
      BY <1>0, <1>5, <2>1, <2>2, <2>5, <2>w, <3>1, <3>2 DEF Social!TickInv
  <2>7. Social!TickIsRecorded'
    <3>. SUFFICES ASSUME NEW t \in v11', t[1] \notin v12'
                  PROVE  (\E c \in v7' : c.of = t[1] /\ c.on = t[2]) \/ t[2] \in v2[t[1]]
      BY <1>5 DEF Social!TickIsRecorded
    <3>1. CASE t \in v11
      BY <1>0, <2>1, <3>1
    <3>2. CASE t = <<v5, p>>
      BY <2>1, <2>2, <3>2
    <3>. QED
      BY <2>1, <3>1, <3>2
  <2>6. \A e \in Events : \A q \in v2[e] : Social!WasTicked(e, q)'
    BY <1>0, <2>w, <2>5
  <2>. QED
    BY <1>0, <1>5, <2>1, <2>2, <2>4, <2>6, <2>7 DEF SocialInv
<1>6. ASSUME NEW p, Social!handleMarkPosted(p) \/ Social!untick(p)
      PROVE  SocialInv'
  BY <1>0, <1>s, <1>5, <1>6 DEF Social!handleMarkPosted, Social!untick
<1>7. ASSUME NEW c \in v7, Social!ReadPosted(c)
      PROVE  SocialInv'
  <2>. DEFINE read == [c EXCEPT !.got = v2[c.of]]
  <2>1. v7' = (v7 \ {c}) \cup {read} /\ UNCHANGED <<v1, v2, v4, v5, v11, v12>>
    BY <1>7 DEF Social!ReadPosted
  <2>2. /\ DOMAIN read = {"n", "of", "on", "got"} /\ read.of = c.of /\ read.on = c.on
        /\ read.got = v2[c.of] /\ c.of \in Events
    BY <1>0
  <2>. HIDE DEF read
  <2>w. \A e, q : Social!WasTicked(e, q) => Social!WasTicked(e, q)'
    BY <2>1, SocialTicked
  <2>4. Social!TickInv'
    BY <1>0, <2>1, <2>2, <2>w DEF Social!TickInv
  <2>5. Social!TickIsRecorded'
    BY <1>0, <2>1, <2>2 DEF Social!TickIsRecorded
  <2>. QED
    BY <1>0, <2>1, <2>2, <2>w, <2>4, <2>5 DEF SocialInv
<1>8. ASSUME NEW c \in v7, Social!mark_posted(c)
      PROVE  SocialInv'
  <2>1. /\ c.got # None /\ c.of \in Events /\ v7' = v7 \ {c}
        /\ UNCHANGED <<v1, v4, v5, v11, v12>>
        /\ v2' = IF c.on \in c.got THEN v2 ELSE [v2 EXCEPT ![c.of] = c.got \cup {c.on}]
    BY <1>0, <1>8 DEF Social!mark_posted, Social!Appended
  <2>2. /\ DOMAIN v2' = Events /\ \A e \in Events : e # c.of => v2'[e] = v2[e]
        /\ v2'[c.of] = v2[c.of] \/ v2'[c.of] = c.got \cup {c.on}
        /\ c.of \notin v12 => v2'[c.of] = c.got \cup {c.on} /\ c.got = v2[c.of]
    BY <1>0, <2>1
  <2>w. \A e, q : Social!WasTicked(e, q) => Social!WasTicked(e, q)'
    BY <2>1, SocialTicked
  <2>4. Social!TickInv'
    BY <1>0, <2>1, <2>2, <2>w DEF Social!TickInv
  <2>5. Social!TickIsRecorded'
    <3>. SUFFICES ASSUME NEW t \in v11, t[1] \notin v12,
                         ~\E d \in v7' : d.of = t[1] /\ d.on = t[2]
                  PROVE  t[2] \in v2'[t[1]]
      BY <2>1 DEF Social!TickIsRecorded
    <3>1. CASE t[1] = c.of
      BY <1>0, <2>1, <2>2, <3>1
    <3>2. CASE t[1] # c.of
      <4>1. t[2] \in v2[t[1]]
        BY <1>0, <2>1, <3>2
      <4>2. v2'[t[1]] = v2[t[1]]
        BY <1>0, <2>1, <3>2
      <4>. QED
        BY <4>1, <4>2
    <3>. QED
      BY <3>1, <3>2
  <2>6. \A e \in Events : \A p \in v2'[e] : Social!WasTicked(e, p)'
    <3>1. Social!WasTicked(c.of, c.on) /\ \A p \in c.got : Social!WasTicked(c.of, p)
      BY <1>0, <2>1
    <3>. QED
      BY <1>0, <2>2, <2>w, <3>1
  <2>. QED
    BY <1>0, <2>1, <2>2, <2>w, <2>4, <2>5, <2>6 DEF SocialInv
<1>9. ASSUME NEW c \in v7, Social!NotMarked(c)
      PROVE  SocialInv'
  <2>1. v7' = v7 \ {c} /\ v12' = v12 \cup {c.of} /\ UNCHANGED <<v1, v2, v4, v5, v11>>
    BY <1>9 DEF Social!NotMarked
  <2>w. \A e, q : Social!WasTicked(e, q) => Social!WasTicked(e, q)'
    BY <2>1, SocialTicked
  <2>4. Social!TickInv'
    BY <1>0, <2>1, <2>w DEF Social!TickInv
  <2>5. Social!TickIsRecorded'
    BY <1>0, <2>1 DEF Social!TickIsRecorded
  <2>. QED
    BY <1>0, <2>1, <2>w, <2>4, <2>5 DEF SocialInv
<1>. QED
  BY <1>1, <1>2, <1>3, <1>4, <1>6, <1>7, <1>8, <1>9 DEF Social!Next

\* What every step of the section of social accounts keeps.
AccountsInv ==
  /\ v1 \in [Platforms -> [id : Nat, name : Names] \cup {None}] /\ v2 \in Nat
  /\ v4 \in [Platforms -> Names \cup {None}] /\ DOMAIN v11 = Platforms
  /\ \A w \in v7 :
       /\ DOMAIN w = {"n", "op", "of", "id", "name", "stage", "got", "alone"}
       /\ w.stage \in {"delete", "create"} => w.of \in Platforms
       /\ w.op = "save" => w.name \in Names
       /\ w.stage = "create" => w.op = "save"
       /\ w.stage = "show" => w.got \in [Platforms -> [id : Nat, name : Names] \cup {None}]
  /\ Accounts!SaveInv /\ Accounts!SavedIsStored

\* At first nothing is said to be saved,
LEMMA AccountsInvInit ==
  ASSUME Accounts!Init
  PROVE  AccountsInv
<1>1. Accounts!Nothing \in [Platforms -> [id : Nat, name : Names] \cup {None}]
  BY DEF Accounts!Nothing
<1>2. v1 \in [Platforms -> [id : Nat, name : Names] \cup {None}]
  <2>1. \A n \in Names : [id |-> 1, name |-> n] \in [id : Nat, name : Names]
    OBVIOUS
  <2>2. \A p \in Platforms, n \in Names :
          [Accounts!Nothing EXCEPT ![p] = [id |-> 1, name |-> n]] \in
            [Platforms -> [id : Nat, name : Names] \cup {None}]
    BY <1>1, <2>1
  <2>. QED
    BY <1>1, <2>2 DEF Accounts!Init
<1>3. \A w \in v7 : /\ DOMAIN w = {"n", "op", "of", "id", "name", "stage", "got", "alone"}
                    /\ w.stage = "load" /\ w.op = "load" /\ \A u \in v7 : u = w
  BY DEF Accounts!Init
<1>4. /\ v2 = 2 /\ DOMAIN v11 = Platforms /\ \A p \in Platforms : v11[p] = None
      /\ v4 \in [Platforms -> Names \cup {None}]
  BY DEF Accounts!Init, Accounts!Nothing
<1>5. Accounts!SaveInv
  BY <1>3, <1>4 DEF Accounts!SaveInv, Accounts!OfPlatform
<1>. QED
  BY <1>2, <1>3, <1>4, <1>5 DEF AccountsInv, Accounts!SavedIsStored

\* and every step keeps what was.
LEMMA AccountsInvStep ==
  ASSUME AccountsInv, Accounts!Next
  PROVE  AccountsInv'
<1>. USE DEF Accounts!serverVars, Accounts!pageVars
<1>. DEFINE Acc == [id : Nat, name : Names]
            Fields == {"n", "op", "of", "id", "name", "stage", "got", "alone"}
            Work(w) == /\ DOMAIN w = Fields
                       /\ w.stage \in {"delete", "create"} => w.of \in Platforms
                       /\ w.op = "save" => w.name \in Names
                       /\ w.stage = "create" => w.op = "save"
                       /\ w.stage = "show" => w.got \in [Platforms -> Acc \cup {None}]
<1>0. /\ v1 \in [Platforms -> Acc \cup {None}] /\ v2 \in Nat
      /\ v4 \in [Platforms -> Names \cup {None}] /\ DOMAIN v11 = Platforms
      /\ \A w \in v7 : Work(w)
      /\ \A w \in v7 : w.alone => \A u \in v7 : u.of = w.of => u = w
      /\ \A p \in Platforms : v11[p] # None =>
           /\ \A w \in v7 : w.of = p => w.stage \in {"load", "show"}
           /\ v1[p] # None /\ v1[p].name = v11[p]
  BY DEF AccountsInv, Accounts!SaveInv, Accounts!OfPlatform, Accounts!SavedIsStored
<1>r. ASSUME v1' \in [Platforms -> Acc \cup {None}], v2' \in Nat,
             v4' \in [Platforms -> Names \cup {None}], DOMAIN v11' = Platforms,
             \A w \in v7' : Work(w),
             \A w \in v7' : w.alone => \A u \in v7' : u.of = w.of => u = w,
             \A p \in Platforms : v11'[p] # None =>
               /\ \A w \in v7' : w.of = p => w.stage \in {"load", "show"}
               /\ v1'[p] # None /\ v1'[p].name = v11'[p]
      PROVE  AccountsInv'
  BY <1>r DEF AccountsInv, Accounts!SaveInv, Accounts!OfPlatform, Accounts!SavedIsStored
<1>n. \A a \in Acc : a # None
  BY ToldAssumption
<1>o. \A w \in v7 : w.stage \in {"delete", "create"} => w.of \in Platforms /\ v11[w.of] = None
  BY <1>0
\* A handler that goes on,
<1>w. ASSUME NEW w \in v7, NEW d, v7' = (v7 \ {w}) \cup {d}, Work(d), d.of = w.of,
             d.alone = w.alone, w.stage \in {"load", "show"} => d.stage \in {"load", "show"}
      PROVE  /\ \A x \in v7' : Work(x)
             /\ \A x \in v7' : x.alone => \A u \in v7' : u.of = x.of => u = x
             /\ \A p \in Platforms : v11[p] # None =>
                  \A x \in v7' : x.of = p => x.stage \in {"load", "show"}
  <2>. HIDE DEF Work
  <2>1. \A x \in v7' : Work(x)
    BY <1>0, <1>w
  <2>2. \A x \in v7' : x.alone => \A u \in v7' : u.of = x.of => u = x
    BY <1>0, <1>w
  <2>3. \A p \in Platforms : v11[p] # None =>
          \A x \in v7' : x.of = p => x.stage \in {"load", "show"}
    BY <1>0, <1>w
  <2>. QED
    BY <2>1, <2>2, <2>3
\* or ends, having written at most to its platform.
<1>e. ASSUME NEW w \in v7, v7' = v7 \ {w}, v11' = v11, v2' \in Nat,
             v4' \in [Platforms -> Names \cup {None}],
             \/ v1' = v1
             \/ /\ w.stage \in {"delete", "create"}
                /\ \E a \in Acc \cup {None} : v1' = [v1 EXCEPT ![w.of] = a]
      PROVE  AccountsInv'
  <2>. HIDE DEF Work, Acc
  <2>1. /\ \A x \in v7' : Work(x)
        /\ \A x \in v7' : x.alone => \A u \in v7' : u.of = x.of => u = x
        /\ \A p \in Platforms : v11[p] # None =>
             \A x \in v7' : x.of = p => x.stage \in {"load", "show"}
    BY <1>0, <1>e
  <2>2. /\ v1' \in [Platforms -> Acc \cup {None}]
        /\ \A p \in Platforms : v11[p] # None => v1'[p] = v1[p]
    BY <1>0, <1>e, <1>o
  <2>. QED
    BY <1>0, <1>e, <1>r, <2>1, <2>2
<1>1. ASSUME NEW p \in Platforms, NEW n \in Names \cup {None}, Accounts!setInput(p, n)
      PROVE  AccountsInv'
  <2>1. v4' = [v4 EXCEPT ![p] = n] /\ UNCHANGED <<v1, v2, v7, v11>>
    BY <1>1 DEF Accounts!setInput
  <2>2. v4' \in [Platforms -> Names \cup {None}]
    BY <1>0, <2>1
  <2>. HIDE DEF Work, Acc
  <2>. QED
    BY <1>0, <1>r, <2>1, <2>2
\* A handler starts: those of its platform are no longer alone.
<1>2. ASSUME NEW p \in Platforms, NEW op, NEW name, NEW stage \in {"delete", "create"},
             op = "save" => name \in Names, stage = "create" => op = "save",
             Accounts!start(p, op, name, stage)
      PROVE  AccountsInv'
  <2>. DEFINE new == [n |-> v8 + 1, op |-> op, of |-> p, id |-> Accounts!IdOf(p), name |-> name,
                      stage |-> stage, got |-> None, alone |-> Accounts!OfPlatform(p) = {}]
              not(w) == IF w.of = p THEN [w EXCEPT !.alone = FALSE] ELSE w
  <2>1. /\ v7' = {not(w) : w \in v7} \cup {new}
        /\ v11' = [v11 EXCEPT ![p] = None] /\ UNCHANGED <<v1, v2, v4>>
    BY <1>2 DEF Accounts!start
  <2>2. Work(new) /\ new.of = p /\ (new.alone => \A w \in v7 : w.of # p)
    BY <1>2 DEF Accounts!OfPlatform
  <2>3. ASSUME NEW w \in v7
        PROVE  /\ Work(not(w)) /\ not(w).of = w.of /\ not(w).stage = w.stage
               /\ w.of # p => not(w) = w
               /\ w.of = p => not(w).alone = FALSE
    <3>1. CASE w.of = p
      BY <1>0, <3>1
    <3>2. CASE w.of # p
      BY <1>0, <3>2
    <3>. QED
      BY <3>1, <3>2
  <2>. HIDE DEF new, not, Work, Acc
  <2>4. \A x \in v7' : Work(x)
    BY <2>1, <2>2, <2>3
  <2>5. \A x \in v7' : x.alone => \A u \in v7' : u.of = x.of => u = x
    <3>1. \A x \in v7' : x = new \/ \E w \in v7 : x = not(w)
      BY <2>1
    <3>2. ASSUME NEW x \in v7', x.alone, NEW u \in v7', u.of = x.of
          PROVE  u = x
      <4>1. CASE x = new
        BY ZenonT(30), <2>2, <2>3, <3>1, <3>2, <4>1
      <4>2. CASE x # new
        <5>1. PICK w \in v7 : x = not(w)
          BY <3>1, <4>2
        <5>2. w.of # p /\ x = w
          BY <2>3, <3>2, <5>1
        <5>3. PICK y \in v7 : u = not(y)
          BY <2>2, <3>1, <3>2, <5>2
        <5>4. u = y /\ y.of = w.of
          BY <2>3, <3>2, <5>2, <5>3
        <5>. QED
          BY <1>0, <3>2, <5>2, <5>4
      <4>. QED
        BY <4>1, <4>2
    <3>. QED
      BY <3>2
  <2>6. /\ DOMAIN v11' = Platforms /\ v11'[p] = None
        /\ \A q \in Platforms : q # p => v11'[q] = v11[q]
    BY <1>0, <2>1
  <2>7. \A q \in Platforms : v11'[q] # None =>
          \A x \in v7' : x.of = q => x.stage \in {"load", "show"}
    <3>1. ASSUME NEW q \in Platforms, v11'[q] # None, NEW x \in v7', x.of = q
          PROVE  x.stage \in {"load", "show"}
      <4>1. q # p /\ v11[q] # None
        BY <2>6, <3>1
      <4>2. PICK w \in v7 : x = not(w)
        BY <2>1, <2>2, <3>1, <4>1
      <4>3. w.of = q /\ x.stage = w.stage
        BY <2>3, <3>1, <4>2
      <4>. QED
        BY <1>0, <4>1, <4>3
    <3>. QED
      BY <3>1
  <2>. QED
    BY <1>0, <1>r, <2>1, <2>4, <2>5, <2>6, <2>7
<1>3. ASSUME NEW p \in Platforms, Accounts!handleSave(p) \/ Accounts!handleRemove(p)
      PROVE  AccountsInv'
  <2>1. CASE Accounts!handleSave(p)
    <3>1. v4[p] \in Names
      BY <1>0, <2>1 DEF Accounts!handleSave
    <3>. QED
      BY <1>2, <2>1, <3>1 DEF Accounts!handleSave
  <2>2. CASE Accounts!handleRemove(p)
    BY <1>2, <2>2 DEF Accounts!handleRemove
  <2>. QED
    BY <1>3, <2>1, <2>2
<1>4. ASSUME NEW w \in v7, Accounts!delete_social_account(w)
      PROVE  AccountsInv'
  <2>. DEFINE st == IF w.op = "save" THEN "create" ELSE "load"
              d == [w EXCEPT !.stage = st]
  <2>1. /\ w.stage = "delete" /\ v1' = [v1 EXCEPT ![w.of] = None]
        /\ v7' = (v7 \ {w}) \cup {d} /\ UNCHANGED <<v2, v11>>
        /\ v4' = v4 \/ v4' = [v4 EXCEPT ![w.of] = None]
    BY <1>4 DEF Accounts!delete_social_account, Accounts!Step
  <2>2. Work(d) /\ d.of = w.of /\ d.alone = w.alone
    BY <1>0, <2>1
  <2>3. /\ v1' \in [Platforms -> Acc \cup {None}]
        /\ \A p \in Platforms : v11[p] # None => v1'[p] = v1[p]
    BY <1>0, <1>o, <2>1
  <2>4. v4' \in [Platforms -> Names \cup {None}]
    BY <1>0, <2>1
  <2>. HIDE DEF d, Work, Acc
  <2>5. /\ \A x \in v7' : Work(x)
        /\ \A x \in v7' : x.alone => \A u \in v7' : u.of = x.of => u = x
        /\ \A p \in Platforms : v11[p] # None =>
             \A x \in v7' : x.of = p => x.stage \in {"load", "show"}
    BY <1>w, <2>1, <2>2
  <2>. QED
    BY <1>0, <1>r, <2>1, <2>3, <2>4, <2>5
<1>5. ASSUME NEW w \in v7, Accounts!NotFound(w) \/ Accounts!NotLoaded(w)
      PROVE  AccountsInv'
  BY <1>0, <1>e, <1>5 DEF Accounts!NotFound, Accounts!NotLoaded, Accounts!Finish
<1>u. ASSUME NEW w \in v7, w.stage = "create"
      PROVE  /\ Accounts!Upsert(v1[w.of], w.name) \in Acc
             /\ Accounts!Upsert(v1[w.of], w.name).name = w.name
  <2>1. w.of \in Platforms /\ w.name \in Names /\ v1[w.of] \in Acc \cup {None}
    BY <1>0, <1>u
  <2>. QED
    BY <1>0, <2>1 DEF Accounts!Upsert
<1>6. ASSUME NEW w \in v7, Accounts!create_or_update(w)
      PROVE  AccountsInv'
  <2>. DEFINE d == [w EXCEPT !.stage = "load"]
              a == Accounts!Upsert(v1[w.of], w.name)
  <2>1. /\ w.stage = "create" /\ v1' = [v1 EXCEPT ![w.of] = a]
        /\ v7' = (v7 \ {w}) \cup {d} /\ v4' = v4
        /\ v11' = IF w.alone THEN [v11 EXCEPT ![w.of] = w.name] ELSE v11
        /\ v2' = v2 \/ v2' = v2 + 1
    BY <1>6 DEF Accounts!create_or_update, Accounts!Step
  <2>2. Work(d) /\ d.of = w.of /\ d.alone = w.alone /\ d.stage = "load"
    BY <1>0, <2>1
  <2>3. a \in Acc /\ a.name = w.name /\ a # None /\ w.of \in Platforms /\ v11[w.of] = None
    BY <1>n, <1>o, <1>u, <2>1
  <2>. HIDE DEF a, d, Work, Acc
  <2>4. /\ v1' \in [Platforms -> Acc \cup {None}] /\ v1'[w.of] = a
        /\ \A p \in Platforms : p # w.of => v1'[p] = v1[p]
    BY <1>0, <2>1, <2>3
  <2>5. /\ \A x \in v7' : Work(x)
        /\ \A x \in v7' : x.alone => \A u \in v7' : u.of = x.of => u = x
        /\ \A p \in Platforms : v11[p] # None =>
             \A x \in v7' : x.of = p => x.stage \in {"load", "show"}
    BY <1>w, <2>1, <2>2
  <2>6. /\ DOMAIN v11' = Platforms /\ \A p \in Platforms : p # w.of => v11'[p] = v11[p]
        /\ v11'[w.of] = IF w.alone THEN w.name ELSE None
    BY <1>0, <2>1, <2>3
  <2>7. w.alone => \A x \in v7' : x.of = w.of => x.stage = "load"
    BY <1>0, <2>1, <2>2
  <2>8. \A p \in Platforms : v11'[p] # None =>
          /\ \A x \in v7' : x.of = p => x.stage \in {"load", "show"}
          /\ v1'[p] # None /\ v1'[p].name = v11'[p]
    BY <1>0, <2>3, <2>4, <2>5, <2>6, <2>7
  <2>9. v2' \in Nat
    BY <1>0, <2>1
  <2>. QED
    BY <1>0, <1>r, <2>1, <2>4, <2>5, <2>6, <2>8, <2>9
<1>7. ASSUME NEW w \in v7, NEW acted \in BOOLEAN, Accounts!CallFailed(w, acted)
      PROVE  AccountsInv'
  <2>1. /\ w.stage \in {"delete", "create"} /\ v7' = v7 \ {w}
        /\ UNCHANGED <<v4, v11>> /\ (v2' = v2 \/ v2' = v2 + 1)
        /\ \/ v1' = v1
           \/ v1' = [v1 EXCEPT ![w.of] = None]
           \/ w.stage = "create" /\ v1' = [v1 EXCEPT ![w.of] = Accounts!Upsert(v1[w.of], w.name)]
    BY <1>7 DEF Accounts!CallFailed, Accounts!Finish
  <2>2. v2' \in Nat
    BY <1>0, <2>1
  <2>3. v1' = v1 \/ \E a \in Acc \cup {None} : v1' = [v1 EXCEPT ![w.of] = a]
    BY <1>u, <2>1
  <2>. HIDE DEF Acc
  <2>. QED
    BY <1>0, <1>e, <2>1, <2>2, <2>3
<1>8. ASSUME NEW w \in v7, Accounts!list_social_accounts(w)
      PROVE  AccountsInv'
  <2>. DEFINE d == [w EXCEPT !.stage = "show", !.got = v1]
  <2>1. w.stage = "load" /\ v7' = (v7 \ {w}) \cup {d} /\ UNCHANGED <<v1, v2, v4, v11>>
    BY <1>8 DEF Accounts!list_social_accounts
  <2>2. Work(d) /\ d.of = w.of /\ d.alone = w.alone /\ d.stage = "show"
    BY <1>0, <2>1
  <2>. HIDE DEF d, Work, Acc
  <2>3. /\ \A x \in v7' : Work(x)
        /\ \A x \in v7' : x.alone => \A u \in v7' : u.of = x.of => u = x
        /\ \A p \in Platforms : v11[p] # None =>
             \A x \in v7' : x.of = p => x.stage \in {"load", "show"}
    BY <1>w, <2>1, <2>2
  <2>. QED
    BY <1>0, <1>r, <2>1, <2>3
<1>9. ASSUME NEW w \in v7, Accounts!Loaded(w)
      PROVE  AccountsInv'
  <2>1. w.got \in [Platforms -> Acc \cup {None}]
    BY <1>0, <1>9 DEF Accounts!Loaded
  <2>2. Accounts!Prefill(w.got) \in [Platforms -> Names \cup {None}]
    BY <2>1 DEF Accounts!Prefill
  <2>. QED
    BY <1>0, <1>e, <1>9, <2>2 DEF Accounts!Loaded, Accounts!Finish
<1>. QED
  BY <1>1, <1>3, <1>4, <1>5, <1>6, <1>7, <1>8, <1>9 DEF Accounts!Next

\* What every step of the support pages keeps: threads, loads and the reply under way,
\* for what the customer reads and where a reply goes,
SupportInv ==
  /\ DOMAIN v1 = Tickets /\ DOMAIN v2 = Tickets
  /\ v3 \in Tickets \cup {None} /\ (v4 # None => DOMAIN v4 = {"id", "status", "messages"})
  /\ \A v \in v6 : DOMAIN v = {"n", "id", "got"} /\ v.id \in Tickets /\
                   (v.got # None => DOMAIN v.got = {"id", "status", "messages"})
  /\ v9 \in Tickets \cup {None} /\ (v8 => v9 \in Tickets)
  /\ v11 # None =>
       /\ DOMAIN v11 = {"id", "n", "shown", "overlap", "seen", "raced", "said"}
       /\ v11.id \in Tickets
  /\ Support!ThreadInv /\ Support!ReplyGoesToShown

\* and statuses, for who waits.
WaitsInv ==
  /\ \A t \in Tickets : v1[t] \in Support!Statuses \cup {None}
  /\ v19 \subseteq Tickets /\ Support!ReplyInv /\ Support!WaitsOnOpen

\* At first no ticket is selected,
LEMMA SupportInvInit ==
  ASSUME Support!Init
  PROVE  SupportInv /\ WaitsInv
BY DEF Support!Init, SupportInv, WaitsInv, Support!ThreadInv, Support!ReplyGoesToShown,
   Support!ReplyInv, Support!WaitsOnOpen, Support!Statuses

\* threads only grow,
LEMMA SupportThreads ==
  ASSUME SupportInv, Support!Next
  PROVE  DOMAIN v2' = Tickets /\ \A t \in Tickets : v2[t] \subseteq v2'[t]
<1>0. DOMAIN v2 = Tickets
  BY DEF SupportInv
<1>. QED
  BY <1>0 DEF Support!Next, Support!Row, Support!selectTicket, Support!serverVars, Support!Read,
     Support!Shown, Support!NotShown, Support!ToggleCreate, Support!handleCreate,
     Support!Created, Support!NotCreated, Support!handleReply, Support!CheckTicket,
     Support!add_message, Support!Replied, Support!NotReplied, Support!AgentSelects,
     Support!AgentShown, Support!handleStatusChange, Support!admin_reply

\* the customer reads the ticket selected,
LEMMA SupportInvStep ==
  ASSUME SupportInv, WaitsInv, Support!Next
  PROVE  SupportInv'
<1>. USE DEF Support!serverVars, Support!detailVars, Support!createVars, Support!replyVars,
     Support!agentVars
<1>. DEFINE Detail(d) == DOMAIN d = {"id", "status", "messages"}
            View(v) == DOMAIN v = {"n", "id", "got"} /\ v.id \in Tickets /\
                       (v.got # None => Detail(v.got))
            Reply(r) == /\ DOMAIN r = {"id", "n", "shown", "overlap", "seen", "raced", "said"}
                        /\ r.id \in Tickets
            Of(d, t, th) == d.id = t /\ d.messages \subseteq th[t]
<1>0. /\ DOMAIN v1 = Tickets /\ DOMAIN v2 = Tickets
      /\ v3 \in Tickets \cup {None} /\ (v4 # None => Detail(v4))
      /\ \A v \in v6 : View(v)
      /\ v9 \in Tickets \cup {None} /\ (v8 => v9 \in Tickets)
      /\ v11 # None => Reply(v11)
      /\ v11 # None /\ ~v11.overlap => v11.id = v11.shown
      /\ ~v20 =>
           /\ \A v \in v6 : v.id = v3 /\ (\A w \in v6 : v = w) /\ (v.got # None => Of(v.got, v.id, v2))
           /\ v5 <=> v6 # {}
           /\ ~v5 /\ v4 # None => v3 \in Tickets /\ Of(v4, v3, v2)
           /\ v11 # None => v11.id = v3 /\ ~v5
  BY DEF SupportInv, Support!ThreadInv, Support!ReplyGoesToShown
<1>r. ASSUME DOMAIN v1' = Tickets, DOMAIN v2' = Tickets, v3' \in Tickets \cup {None},
             v4' # None => Detail(v4'), \A v \in v6' : View(v), v9' \in Tickets \cup {None},
             v8' => v9' \in Tickets, v11' # None => Reply(v11'),
             v11' # None /\ ~v11'.overlap => v11'.id = v11'.shown,
             ~v20' =>
               /\ \A v \in v6' : /\ v.id = v3' /\ \A w \in v6' : v = w
                                 /\ v.got # None => Of(v.got, v.id, v2')
               /\ v5' <=> v6' # {}
               /\ ~v5' /\ v4' # None => v3' \in Tickets /\ Of(v4', v3', v2')
               /\ v11' # None => v11'.id = v3' /\ ~v5'
      PROVE  SupportInv'
  BY <1>r DEF SupportInv, Support!ThreadInv, Support!ReplyGoesToShown
<1>g. DOMAIN v2' = Tickets /\ \A t \in Tickets : v2[t] \subseteq v2'[t]
  BY SupportThreads
<1>o. \A d, t : t \in Tickets /\ Of(d, t, v2) => Of(d, t, v2')
  BY <1>g
\* A step that leaves the thread on screen, and of the reply under way what it is for.
<1>k. ASSUME UNCHANGED <<v3, v4, v5, v6, v20>>, DOMAIN v1' = Tickets,
             v9' \in Tickets \cup {None}, v8' => v9' \in Tickets,
             v11' # None => v11 # None /\ Reply(v11') /\ v11'.id = v11.id /\
                            v11'.shown = v11.shown /\ v11'.overlap = v11.overlap
      PROVE  SupportInv'
  <2>. HIDE DEF Reply
  <2>1. ~v20' =>
          /\ \A v \in v6' : v.got # None => Of(v.got, v.id, v2')
          /\ ~v5' /\ v4' # None => v3' \in Tickets /\ Of(v4', v3', v2')
    <3>1. ASSUME ~v20, NEW v \in v6, v.got # None
          PROVE  Of(v.got, v.id, v2')
      <4>1. v.id \in Tickets /\ Of(v.got, v.id, v2)
        BY <1>0, <3>1
      <4>. QED
        BY <1>o, <4>1
    <3>2. ASSUME ~v20, ~v5, v4 # None
          PROVE  v3 \in Tickets /\ Of(v4, v3, v2')
      <4>1. v3 \in Tickets /\ Of(v4, v3, v2)
        BY <1>0, <3>2
      <4>. QED
        BY <1>o, <4>1
    <3>. QED
      BY <1>k, <3>1, <3>2
  <2>. HIDE DEF Of, Detail, View
  <2>. QED
    BY <1>0, <1>g, <1>k, <1>r, <2>1
\* A ticket is selected.
<1>t. ASSUME NEW t \in Tickets, Support!selectTicket(t), v9' \in Tickets \cup {None},
             v8' => v9' \in Tickets
      PROVE  SupportInv'
  <2>. DEFINE new == [n |-> v15 + 1, id |-> t, got |-> None]
  <2>1. /\ v3' = t /\ v5' = TRUE /\ v6' = v6 \cup {new}
        /\ UNCHANGED <<v1, v4, v11>>
        /\ ~v20' => ~v20 /\ v6 = {} /\ v11 = None
    BY <1>t DEF Support!selectTicket
  <2>2. View(new) /\ new.id = t /\ new.got = None
    OBVIOUS
  <2>. HIDE DEF new, Reply, Of, Detail, View
  <2>3. ~v20' => v6' = {new} /\ v11' = None
    BY <2>1
  <2>. QED
    BY <1>0, <1>g, <1>t, <1>r, <2>1, <2>2, <2>3
\* A load ends, or is read.
<1>1. ASSUME NEW t \in Tickets, Support!Row(t)
      PROVE  SupportInv'
  BY <1>0, <1>t, <1>1 DEF Support!Row
<1>2. CASE Support!Created
  BY <1>0, <1>t, <1>2 DEF Support!Created
<1>3. ASSUME NEW v \in v6, Support!Read(v)
      PROVE  SupportInv'
  <2>. DEFINE d == Support!get_ticket(v.id)
              w == [v EXCEPT !.got = d]
  <2>1. v6' = (v6 \ {v}) \cup {w} /\ UNCHANGED <<v1, v2, v3, v4, v5, v8, v9, v11, v20>>
    BY <1>3 DEF Support!Read
  <2>2. Detail(d) /\ Of(d, v.id, v2)
    BY DEF Support!get_ticket
  <2>3. View(w) /\ w.id = v.id /\ w.got = d
    BY <1>0, <2>2
  <2>. HIDE DEF d, w, Detail, Of, View, Reply
  <2>4. ~v20 => v6' = {w}
    BY <1>0, <2>1
  <2>5. \A x \in v6' : View(x)
    BY <1>0, <2>1, <2>3
  <2>. QED
    BY <1>0, <1>r, <2>1, <2>2, <2>3, <2>4, <2>5
<1>4. ASSUME NEW v \in v6, Support!Shown(v)
      PROVE  SupportInv'
  <2>1. /\ v.got # None /\ v4' = v.got /\ v5' = FALSE /\ v6' = v6 \ {v}
        /\ UNCHANGED <<v1, v2, v3, v8, v9, v11, v20>>
    BY <1>4 DEF Support!Shown
  <2>2. Detail(v.got) /\ v.id \in Tickets
    BY <1>0, <2>1
  <2>. HIDE DEF Detail, Of, View, Reply
  <2>3. ~v20 => v6' = {} /\ Of(v.got, v3, v2) /\ v3 \in Tickets
    BY <1>0, <2>1, <2>2
  <2>. QED
    BY <1>0, <1>r, <2>1, <2>2, <2>3
<1>5. ASSUME NEW v \in v6, Support!NotShown(v)
      PROVE  SupportInv'
  <2>1. v20' = TRUE /\ v6' \subseteq v6 /\ UNCHANGED <<v1, v2, v3, v4, v8, v9, v11>>
    BY <1>5 DEF Support!NotShown
  <2>. HIDE DEF Detail, Of, View, Reply
  <2>. QED
    BY <1>0, <1>r, <2>1
<1>6. CASE Support!ToggleCreate \/ Support!NotCreated
  BY <1>0, <1>k, <1>6 DEF Support!ToggleCreate, Support!NotCreated
<1>7. ASSUME NEW t \in Tickets, Support!handleCreate(t)
      PROVE  SupportInv'
  <2>1. /\ v9' = t /\ UNCHANGED <<v3, v4, v5, v6, v11, v20>>
        /\ v1' = [v1 EXCEPT ![t] = "open"]
    BY <1>7 DEF Support!handleCreate
  <2>. QED
    BY <1>0, <1>k, <2>1
<1>8. CASE Support!handleReply
  <2>1. /\ v3 # None /\ ~v5 /\ v4 # None
        /\ v11' = [id |-> v3, n |-> v16', shown |-> v4.id, overlap |-> v20, seen |-> None,
                   raced |-> FALSE, said |-> None]
        /\ UNCHANGED <<v1, v2, v3, v4, v5, v6, v8, v9, v20>>
    BY <1>8 DEF Support!handleReply, Support!ReplyBox, Support!ThreadPanel
  <2>2. Reply(v11') /\ v11'.id = v3 /\ v11'.shown = v4.id /\ v11'.overlap = v20
    BY <1>0, <2>1
  <2>3. ~v20 => v4.id = v3
    BY <1>0, <2>1
  <2>. HIDE DEF Detail, Of, View, Reply
  <2>. QED
    BY <1>0, <1>r, <2>1, <2>2, <2>3
<1>9. ASSUME v11 # None
      PROVE  /\ \A x, y : LET r == [v11 EXCEPT !.seen = x, !.said = y]
                          IN  Reply(r) /\ r.id = v11.id /\ r.shown = v11.shown /\
                              r.overlap = v11.overlap
             /\ LET r == [v11 EXCEPT !.said = "ok"]
                IN  Reply(r) /\ r.id = v11.id /\ r.shown = v11.shown /\ r.overlap = v11.overlap
             /\ LET r == [v11 EXCEPT !.raced = TRUE]
                IN  Reply(r) /\ r.id = v11.id /\ r.shown = v11.shown /\ r.overlap = v11.overlap
  BY <1>0, <1>9
<1>10. CASE Support!CheckTicket
  BY <1>0, <1>k, <1>9, <1>10 DEF Support!CheckTicket
<1>11. CASE Support!add_message
  <2>1. /\ v11 # None /\ v11' = [v11 EXCEPT !.said = "ok"]
        /\ v1' = [v1 EXCEPT ![v11.id] = Support!Reopened(v11.seen, @)]
        /\ UNCHANGED <<v3, v4, v5, v6, v8, v9, v20>>
    BY <1>11 DEF Support!add_message
  <2>2. DOMAIN v1' = Tickets
    BY <1>0, <2>1
  <2>. QED
    BY <1>0, <1>k, <1>9, <2>1, <2>2
<1>12. CASE Support!Replied
  <2>1. /\ v11 # None /\ v11.said = "ok" /\ v11' = None
        /\ v4' = IF v4 = None THEN None ELSE [v4 EXCEPT !.messages = @ \cup {v11.n}]
        /\ UNCHANGED <<v1, v2, v3, v5, v6, v8, v9, v20>>
    BY <1>12 DEF Support!Replied
  <2>2. v11.n \in v2[v11.id]
    BY <2>1 DEF WaitsInv, Support!ReplyInv
  <2>3. v4' # None =>
          Detail(v4') /\ v4'.id = v4.id /\ v4'.messages = v4.messages \cup {v11.n} /\ v4 # None
    BY <1>0, <2>1
  <2>4. ~v20 /\ ~v5 /\ v4' # None => v3 \in Tickets /\ Of(v4', v3, v2)
    BY <1>0, <2>1, <2>2, <2>3
  <2>. HIDE DEF Detail, Of, View, Reply
  <2>. QED
    BY <1>0, <1>r, <2>1, <2>3, <2>4
<1>13. CASE Support!NotReplied
  BY <1>0, <1>k, <1>13 DEF Support!NotReplied
<1>14. ASSUME NEW t \in Tickets, Support!AgentSelects(t)
       PROVE  SupportInv'
  BY <1>0, <1>k, <1>14 DEF Support!AgentSelects
<1>15. ASSUME NEW v, Support!AgentShown(v)
       PROVE  SupportInv'
  BY <1>0, <1>k, <1>15 DEF Support!AgentShown
<1>16. ASSUME Support!AgentActs, DOMAIN v1' = Tickets
       PROVE  SupportInv'
  <2>1. /\ v11' = v11 \/ (v11 # None /\ v11' = [v11 EXCEPT !.raced = TRUE])
        /\ UNCHANGED <<v3, v4, v5, v6, v8, v9, v20>>
    BY <1>16 DEF Support!AgentActs
  <2>. QED
    BY <1>0, <1>k, <1>9, <1>16, <2>1
<1>17. ASSUME NEW s, Support!handleStatusChange(s)
       PROVE  SupportInv'
  BY <1>0, <1>16, <1>17 DEF Support!handleStatusChange
<1>18. CASE Support!admin_reply
  BY <1>0, <1>16, <1>18 DEF Support!admin_reply
<1>. QED
  BY <1>1, <1>2, <1>3, <1>4, <1>5, <1>6, <1>7, <1>8, <1>10, <1>11, <1>12, <1>13, <1>14, <1>15,
     <1>17, <1>18 DEF Support!Next

\* and a customer who replied waits on an open ticket.
LEMMA WaitsInvStep ==
  ASSUME SupportInv, WaitsInv, Support!Next
  PROVE  WaitsInv'
<1>. USE DEF Support!serverVars, Support!detailVars, Support!createVars, Support!replyVars,
     Support!agentVars
<1>. DEFINE St == Support!Statuses
<1>s. St = {"open", "in_progress", "resolved", "closed"}
  BY DEF Support!Statuses
<1>n. None \notin St /\ None # "ok" /\ None # "error"
  BY ToldAssumption DEF St
<1>. HIDE DEF St
<1>0. /\ DOMAIN v1 = Tickets /\ DOMAIN v2 = Tickets
      /\ v3 \in Tickets \cup {None}
      /\ \A t \in Tickets : v1[t] \in St \cup {None}
      /\ v19 \subseteq Tickets /\ \A t \in v19 : v1[t] \in {"open", "in_progress"}
      /\ v11 # None =>
           /\ DOMAIN v11 = {"id", "n", "shown", "overlap", "seen", "raced", "said"}
           /\ v11.id \in Tickets
           /\ v11.said = "ok" => v11.n \in v2[v11.id]
           /\ v11.seen = "closed" => v11.said = "error"
           /\ v11.seen # None /\ v11.said = None /\ ~v11.raced => v1[v11.id] = v11.seen
  BY DEF SupportInv, WaitsInv, Support!ReplyInv, Support!WaitsOnOpen, St
<1>g. \A t \in Tickets : v2[t] \subseteq v2'[t]
  BY SupportThreads
<1>r. ASSUME \A t \in Tickets : v1'[t] \in St \cup {None}, v19' \subseteq Tickets,
             \A t \in v19' : v1'[t] \in {"open", "in_progress"},
             v11' # None =>
               /\ v11'.said = "ok" => v11'.n \in v2'[v11'.id]
               /\ v11'.seen = "closed" => v11'.said = "error"
               /\ v11'.seen # None /\ v11'.said = None /\ ~v11'.raced => v1'[v11'.id] = v11'.seen
      PROVE  WaitsInv'
  BY <1>r DEF WaitsInv, Support!ReplyInv, Support!WaitsOnOpen, St
\* Nothing happens to statuses, who waits or the reply, unless it ends.
<1>k. ASSUME UNCHANGED <<v1, v19>>, v11' = v11 \/ v11' = None
      PROVE  WaitsInv'
  BY <1>0, <1>g, <1>k, <1>r
<1>1. ASSUME NEW t \in Tickets, Support!Row(t) \/ Support!AgentSelects(t)
      PROVE  WaitsInv'
  BY <1>k, <1>1 DEF Support!Row, Support!selectTicket, Support!AgentSelects
<1>2. ASSUME NEW v, \/ Support!Read(v) \/ Support!Shown(v) \/ Support!NotShown(v)
                    \/ Support!AgentShown(v)
      PROVE  WaitsInv'
  BY <1>k, <1>2 DEF Support!Read, Support!Shown, Support!NotShown, Support!AgentShown
<1>3. CASE \/ Support!ToggleCreate \/ Support!Created \/ Support!NotCreated \/ Support!Replied
           \/ Support!NotReplied
  BY <1>k, <1>3 DEF Support!ToggleCreate, Support!Created, Support!NotCreated,
     Support!selectTicket, Support!Replied, Support!NotReplied
<1>4. ASSUME NEW t \in Tickets, Support!handleCreate(t)
      PROVE  WaitsInv'
  <2>1. v1[t] = None /\ v1' = [v1 EXCEPT ![t] = "open"] /\ UNCHANGED <<v2, v11, v19>>
    BY <1>4 DEF Support!handleCreate, Support!Existing
  <2>2. v1'[t] = "open" /\ \A u \in Tickets : u # t => v1'[u] = v1[u]
    BY <1>0, <2>1
  <2>. QED
    BY <1>0, <1>r, <1>s, <2>1, <2>2
<1>5. CASE Support!handleReply
  <2>1. /\ v11' = [id |-> v3, n |-> v16', shown |-> v4.id, overlap |-> v20, seen |-> None,
                   raced |-> FALSE, said |-> None]
        /\ UNCHANGED <<v1, v2, v19>>
    BY <1>5 DEF Support!handleReply, Support!ReplyBox, Support!ThreadPanel
  <2>2. v11'.said = None /\ v11'.seen = None
    BY <2>1
  <2>. QED
    BY <1>0, <1>n, <1>r, <1>s, <2>1, <2>2
<1>6. CASE Support!CheckTicket
  <2>. DEFINE x == v1[v11.id]
              y == IF x = "closed" THEN "error" ELSE None
  <2>1. v11 # None /\ v11' = [v11 EXCEPT !.seen = x, !.said = y] /\ UNCHANGED <<v1, v2, v19>>
    BY <1>6 DEF Support!CheckTicket
  <2>2. v11'.seen = x /\ v11'.said = y /\ v11'.id = v11.id
    BY <1>0, <2>1
  <2>3. y # "ok"
    BY <1>n
  <2>. QED
    BY <1>0, <1>r, <2>1, <2>2, <2>3
<1>7. CASE Support!add_message
  <2>1. /\ v11 # None /\ v11.seen # None /\ v11.said = None
        /\ v11' = [v11 EXCEPT !.said = "ok"]
        /\ v1' = [v1 EXCEPT ![v11.id] = Support!Reopened(v11.seen, v1[v11.id])]
        /\ v2' = [v2 EXCEPT ![v11.id] = v2[v11.id] \cup {v11.n}]
        /\ v19' = IF v11.raced THEN v19 ELSE v19 \cup {v11.id}
    BY <1>7 DEF Support!add_message
  <2>2. v11'.said = "ok" /\ v11'.seen = v11.seen /\ v11'.id = v11.id /\ v11'.n = v11.n
    BY <1>0, <2>1
  <2>3. /\ v1'[v11.id] = Support!Reopened(v11.seen, v1[v11.id])
        /\ \A t \in Tickets : t # v11.id => v1'[t] = v1[t]
        /\ v11.n \in v2'[v11.id]
    BY <1>0, <2>1
  <2>4. v11.seen # "closed"
    BY <1>0, <1>n, <2>1
  <2>5. v1'[v11.id] \in {"open", v1[v11.id]}
    BY <2>3 DEF Support!Reopened
  <2>6. ~v11.raced => v1'[v11.id] \in {"open", "in_progress"}
    <3>1. ~v11.raced => v1[v11.id] = v11.seen
      BY <1>0, <2>1
    <3>2. ~v11.raced => v11.seen \in {"open", "in_progress", "resolved"}
      BY <1>0, <1>s, <2>1, <2>4, <3>1
    <3>3. ~v11.raced => v1'[v11.id] = IF v11.seen = "resolved" THEN "open" ELSE v11.seen
      BY <2>3, <3>1 DEF Support!Reopened
    <3>. QED
      BY <3>2, <3>3
  <2>7. \A t \in v19' : v1'[t] \in {"open", "in_progress"}
    BY <1>0, <2>1, <2>3, <2>5, <2>6
  <2>8. \A t \in Tickets : v1'[t] \in St \cup {None}
    BY <1>0, <1>s, <2>3, <2>5
  <2>. QED
    BY <1>0, <1>n, <1>r, <2>1, <2>2, <2>3, <2>4, <2>7, <2>8
\* What an agent does is to a ticket on which nobody waits any more; a reply that was
\* looked at is told of it.
<1>8. ASSUME Support!AgentActs, NEW x \in St \cup {None},
             v1' = [v1 EXCEPT ![v12] = x]
      PROVE  WaitsInv'
  <2>1. /\ v19' = v19 \ {v12}
        /\ v11' = IF v11 # None /\ v11.id = v12 /\ v11.seen # None
                  THEN [v11 EXCEPT !.raced = TRUE] ELSE v11
    BY <1>8 DEF Support!AgentActs
  <2>2. /\ \A t \in Tickets : t # v12 => v1'[t] = v1[t]
        /\ \A t \in Tickets : v1'[t] \in St \cup {None}
    BY <1>0, <1>8
  <2>3. \A t \in v19' : v1'[t] \in {"open", "in_progress"}
    BY <1>0, <2>1, <2>2
  <2>4. v11' # None =>
          /\ v11 # None /\ v11'.said = v11.said /\ v11'.seen = v11.seen
          /\ v11'.id = v11.id /\ v11'.n = v11.n
          /\ ~v11'.raced => ~v11.raced /\ (v11.id # v12 \/ v11.seen = None)
    BY <1>0, <2>1
  <2>. QED
    BY <1>0, <1>g, <1>r, <2>1, <2>2, <2>3, <2>4
<1>9. ASSUME NEW x \in Support!Statuses, Support!handleStatusChange(x)
      PROVE  WaitsInv'
  <2>1. Support!AgentActs /\ v1' = [v1 EXCEPT ![v12] = x]
    BY <1>9 DEF Support!handleStatusChange
  <2>2. x \in St \cup {None}
    BY DEF St
  <2>. QED
    BY <1>8, <2>1, <2>2
<1>10. CASE Support!admin_reply
  <2>. DEFINE x == IF v1[v12] = "open" THEN "in_progress" ELSE v1[v12]
  <2>1. Support!AgentActs /\ v1' = [v1 EXCEPT ![v12] = x]
    BY <1>10 DEF Support!admin_reply
  <2>2. CASE v12 \in Tickets
    <3>1. x \in St \cup {None}
      BY <1>0, <1>s, <2>2
    <3>. HIDE DEF x
    <3>. QED
      BY <1>8, <2>1, <3>1
  <2>3. CASE v12 \notin Tickets
    <3>1. v1' = [v1 EXCEPT ![v12] = None]
      BY <1>0, <2>1, <2>3
    <3>. QED
      BY <1>8, <2>1, <3>1
  <2>. QED
    BY <2>2, <2>3
<1>. QED
  BY <1>1, <1>2, <1>3, <1>4, <1>5, <1>6, <1>7, <1>9, <1>10 DEF Support!Next

-----------------------------------------------------------------------------
\* The invariant of the forms: that of the one on screen.
FormsInv ==
  /\ screen = "upload" => UploadInv
  /\ screen = "wizard" => WizInv
  /\ screen = "team" => Team!LoadingIsFetching
  /\ screen = "demo" => DemoInv /\ ClaimsInv
  /\ screen = "tenants" => AdminInv
  /\ screen = "brand" => KitsInv
  /\ screen = "addons" => AddonsInv
  /\ screen = "accounts" => AccountsInv
  /\ screen = "social" => SocialInv
  /\ screen = "support" => SupportInv /\ WaitsInv

\* Every initial state has the invariant of the form on screen,
LEMMA FormsInvInit == Init => FormsInv
<1>1. UploadInit => FormsInv
  BY UploadInvInit DEF UploadInit, FormsInv
<1>2. WizInit => FormsInv
  BY WizInvInit DEF WizInit, FormsInv
<1>3. TeamInit => FormsInv
  BY TeamLoads DEF TeamInit, FormsInv
<1>4. DemoInit => FormsInv
  BY DemoInvInit, ClaimsInvInit DEF DemoInit, FormsInv
<1>5. ShareInit \/ IndexInit \/ AuditInit \/ DashInit => FormsInv
  BY DEF ShareInit, IndexInit, AuditInit, DashInit, FormsInv
<1>6. AddonsInit \/ AccountsInit \/ SocialInit \/ SupportInit => FormsInv
  BY AddonsInvInit, AccountsInvInit, SocialInvInit, SupportInvInit
     DEF AddonsInit, AccountsInit, SocialInit, SupportInit, FormsInv
<1>7. AdminInit => FormsInv
  BY AdminInvInit DEF AdminInit, FormsInv
<1>8. BrandInit => FormsInv
  BY KitsInvInit DEF BrandInit, FormsInv
<1> QED
  BY <1>1, <1>2, <1>3, <1>4, <1>5, <1>6, <1>7, <1>8 DEF Init

\* every step keeps it,
LEMMA FormsInvStep == FormsInv /\ [Next]_vars => FormsInv'
<1>1. FormsInv /\ UploadNext => FormsInv'
  BY UploadInvStep DEF UploadNext, FormsInv
<1>2. FormsInv /\ WizNext => FormsInv'
  BY WizInvStep DEF WizNext, FormsInv
<1>3. FormsInv /\ TeamNext => FormsInv'
  BY TeamLoads DEF TeamNext, FormsInv
<1>4. FormsInv /\ DemoNext => FormsInv'
  BY DemoInvStep, ClaimsInvStep DEF DemoNext, FormsInv
<1>5. ShareNext \/ IndexNext \/ AuditNext \/ DashNext => FormsInv'
  BY DEF ShareNext, IndexNext, AuditNext, DashNext, FormsInv
<1>6. FormsInv /\ (AddonsNext \/ AccountsNext \/ SocialNext \/ SupportNext) => FormsInv'
  BY AddonsInvStep, AccountsInvStep, SocialInvStep, SupportInvStep, WaitsInvStep
     DEF AddonsNext, AccountsNext, SocialNext, SupportNext, FormsInv
<1>7. ASSUME FormsInv, UNCHANGED vars
      PROVE  FormsInv'
  <2>0. screen' = screen
    BY <1>7 DEF vars
  <2>1. UploadInv => UploadInv'
    BY <1>7 DEF vars, UploadInv, Upload!TypeOK, Upload!BatchesOfForm, Upload!Successful,
       Upload!RegisteredIsStored, Follows
  <2>2. Team!LoadingIsFetching => Team!LoadingIsFetching'
    BY <1>7 DEF vars, Team!LoadingIsFetching
  <2>3. DemoInv => DemoInv'
    BY <1>7 DEF vars, DemoInv, Demo!RowsOfBatch, Demo!DoneIsStored, Demo!There
  <2>4. AdminInv => AdminInv'
    BY <1>7 DEF vars, AdminInv, Admin!PlanInv, Admin!PlanKept
  <2>5. KitsInv => KitsInv'
    BY <1>7 DEF vars, KitsInv, Brand!KitInv, Brand!KitKept, Brand!Untouched, Brand!Body,
       Brand!get_brand_kit
  <2>6. ClaimsInv => ClaimsInv'
    BY <1>7 DEF vars, ClaimsInv, Demo!ClaimInv, Demo!There, Demo!Open
  <2>7. AddonsInv => AddonsInv'
    BY <1>7 DEF vars, AddonsInv, Addons!OfferInv, Addons!ChargedAsShown
  <2>8. AccountsInv => AccountsInv'
    BY <1>7 DEF vars, AccountsInv, Accounts!SaveInv, Accounts!SavedIsStored, Accounts!OfPlatform
  <2>9. SocialInv => SocialInv'
    BY <1>7, SocialTicked DEF vars, SocialInv, Social!TickInv, Social!TickIsRecorded
  <2>10. SupportInv => SupportInv'
    BY <1>7 DEF vars, SupportInv, Support!ThreadInv, Support!ReplyGoesToShown
  <2>11. WaitsInv => WaitsInv'
    BY <1>7 DEF vars, WaitsInv, Support!ReplyInv, Support!WaitsOnOpen
  <2> QED
    BY <1>7, <2>0, <2>1, <2>2, <2>3, <2>4, <2>5, <2>6, <2>7, <2>8, <2>9, <2>10, <2>11,
       WizInvStutter DEF FormsInv
<1>8. FormsInv /\ AdminNext => FormsInv'
  BY AdminInvStep DEF AdminNext, FormsInv
<1>9. FormsInv /\ BrandNext => FormsInv'
  BY KitsInvStep DEF BrandNext, FormsInv
<1> QED
  BY <1>1, <1>2, <1>3, <1>4, <1>5, <1>6, <1>7, <1>8, <1>9 DEF Next

\* and so it holds for ever.
LEMMA FormsInvariant == Spec => []FormsInv
BY FormsInvInit, FormsInvStep, PTL DEF Spec

(* The server has no reason to refuse a confirmation for its photos: the  *)
(* listing has some and its tags name them, although the wizard counts the *)
(* photos of its form (step-upload-photos.tsx:512-521), which are not      *)
(* those the server counts (listings_draft.py:57-59, 94-99), and though a  *)
(* step that is leaving still acts.  For any number of listings, photos,   *)
(* uploads, imports and confirmations in flight, as long as no answer or   *)
(* press met another listing's form and, for the first part, the first     *)
(* step's Next was not pressed again while that step was leaving.          *)
THEOREM ConfirmedHavePhotos == Spec => []ConfirmedPhotos
<1>1. ASSUME WizInv
      PROVE  Wiz!ConfirmedPhotos
  BY <1>1 DEF WizInv, Wiz!GroundedInv, Wiz!GroundedRequests, Wiz!ConfirmedPhotos
<1>2. FormsInv => ConfirmedPhotos
  BY <1>1 DEF FormsInv, ConfirmedPhotos
<1> QED
  BY <1>2, FormsInvariant, PTL

(* Rows and photos are matched by number and stay together: a batch of the *)
(* upload form, whatever is dropped on it meanwhile, and the demo's run    *)
(* over its rows.                                                          *)
THEOREM PhotosStayWithRows == Spec => []PhotosFollowRows
<1>1. ASSUME UploadInv
      PROVE  Upload!RowsFollowBatch /\ Upload!RegisteredIsStored
  BY <1>1, UploadFollows DEF UploadInv
<1>2. ASSUME DemoInv
      PROVE  Demo!DoneIsStored
  BY <1>2 DEF DemoInv
<1>3. FormsInv => PhotosFollowRows
  BY <1>1, <1>2 DEF FormsInv, PhotosFollowRows
<1> QED
  BY <1>3, FormsInvariant, PTL

(* No spinner outlives its request and no request loses its spinner, on    *)
(* the upload form, the wizard's Confirm and the team page.                *)
THEOREM SpinnersEnd == Spec => []NeverFrozen
<1>1. FormsInv => NeverFrozen
  BY UploadSpins DEF FormsInv, WizInv, NeverFrozen
<1> QED
  BY <1>1, FormsInvariant, PTL

(* What the user did not touch is kept, whatever answers late: the         *)
(* wizard's draft of a listing not started, the plan of a tenant whose     *)
(* form was saved with the plan it read, and every field of the brand kit  *)
(* that the user left alone.                                               *)
THEOREM UntouchedStays == Spec => []UntouchedIsKept
<1>1. FormsInv => UntouchedIsKept
  BY DEF FormsInv, WizInv, AdminInv, KitsInv, Wiz!DraftInv, Admin!PlanInv, Brand!KitInv,
     UntouchedIsKept
<1> QED
  BY <1>1, FormsInvariant, PTL

(* What a page acts on is what it shows: a reply goes to the ticket whose  *)
(* thread was read and the thread is of the ticket selected, what the      *)
(* server records of a post was ticked, and a listing is charged the price *)
(* shown, where every listing costs the base of the wizard's price list    *)
(* ("base listing is always 15", step-addons.tsx).                         *)
THEOREM ActsAreOnShown ==
  ASSUME BaseCosts \subseteq {Addons!BASE_CREDITS}
  PROVE  Spec => []ActsOnShown
<1>1. SupportInv => Support!ReplyGoesToShown /\ Support!ThreadOfSelected
  BY DEF SupportInv, Support!ReplyGoesToShown, Support!ThreadInv, Support!ThreadOfSelected,
     Support!ThreadPanel
<1>2. SocialInv => Social!RecordedWasTicked
  <2> SUFFICES ASSUME SocialInv, NEW e \in Events, NEW p \in v2[e]
               PROVE  <<e, p>> \in v11
    BY DEF Social!RecordedWasTicked
  <2> QED
    BY DEF SocialInv, Social!WasTicked
<1>3. FormsInv => ActsOnShown
  BY <1>1, <1>2 DEF FormsInv, AddonsInv, ActsOnShown
<1> QED
  BY <1>3, FormsInvariant, PTL

(* What a page told its user stays true at the server: the account that    *)
(* claimed a demo has it and its photos, a social account saved is stored, *)
(* a post ticked is recorded, and a customer who replied waits on an open  *)
(* ticket; whatever is in flight, but for the races each property names.   *)
THEOREM ToldStaysTrue == Spec => []ToldIsTrue
<1>1. FormsInv => ToldIsTrue
  BY ClaimsAreKept DEF FormsInv, AccountsInv, SocialInv, WaitsInv, ToldIsTrue
<1> QED
  BY <1>1, FormsInvariant, PTL
=============================================================================
