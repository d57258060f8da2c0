----------------------------- MODULE PhotoUpload -----------------------------
(***************************************************************************)
(* The upload form of the listing page (AssetUploadForm): files chosen,    *)
(* sent one by one to storage and registered as assets.  A batch addresses *)
(* the rows of the form by index and goes on when the form leaves the      *)
(* screen.                                                                 *)
(***************************************************************************)
EXTENDS Naturals, Sequences, SequencesExt, FiniteSets

CONSTANTS Accepted,    \* the JPG and PNG files within the size limit
          MAX_FILES,   \* 100 in the code
          MaxBatches   \* bound: upload batches in flight

VARIABLES
  shown,       \* the listing page renders the form
  files,       \* FileEntry rows: file and status
  uploading,   \* the Upload button spins, Remove and Clear are hidden
  batches,     \* runs of handleUpload
  stored,      \* objects in storage
  registered   \* the listing's assets at the server

vars == <<shown, files, uploading, batches, stored, registered>>
serverVars == <<stored, registered>>

Rows == [file : Accepted, status : {"pending", "uploading", "done", "error"}]
Batches == [rows : BoundedSeq(Accepted, MAX_FILES), pc : {"urls", "send", "register"},
            done : SUBSET (1..MAX_FILES), failed : SUBSET (1..MAX_FILES), here : BOOLEAN]

TypeOK ==
  /\ shown \in BOOLEAN /\ uploading \in BOOLEAN
  /\ files \in Seq(Rows) /\ Len(files) <= MAX_FILES
  /\ batches \subseteq Batches
  /\ stored \subseteq Accepted /\ registered \subseteq Accepted

Init ==
  /\ shown = TRUE /\ files = <<>> /\ uploading = FALSE /\ batches = {}
  /\ stored = {} /\ registered = {}

FilesOf(rows) == [i \in DOMAIN rows |-> rows[i].file]
Successful(b) == {b.rows[i] : i \in b.done}

-----------------------------------------------------------------------------
\* Choosing files.  The drop zone is always there; the grid of previews and its
\* buttons only with files.

DropZone == shown
Previews == shown /\ files # <<>>
\* A variant of ButtonsIdle: Clear is there during an upload.
ButtonsShown == Previews

ButtonsIdle == Previews /\ ~uploading

Pending(valid) == [i \in DOMAIN valid |-> [file |-> valid[i], status |-> "pending"]]

\* A variant: without the limit.
AddAll(valid) ==
  /\ DropZone
  /\ files' = files \o Pending(valid)
  /\ UNCHANGED <<shown, uploading, batches, serverVars>>

\* Of the files dropped only the accepted ones, in their order, get this far.
addFiles(valid) ==
  /\ DropZone
  /\ LET combined == files \o Pending(valid)
     IN files' = SubSeq(combined, 1, IF Len(combined) > MAX_FILES THEN MAX_FILES
                                                                  ELSE Len(combined))
  /\ UNCHANGED <<shown, uploading, batches, serverVars>>

\* The remove button of row i is rendered only between uploads.
removeFile(i) ==
  /\ Previews /\ ~uploading /\ i \in DOMAIN files
  /\ files' = RemoveAt(files, i)
  /\ UNCHANGED <<shown, uploading, batches, serverVars>>

Clear ==
  /\ ButtonsIdle
  /\ files' = <<>>
  /\ UNCHANGED <<shown, uploading, batches, serverVars>>

-----------------------------------------------------------------------------
\* One run of handleUpload, over the files the form held when it was pressed.

handleUpload ==
  /\ ButtonsIdle /\ Cardinality(batches) < MaxBatches
  /\ uploading' = TRUE
  /\ batches' = batches \cup
       {[rows |-> FilesOf(files), pc |-> "urls", done |-> {}, failed |-> {}, here |-> TRUE]}
  /\ UNCHANGED <<shown, files, serverVars>>

Move(b, c) == batches' = (batches \ {b}) \cup {c}

\* setFiles of a form that is gone does nothing.
SetStatus(b, i, s) ==
  files' = IF b.here /\ i \in DOMAIN files THEN [files EXCEPT ![i].status = s] ELSE files

\* A variant: a failure forgets the spinner.
FinishSpinning(b) == batches' = batches \ {b} /\ UNCHANGED uploading

Finish(b) ==
  /\ batches' = batches \ {b}
  /\ uploading' = IF b.here THEN FALSE ELSE uploading

\* The presigned URLs arrive: every row of the batch starts.
Presigned(b) ==
  /\ b \in batches /\ b.pc = "urls"
  /\ Move(b, [b EXCEPT !.pc = "send"])
  /\ files' = IF b.here
                THEN [i \in DOMAIN files |->
                        IF i <= Len(b.rows) THEN [files[i] EXCEPT !.status = "uploading"]
                                            ELSE files[i]]
                ELSE files
  /\ UNCHANGED <<shown, uploading, serverVars>>

Waiting(b) == DOMAIN b.rows \ (b.done \cup b.failed)

Sent(b, i) ==
  /\ b \in batches /\ b.pc = "send" /\ i \in Waiting(b)
  /\ stored' = stored \cup {b.rows[i]}
  /\ SetStatus(b, i, "done")
  /\ Move(b, [b EXCEPT !.done = @ \cup {i}])
  /\ UNCHANGED <<shown, uploading, registered>>

SendFailed(b, i) ==
  /\ b \in batches /\ b.pc = "send" /\ i \in Waiting(b)
  /\ SetStatus(b, i, "error")
  /\ Move(b, [b EXCEPT !.failed = @ \cup {i}])
  /\ UNCHANGED <<shown, uploading, serverVars>>

\* Promise.all: hash and register what got through, or give up.
AllSent(b) ==
  /\ b \in batches /\ b.pc = "send" /\ Waiting(b) = {}
  /\ IF b.done = {} THEN Finish(b)
                    ELSE Move(b, [b EXCEPT !.pc = "register"]) /\ UNCHANGED uploading
  /\ UNCHANGED <<shown, files, serverVars>>

\* Success empties the form, failed rows and rows added meanwhile included.
Registered(b) ==
  /\ b \in batches /\ b.pc = "register"
  /\ registered' = registered \cup Successful(b)
  /\ files' = IF b.here THEN <<>> ELSE files
  /\ Finish(b)
  /\ UNCHANGED <<shown, stored>>

\* A refused request (quota) or a lost answer: the rows stay for a retry.
UploadFailed(b, reached) ==
  /\ b \in batches /\ b.pc \in {"urls", "register"} /\ (reached => b.pc = "register")
  /\ registered' = IF reached THEN registered \cup Successful(b) ELSE registered
  /\ Finish(b)
  /\ UNCHANGED <<shown, files, stored>>

-----------------------------------------------------------------------------
\* The page unmounts the form (the listing moves on, or another page), and
\* mounts a new one; nothing under way is cancelled.
Leave ==
  /\ shown
  /\ shown' = FALSE /\ files' = <<>> /\ uploading' = FALSE
  /\ batches' = {[b EXCEPT !.here = FALSE] : b \in batches}
  /\ UNCHANGED serverVars

Return ==
  /\ ~shown
  /\ shown' = TRUE
  /\ UNCHANGED <<files, uploading, batches, serverVars>>

UploadAnswer(b) ==
  \/ Presigned(b) \/ AllSent(b) \/ Registered(b)
  \/ \E i \in 1..MAX_FILES : Sent(b, i) \/ SendFailed(b, i)
  \/ \E reached \in BOOLEAN : UploadFailed(b, reached)

Next ==
  \/ \E valid \in BoundedSeq(Accepted, MAX_FILES) \ {<<>>} : addFiles(valid)
  \/ \E i \in 1..MAX_FILES : removeFile(i)
  \/ Clear \/ handleUpload \/ Leave \/ Return
  \/ \E b \in batches : UploadAnswer(b)

Spec == Init /\ [][Next]_vars

-----------------------------------------------------------------------------
(* While a batch of this form runs, row i of the form is file i of the     *)
(* batch, whatever is dropped on the form meanwhile: progress, success and *)
(* failure are shown on the right photo (asset-upload-form.tsx:109-179).   *)
RowsFollowBatch ==
  \A b \in batches : b.here => IsPrefix(b.rows, FilesOf(files))

(* Of a batch only the files that reached storage are registered, however  *)
(* the sends of several batches interleave (asset-upload-form.tsx:181-198).*)
RegisteredIsStored == registered \subseteq stored

(* A form on screen spins exactly for its own batch: leaving and returning *)
(* neither freezes the new form nor lets it run two batches                *)
(* (asset-upload-form.tsx:99-101, 186, 213-215).                           *)
SpinsForOwnBatch ==
  Cardinality({b \in batches : b.here}) = IF uploading THEN 1 ELSE 0

\* The three rest on this: the form of a batch under way spins and is on screen, a page has
\* one such batch, and of a batch only what was sent can be registered.
BatchesOfForm ==
  /\ \A b \in batches : b.here => uploading
  /\ \A b, c \in batches : b.here /\ c.here => b = c
  /\ uploading => shown /\ \E b \in batches : b.here
  /\ \A b \in batches : b.done \subseteq DOMAIN b.rows /\ Successful(b) \subseteq stored
=============================================================================
