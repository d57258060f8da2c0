----------------------------- MODULE DemoListing -----------------------------
(***************************************************************************)
(* The free demo: photos uploaded one after the other from the demo page,  *)
(* a listing that expires, its results page, and the accounts that claim   *)
(* it while the worker's hourly clean-up deletes what has expired.  One    *)
(* address may make one demo a week, so there is one.  A call refused for  *)
(* want of a token, and each single call of the upload, is one step; the   *)
(* claim and the clean-up read and write in two.                           *)
(***************************************************************************)
EXTENDS Naturals, Sequences, FiniteSets, SequencesExt

CONSTANTS None, Files, MIN_FILES, MAX_FILES, Visitors, MaxLost

VARIABLES
  files, uploading, batch,                \* page: rows; the run of handleUpload
  signedIn,                               \* the visitor has a token
  stored, demo, cleaner,                  \* storage, the listing, the clean-up's selection
  claims, page, account,                  \* per visitor: the claim, the page, the account
  lost, raced                             \* history

formVars == <<files, uploading, batch>>
serverVars == <<stored, demo, cleaner>>
visitVars == <<claims, page, account>>
vars == <<formVars, signedIn, serverVars, visitVars, lost, raced>>

\* An account is a visitor's own (0), or the one made on the register page (1).
Accounts == Visitors \X {0, 1}

\* The visitor who makes the demo; the others open the link to its results.
Maker == CHOOSE v \in Visitors : TRUE

Rows == [file : Files, status : {"pending", "done", "error"}]
Demos == [is_demo : BOOLEAN, owner : Accounts \cup {None}, photos : SUBSET Files,
          expired : BOOLEAN, deleted : BOOLEAN]
Batches == [photos : BoundedSeq(Files, MAX_FILES), next : 0..(MAX_FILES + 1),
            keys : SUBSET (1..MAX_FILES)]

TypeOK ==
  /\ files \in BoundedSeq(Rows, MAX_FILES) /\ {uploading, raced} \subseteq BOOLEAN
  /\ batch \in Batches \cup {None}
  /\ signedIn \subseteq Visitors /\ stored \subseteq Files
  /\ demo \in Demos \cup {None} /\ cleaner \in BOOLEAN
  /\ claims \in [Visitors -> {"none", "asked", "checked", "ok", "error"}]
  /\ page \in [Visitors -> {"demo", "results", "register", "listing", "onboarding"}]
  /\ account \in [Visitors -> {0, 1}]
  /\ lost \in 0..MaxLost

Init ==
  /\ files = <<>> /\ uploading = FALSE /\ batch = None
  /\ signedIn \in SUBSET Visitors /\ stored = {} /\ demo = None /\ cleaner = FALSE
  /\ claims = [v \in Visitors |-> "none"] /\ page = [v \in Visitors |-> "demo"]
  /\ account = [v \in Visitors |-> 0]
  /\ lost = 0 /\ raced = FALSE

There == demo # None /\ ~demo.deleted
Open == There /\ demo.is_demo /\ ~demo.expired

-----------------------------------------------------------------------------
\* The page's rows.  A photo may be dropped at any time, and twice.

Form == page[Maker] = "demo"
DropZone == Form
addFiles(f) ==
  /\ DropZone /\ Len(files) < MAX_FILES
  /\ files' = Append(files, [file |-> f, status |-> "pending"])
  /\ UNCHANGED <<uploading, batch, signedIn, serverVars, visitVars, lost, raced>>

RemoveButton == Form /\ ~uploading
removeFile(i) ==
  /\ RemoveButton
  /\ files' = RemoveAt(files, i)
  /\ UNCHANGED <<uploading, batch, signedIn, serverVars, visitVars, lost, raced>>

ClearAll ==
  /\ RemoveButton /\ files # <<>>
  /\ files' = <<>>
  /\ UNCHANGED <<uploading, batch, signedIn, serverVars, visitVars, lost, raced>>

Marked(i, s) == [j \in DOMAIN files |-> IF j = i THEN [files[j] EXCEPT !.status = s] ELSE files[j]]

\* handleUpload, with the rows of the moment it starts.
ProcessButton == Form /\ ~uploading /\ Len(files) >= MIN_FILES
handleUpload ==
  /\ ProcessButton
  /\ uploading' = TRUE
  /\ batch' = [photos |-> [i \in DOMAIN files |-> files[i].file], next |-> 0, keys |-> {}]
  /\ UNCHANGED <<files, signedIn, serverVars, visitVars, lost, raced>>

\* The token is asked for before the handler runs (TenantMiddleware).
Creates == batch # None /\ batch.next = 0
Created ==
  /\ Maker \in signedIn /\ demo = None
  /\ demo' = [is_demo |-> TRUE, owner |-> None, photos |-> {}, expired |-> FALSE,
              deleted |-> FALSE]

demo_create ==
  /\ Creates /\ Created
  /\ batch' = [batch EXCEPT !.next = 1]
  /\ UNCHANGED <<files, uploading, signedIn, stored, cleaner, visitVars, lost, raced>>

\* Anything that fails outside the loop over the photos shows an error and frees the
\* form: no token, one demo already this week, a request or its answer lost.
UploadFailed == uploading' = FALSE /\ batch' = None
Refused ==
  /\ Creates /\ (demo # None \/ Maker \notin signedIn)
  /\ UploadFailed
  /\ UNCHANGED <<files, signedIn, serverVars, visitVars, lost, raced>>

CreateLost ==
  /\ Creates /\ lost < MaxLost
  /\ Created \/ UNCHANGED demo
  /\ UploadFailed /\ lost' = lost + 1
  /\ UNCHANGED <<files, signedIn, stored, cleaner, visitVars, raced>>

Uploaded ==
  /\ batch # None /\ batch.next \in 1..Len(batch.photos)
  /\ stored' = stored \cup {batch.photos[batch.next]}
  /\ files' = Marked(batch.next, "done")
  /\ batch' = [batch EXCEPT !.next = @ + 1, !.keys = @ \cup {batch.next}]
  /\ UNCHANGED <<uploading, signedIn, demo, cleaner, visitVars, lost, raced>>

NotUploaded ==
  /\ batch # None /\ batch.next \in 1..Len(batch.photos) /\ lost < MaxLost
  /\ files' = Marked(batch.next, "error")
  /\ batch' = [batch EXCEPT !.next = @ + 1] /\ lost' = lost + 1
  /\ UNCHANGED <<uploading, signedIn, serverVars, visitVars, raced>>

AllTried == batch # None /\ batch.next = Len(batch.photos) + 1
Enough == Cardinality(batch.keys) >= MIN_FILES

TooFew ==
  /\ AllTried /\ ~Enough
  /\ UploadFailed
  /\ UNCHANGED <<files, signedIn, serverVars, visitVars, lost, raced>>

\* The maker goes on to the results; the form stays as it is until then.
demo_finalize ==
  /\ AllTried /\ Enough /\ Open
  /\ demo' = [demo EXCEPT !.photos = {batch.photos[i] : i \in batch.keys}]
  /\ page' = [page EXCEPT ![Maker] = "results"] /\ batch' = None
  /\ UNCHANGED <<files, uploading, signedIn, stored, cleaner, claims, account, lost, raced>>

NotFinalized ==
  /\ AllTried /\ Enough /\ (~Open \/ lost < MaxLost)
  /\ UploadFailed
  /\ lost' = IF Open THEN lost + 1 ELSE lost
  /\ UNCHANGED <<files, signedIn, serverVars, visitVars, raced>>

-----------------------------------------------------------------------------
\* The results page, and a claim: from there, then from the form that registers.

demo_view(v) ==
  /\ v # Maker /\ page[v] = "demo" /\ Open /\ demo.photos # {}
  /\ page' = [page EXCEPT ![v] = "results"]
  /\ UNCHANGED <<formVars, signedIn, serverVars, claims, account, lost, raced>>

ClaimButton(v) == page[v] = "results" /\ claims[v] = "none"
handleClaim(v) ==
  /\ ClaimButton(v)
  /\ claims' = [claims EXCEPT ![v] = IF v \in signedIn THEN "asked" ELSE "error"]
  /\ UNCHANGED <<formVars, signedIn, serverVars, page, account, lost, raced>>

Claiming(v, s) == claims' = [claims EXCEPT ![v] = s]
CheckClaim(v) ==
  /\ claims[v] = "asked"
  /\ Claiming(v, IF Open THEN "checked" ELSE "error")
  /\ raced' = (raced \/ (Open /\ \E u \in Visitors \ {v} : claims[u] = "checked"))
  /\ UNCHANGED <<formVars, signedIn, serverVars, page, account, lost>>

\* A listing deleted since cannot be written.
demo_claim(v) ==
  /\ claims[v] = "checked"
  /\ IF There
       THEN /\ demo' = [demo EXCEPT !.owner = <<v, account[v]>>, !.is_demo = FALSE, !.expired = FALSE]
            /\ Claiming(v, "ok") /\ raced' = (raced \/ cleaner)
       ELSE UNCHANGED <<demo, raced>> /\ Claiming(v, "error")
  /\ UNCHANGED <<formVars, signedIn, stored, cleaner, page, account, lost>>

\* Whatever became of the claim, the results page goes on to the form.
ToRegister(v) ==
  /\ page[v] = "results" /\ claims[v] \in {"ok", "error"}
  /\ page' = [page EXCEPT ![v] = "register"]
  /\ UNCHANGED <<formVars, signedIn, serverVars, claims, account, lost, raced>>

\* The new account claims again, whoever was signed in before.
Registered(v) ==
  /\ page[v] = "register" /\ account[v] = 0
  /\ account' = [account EXCEPT ![v] = 1] /\ signedIn' = signedIn \cup {v}
  /\ Claiming(v, "asked")
  /\ UNCHANGED <<formVars, serverVars, page, lost, raced>>

Arrived(v) ==
  /\ page[v] = "register" /\ account[v] = 1 /\ claims[v] \in {"ok", "error"}
  /\ page' = [page EXCEPT ![v] = IF claims[v] = "ok" THEN "listing" ELSE "onboarding"]
  /\ UNCHANGED <<formVars, signedIn, serverVars, claims, account, lost, raced>>

-----------------------------------------------------------------------------
Expire ==
  /\ Open
  /\ demo' = [demo EXCEPT !.expired = TRUE]
  /\ UNCHANGED <<formVars, signedIn, stored, cleaner, visitVars, lost, raced>>

\* The clean-up reads the expired demos and deletes their objects, then the rows by id.
SelectExpired ==
  /\ There /\ demo.is_demo /\ demo.expired /\ ~cleaner
  /\ cleaner' = TRUE /\ stored' = stored \ demo.photos
  /\ UNCHANGED <<formVars, signedIn, demo, visitVars, lost, raced>>

cleanup_expired_demos ==
  /\ cleaner
  /\ cleaner' = FALSE /\ demo' = [demo EXCEPT !.deleted = TRUE]
  /\ UNCHANGED <<formVars, signedIn, stored, visitVars, lost, raced>>

-----------------------------------------------------------------------------
Next ==
  \/ (\E f \in Files : addFiles(f)) \/ (\E i \in DOMAIN files : removeFile(i)) \/ ClearAll
  \/ handleUpload \/ demo_create \/ Refused \/ CreateLost
  \/ Uploaded \/ NotUploaded \/ TooFew \/ demo_finalize \/ NotFinalized
  \/ (\E v \in Visitors : demo_view(v)) \/ (\E v \in Visitors : handleClaim(v))
  \/ (\E v \in Visitors : CheckClaim(v)) \/ (\E v \in Visitors : demo_claim(v))
  \/ (\E v \in Visitors : ToRegister(v)) \/ (\E v \in Visitors : Registered(v))
  \/ (\E v \in Visitors : Arrived(v)) \/ Expire \/ SelectExpired \/ cleanup_expired_demos

Spec == Init /\ [][Next]_vars

-----------------------------------------------------------------------------
\* A row ticked while photos are uploaded is a photo in storage, though rows are
\* marked by their number and photos may be dropped meanwhile.
DoneIsStored ==
  batch # None /\ There /\ ~cleaner =>
    \A i \in DOMAIN files : batch.next > i /\ files[i].status = "done" => files[i].file \in stored

\* For while photos are uploaded none is removed, so row i stays photo i of the batch.
RowsOfBatch ==
  batch # None =>
    /\ uploading /\ Len(batch.photos) <= Len(files)
    /\ \A i \in DOMAIN batch.photos : files[i].file = batch.photos[i]

\* An account that claimed a demo keeps it and its photos, and no other account is told
\* that it has it; unless two claims overlapped, or a claim and the clean-up.
ClaimedIsKept ==
  ~raced => \A v \in Visitors : claims[v] = "ok" =>
              demo.owner = <<v, account[v]>> /\ ~demo.deleted /\ demo.photos \subseteq stored

\* Why a claim is kept: the clean-up starts on what nobody can claim, what is there has its
\* photos until it does, and a claim that found the demo open is the only one that did.
ClaimInv ==
  /\ cleaner => There /\ ~Open
  /\ batch # None /\ batch.next = 0 => batch.keys = {}
  /\ There /\ ~cleaner =>
       /\ demo.photos \subseteq stored
       /\ batch # None => \A i \in batch.keys : batch.photos[i] \in stored
  /\ ~raced => \A v \in Visitors :
       /\ claims[v] = "ok" =>
            There /\ ~demo.is_demo /\ ~cleaner /\ demo.owner = <<v, account[v]>>
       /\ claims[v] = "checked" => \A u \in Visitors \ {v} : claims[u] \notin {"checked", "ok"}
=============================================================================
