------------------------------- MODULE Wizard -------------------------------
(***************************************************************************)
(* The listing wizard: WizardContainer, its draft in localStorage, the     *)
(* photo and staging steps, and the confirmation that starts the pipeline. *)
(* A step that is left stays on screen, with live buttons and the form it  *)
(* last showed, until its exit animation has ended.  A request outlives    *)
(* the step it was made from, and the closure that handles its answer      *)
(* holds the form as it was when the request was made; a confirmation      *)
(* outlives the page too.                                                  *)
(***************************************************************************)
EXTENDS Naturals, Sequences, SequencesExt, FiniteSets, FiniteSetsExt

CONSTANTS Photos, None,
          MaxListings,  \* bound: listings created
          MaxUploads,   \* bound: upload batches, and imports, in flight
          MaxFiles,     \* bound: photos of one batch
          MaxConfirms   \* bound: confirmations in flight

VARIABLES
  \* this instance of the wizard
  shown, form, step, submitting, creating, creditBlock, resumed,
  leaving,    \* the step whose exit animation runs, as it was drawn last
  draft,      \* localStorage: listingjet_wizard_draft_v1
  \* requests in flight (orphans: listings asked for by a first step that is gone)
  uploads, imports, confirms, orphans,
  \* the server: listings created, their assets, pipelines
  made, assets, started,
  \* history: an answer or a leaving step met the form of another listing, or a second
  \* confirmation the first; the first step's Next was pressed again while it was leaving
  strayed, hasty

formVars == <<form, step, draft, leaving>>
busyVars == <<submitting, creating, creditBlock>>
requests == <<uploads, imports, confirms, orphans>>
serverVars == <<made, assets, started>>
vars == <<shown, formVars, busyVars, resumed, requests, serverVars, strayed, hasty>>

Listings == 1..MaxListings
Asset == Listings \X Photos
Shots == [asset : Asset, thumb : Photos]     \* uploadedAssets: id and preview
Forms == [listing : Listings \cup {None}, photos : SUBSET Shots, staging : SUBSET Asset]
INITIAL_FORM_DATA == [listing |-> None, photos |-> {}, staging |-> {}]

TypeOK ==
  /\ {shown, submitting, creating, creditBlock, resumed, strayed, hasty} \subseteq BOOLEAN
  /\ form \in Forms /\ step \in 1..5 /\ draft \in {None} \cup [form : Forms, step : 1..5]
  /\ leaving \in {None} \cup [form : Forms, step : 1..5, submitting : BOOLEAN]
  /\ uploads \subseteq [listing : Listings, files : BoundedSeq(Photos, MaxFiles),
                        base : SUBSET Shots]
  /\ imports \subseteq [listing : Listings, pc : {"job", "assets"}, snap : SUBSET Asset,
                        here : BOOLEAN]
  /\ confirms \subseteq [listing : Listings, staging : SUBSET Asset,
                         pc : {"tags", "start", "refresh"}, here : BOOLEAN]
  /\ orphans \in 0..MaxListings /\ (creating => orphans < MaxListings)
  /\ made \in 0..MaxListings /\ assets \in [Listings -> SUBSET Photos]
  /\ started \subseteq Listings

Init ==
  /\ shown = TRUE /\ form = INITIAL_FORM_DATA /\ step = 1
  /\ submitting = FALSE /\ creating = FALSE /\ creditBlock = FALSE /\ resumed = FALSE
  /\ draft = None /\ leaving = None
  /\ uploads = {} /\ imports = {} /\ confirms = {} /\ orphans = 0
  /\ made = 0 /\ assets = [l \in Listings |-> {}] /\ started = {}
  /\ strayed = FALSE /\ hasty = FALSE

-----------------------------------------------------------------------------
\* The step on screen, the form in its props, and what they say of a confirmation.
drawn == IF leaving = None THEN step ELSE leaving.step
props == IF leaving = None THEN form ELSE leaving.form
confirming == IF leaving = None THEN submitting ELSE leaving.submitting

\* setFormData, setStep and the effect that persists them once there is a listing.
\* AnimatePresence keeps a step that is left as it was, until it is the step again.
SetForm(f, s) ==
  /\ form' = f /\ step' = s
  /\ draft' = IF f.listing # None THEN [form |-> f, step |-> s] ELSE draft
  /\ leaving' = IF s = drawn THEN None
                 ELSE [form |-> props, step |-> drawn, submitting |-> confirming]

\* The container's goNext and goBack count from the step it is at.
Next1 == Min({step + 1, 5})
Back1 == Max({step - 1, 1})

\* The exit animation has ended: the step that was left is gone.
ExitEnds ==
  /\ leaving # None
  /\ leaving' = None
  /\ IF leaving.step = 1
     THEN creating' = FALSE /\ orphans' = IF creating THEN orphans + 1 ELSE orphans
     ELSE UNCHANGED <<creating, orphans>>
  /\ imports' = IF leaving.step = 2 THEN {[m EXCEPT !.here = FALSE] : m \in imports}
                                   ELSE imports
  /\ UNCHANGED <<shown, form, step, draft, submitting, creditBlock, resumed, uploads, confirms,
                 serverVars, strayed, hasty>>

\* A button of step s is there; the credit dialog covers the page.
Ready(s) == shown /\ ~creditBlock /\ drawn = s

\* A button is pressed: that of a leaving step may be for another listing than the form.
Press == strayed' = (strayed \/ props.listing # form.listing)

\* The controls that more than the step decides: Next of step 1, the photos to
\* stage, Confirm, the "Resumed your draft" banner and the credit dialog.
DetailsNext == Ready(1) /\ ~creating
StagingPhotos == IF Ready(3) THEN {x.asset : x \in props.photos} ELSE {}
ConfirmButton == Ready(5) /\ ~confirming
ResumedBanner == shown /\ ~creditBlock /\ resumed
CreditDialog == shown /\ creditBlock

\* Step 1, its fields filled: create the listing, or just advance.
handleNext ==
  /\ DetailsNext
  /\ IF props.listing # None
     THEN SetForm(form, Next1) /\ UNCHANGED creating
     ELSE made + orphans < MaxListings /\ creating' = TRUE /\ UNCHANGED formVars
  /\ Press /\ hasty' = (hasty \/ leaving # None)
  /\ UNCHANGED <<shown, submitting, creditBlock, resumed, requests, serverVars>>

\* The answer to a creation asked for by the step on screen, or by one that is gone.
Answered(here) ==
  IF here THEN creating /\ creating' = FALSE /\ UNCHANGED orphans
          ELSE orphans > 0 /\ orphans' = orphans - 1 /\ UNCHANGED creating

Created(here) ==
  /\ Answered(here) /\ made < MaxListings
  /\ made' = made + 1
  /\ SetForm([form EXCEPT !.listing = made'], Next1)
  /\ UNCHANGED <<shown, submitting, creditBlock, resumed, uploads, imports, confirms, assets,
                 started, strayed, hasty>>

\* The listing is refused, or made and its answer lost.
CreateFailed(here, reached) ==
  /\ Answered(here) /\ (reached => made < MaxListings)
  /\ made' = IF reached THEN made + 1 ELSE made
  /\ UNCHANGED <<shown, formVars, submitting, creditBlock, resumed, uploads, imports, confirms,
                 assets, started, strayed, hasty>>

\* A variant: Next is enabled without photos.
AlwaysProceed == TRUE

canProceed == props.photos # {}

\* Next and Back of steps 2 to 5.  Leaving step 2 leaves its requests alone.
goNext ==
  /\ \E s \in 2..4 : Ready(s)
  /\ drawn = 2 => canProceed
  /\ SetForm(form, Next1) /\ Press
  /\ UNCHANGED <<shown, busyVars, resumed, requests, serverVars, hasty>>

goBack ==
  /\ \E s \in 2..5 : Ready(s)
  /\ drawn = 5 => ~confirming
  /\ SetForm(form, Back1) /\ Press
  /\ UNCHANGED <<shown, busyVars, resumed, requests, serverVars, hasty>>

-----------------------------------------------------------------------------
\* Step 2: photos.  Its buttons forget a request when the step is gone.
PendingFiles == Ready(2) /\ props.listing # None
ImportBox == Ready(2) /\ props.listing # None /\ \A m \in imports : ~m.here

handleUpload(files) ==
  /\ PendingFiles /\ Cardinality(uploads) < MaxUploads
  /\ uploads' = uploads \cup
       {[listing |-> props.listing, files |-> files, base |-> props.photos]}
  /\ Press
  /\ UNCHANGED <<shown, formVars, busyVars, resumed, imports, confirms, orphans, serverVars,
                 hasty>>

\* The place among the files that got through, in order: Promise.all, then filter(Boolean).
Rank(sent, i) == Cardinality({j \in sent : j <= i})

\* The n-th registered asset gets the preview of the n-th file of the batch.
NewUploaded(u, sent) ==
  {[asset |-> <<u.listing, u.files[i]>>, thumb |-> u.files[Rank(sent, i)]] : i \in sent}

Registered(u, sent) ==
  /\ u \in uploads /\ sent \subseteq DOMAIN u.files
  /\ assets' = [assets EXCEPT ![u.listing] = @ \cup {u.files[i] : i \in sent}]
  /\ uploads' = uploads \ {u}

Uploaded(u, sent) ==
  /\ Registered(u, sent) /\ sent # {}
  /\ SetForm([form EXCEPT !.photos = u.base \cup NewUploaded(u, sent)], step)
  /\ UNCHANGED <<shown, busyVars, resumed, imports, confirms, orphans, made, started, strayed,
                 hasty>>

\* No file got through, a request failed, or the answer was lost.
UploadFailed(u, sent) ==
  /\ Registered(u, sent)
  /\ UNCHANGED <<shown, formVars, busyVars, resumed, imports, confirms, orphans, made, started,
                 strayed, hasty>>

handleImportLink ==
  /\ ImportBox /\ Cardinality(imports) < MaxUploads
  /\ imports' = imports \cup
       {[listing |-> props.listing, pc |-> "job", snap |-> {}, here |-> TRUE]}
  /\ Press
  /\ UNCHANGED <<shown, formVars, busyVars, resumed, uploads, confirms, orphans, serverVars,
                 hasty>>

\* The job adds photos and ends; the poll that sees it reads all assets, and the button
\* of a step that is still there is enabled.
ImportCompleted(m, new) ==
  /\ m \in imports /\ m.pc = "job"
  /\ assets' = [assets EXCEPT ![m.listing] = @ \cup new]
  /\ imports' = (imports \ {m}) \cup
       {[m EXCEPT !.pc = "assets", !.here = FALSE,
                  !.snap = {m.listing} \X assets'[m.listing]]}
  /\ UNCHANGED <<shown, formVars, busyVars, resumed, uploads, confirms, orphans, made, started,
                 strayed, hasty>>

ImportShown(m) ==
  /\ m \in imports /\ m.pc = "assets"
  /\ imports' = imports \ {m}
  /\ SetForm([form EXCEPT !.photos = {[asset |-> a, thumb |-> a[2]] : a \in m.snap}], step)
  /\ UNCHANGED <<shown, busyVars, resumed, uploads, confirms, orphans, serverVars, strayed,
                 hasty>>

ImportFailed(m) ==
  /\ m \in imports
  /\ imports' = imports \ {m}
  /\ UNCHANGED <<shown, formVars, busyVars, resumed, uploads, confirms, orphans, serverVars,
                 strayed, hasty>>

\* Step 3: one click on a photo, or Skip.
toggleAsset(a) ==
  /\ a \in StagingPhotos
  /\ LET ids == props.staging
     IN  SetForm([form EXCEPT !.staging = IF a \in ids THEN ids \ {a} ELSE ids \cup {a}], step)
  /\ Press
  /\ UNCHANGED <<shown, busyVars, resumed, requests, serverVars, hasty>>

handleSkip ==
  /\ Ready(3)
  /\ SetForm([form EXCEPT !.staging = {}], Next1) /\ Press
  /\ UNCHANGED <<shown, busyVars, resumed, requests, serverVars, hasty>>

-----------------------------------------------------------------------------
\* Step 5: tag the photos, start the pipeline, refresh the plan, forget the draft.  The
\* button of a step that is leaving does not know of the confirmation it made.

handleConfirm ==
  /\ ConfirmButton /\ props.listing # None /\ Cardinality(confirms) < MaxConfirms
  /\ submitting' = TRUE
  /\ confirms' = confirms \cup {[listing |-> props.listing, staging |-> props.staging,
                                 here |-> TRUE,
                                 pc |-> IF props.staging # {} THEN "tags" ELSE "start"]}
  /\ strayed' = (strayed \/ props.listing # form.listing \/ submitting)
  /\ UNCHANGED <<shown, formVars, creating, creditBlock, resumed, uploads, imports, orphans,
                 serverVars, hasty>>

Advance(c, pc) ==
  /\ c \in confirms
  /\ confirms' = (confirms \ {c}) \cup {[c EXCEPT !.pc = pc]}
  /\ UNCHANGED <<shown, formVars, busyVars, resumed, uploads, imports, orphans, made, assets,
                 strayed, hasty>>

\* set_staging_tags and start_pipeline refuse a listing that is no draft any more, tags
\* that are not photos of the listing, and a listing without photos.
OfListing(l, as) == as \subseteq {a \in Asset : a[1] = l /\ a[2] \in assets[l]}
TagsAccepted(c) == c.listing \notin started /\ OfListing(c.listing, c.staging)
StartAccepted(c) == c.listing \notin started /\ assets[c.listing] # {}

Tagged(c) ==
  /\ c.pc = "tags" /\ TagsAccepted(c) /\ Advance(c, "start")
  /\ UNCHANGED started

Started(c) ==
  /\ c.pc = "start" /\ StartAccepted(c) /\ Advance(c, "refresh")
  /\ started' = started \cup {c.listing}

\* The end of handleConfirm; its `finally` runs in an instance that is gone too.
Finish(c) ==
  /\ c \in confirms
  /\ confirms' = confirms \ {c}
  /\ submitting' = (submitting /\ ~c.here)

\* The plan's refresh never fails: the draft goes.
ConfirmDone(c) ==
  /\ Finish(c) /\ c.pc = "refresh"
  /\ draft' = None
  /\ UNCHANGED <<shown, form, step, leaving, creating, creditBlock, resumed, uploads, imports,
                 orphans, serverVars, strayed, hasty>>

\* A refusal (402 opens the credit dialog) or a lost answer keeps the draft.
ConfirmFailed(c, status, reached) ==
  /\ Finish(c) /\ c.pc \in {"tags", "start"}
  /\ creditBlock' = (creditBlock \/ (c.here /\ status = 402))
  /\ started' = IF reached /\ status # 402 /\ c.pc = "start" /\ StartAccepted(c)
                 THEN started \cup {c.listing} ELSE started
  /\ UNCHANGED <<shown, formVars, creating, resumed, uploads, imports, orphans, made, assets,
                 strayed, hasty>>

KeepEditing ==
  /\ CreditDialog
  /\ creditBlock' = FALSE
  /\ UNCHANGED <<shown, formVars, submitting, creating, resumed, requests, serverVars, strayed,
                 hasty>>

handleStartOver ==
  /\ ResumedBanner
  /\ form' = INITIAL_FORM_DATA /\ step' = 1 /\ draft' = None /\ resumed' = FALSE
  /\ leaving' = IF drawn = 1 THEN None
                 ELSE [form |-> props, step |-> drawn, submitting |-> confirming]
  /\ strayed' = (strayed \/ creating \/ orphans > 0 \/ uploads \cup imports \cup confirms # {})
  /\ UNCHANGED <<shown, busyVars, requests, serverVars, hasty>>

-----------------------------------------------------------------------------
\* The page goes, with the tab or to another page of the program.  Of its
\* requests only the confirmations still touch what the wizard keeps.
Leave(reload) ==
  /\ shown
  /\ shown' = FALSE /\ form' = INITIAL_FORM_DATA /\ step' = 1 /\ resumed' = FALSE
  /\ submitting' = FALSE /\ creating' = FALSE /\ creditBlock' = FALSE /\ leaving' = None
  /\ uploads' = {} /\ imports' = {} /\ orphans' = 0
  /\ confirms' = IF reload THEN {} ELSE {[c EXCEPT !.here = FALSE] : c \in confirms}
  /\ UNCHANGED <<draft, serverVars, strayed, hasty>>

\* The wizard mounts and hydrates from the draft.  (The first step leaves then, but Next
\* of an empty form does nothing.)
Open ==
  /\ ~shown
  /\ shown' = TRUE
  /\ IF draft # None THEN form' = draft.form /\ step' = draft.step /\ resumed' = TRUE
                     ELSE UNCHANGED <<form, step, resumed>>
  /\ UNCHANGED <<busyVars, draft, leaving, requests, serverVars, strayed, hasty>>

-----------------------------------------------------------------------------
ConfirmAnswer(c) ==
  \/ Tagged(c) \/ Started(c) \/ ConfirmDone(c)
  \/ \E status \in {402, 500}, reached \in BOOLEAN : ConfirmFailed(c, status, reached)

Next ==
  \/ handleNext \/ ExitEnds
  \/ \E here \in BOOLEAN : Created(here) \/ \E reached \in BOOLEAN : CreateFailed(here, reached)
  \/ goNext \/ goBack
  \/ \E files \in BoundedSeq(Photos, MaxFiles) \ {<<>>} :
        IsInjective(files) /\ handleUpload(files)
  \/ \E u \in uploads, sent \in SUBSET (1..MaxFiles) : Uploaded(u, sent) \/ UploadFailed(u, sent)
  \/ handleImportLink
  \/ \E m \in imports : ImportShown(m) \/ ImportFailed(m)
                        \/ \E new \in SUBSET Photos : ImportCompleted(m, new)
  \/ (\E a \in Asset : toggleAsset(a)) \/ handleSkip
  \/ handleConfirm \/ (\E c \in confirms : ConfirmAnswer(c)) \/ KeepEditing
  \/ handleStartOver \/ (\E reload \in BOOLEAN : Leave(reload)) \/ Open

Spec == Init /\ [][Next]_vars

\* Bounds: a wizard is explored until it has strayed, of which its properties say little;
\* a second confirmation, where nothing else is under way.
Followed ==
  /\ ~strayed
  /\ Cardinality(confirms) > 1 => uploads \cup imports = {} /\ ~hasty

-----------------------------------------------------------------------------
(* "Your draft is saved [...] nothing you've entered will be lost"         *)
(* (wizard-container.tsx:312-318): a listing the wizard made is the draft, *)
(* in storage and up to date, until its pipeline starts or the visitor     *)
(* starts over, through refusals, lost answers, reloads and returns.       *)
DraftKept ==
  ~strayed /\ shown /\ form.listing \notin started
    => draft = IF form.listing = None THEN None ELSE [form |-> form, step |-> step]

(* The server has no reason to refuse a confirmation for its photos: the   *)
(* listing has some, as step 2 promises ("Upload at least one photo to     *)
(* continue", step-upload-photos.tsx:288, 512-521), and the tags name them *)
(* (listings_draft.py:57-59, 94-99).  Provided no answer met another       *)
(* listing's form, and, for the first, that Next of step 1 was not pressed *)
(* again while that step was leaving, which skips the photos.              *)
ConfirmedPhotos ==
  ~strayed => \A c \in confirms : /\ OfListing(c.listing, c.staging)
                                 /\ (hasty \/ assets[c.listing] # {})

(* The Confirm button, disabled while it spins, spins only while a         *)
(* confirmation of the wizard on screen is under way, and all that time    *)
(* unless there were two: no failure freezes it, none of an earlier wizard *)
(* stops it (wizard-container.tsx:136-165, step-review-confirm.tsx:238-245).*)
NoFrozenConfirm ==
  /\ submitting => \E c \in confirms : c.here
  /\ ~strayed /\ (\E c \in confirms : c.here) => submitting

\* A wizard has one confirmation under way at a time.
OneConfirm == ~strayed => \A c, d \in confirms : c.here /\ d.here => c = d

\* A saved draft names its listing.
DraftNamed == draft # None => draft.form.listing # None

(* What ConfirmedPhotos rests on: the form, what the step on screen shows  *)
(* of it and the saved draft, at their step, and every request, name       *)
(* photos of one listing that the server has.  From the second step on     *)
(* there is a listing, and past the photos' step it has a photo: at the    *)
(* server, since an import may empty form.photos again.                    *)
Grounded(f, s) ==
  /\ s >= 2 => f.listing # None
  /\ \A x \in f.photos : OfListing(f.listing, {x.asset})
  /\ OfListing(f.listing, f.staging)
  /\ s >= 3 => (hasty \/ assets[f.listing] # {})

GroundedRequests ==
  /\ \A u \in uploads : /\ u.listing = form.listing
                        /\ \A x \in u.base : OfListing(u.listing, {x.asset})
  /\ \A m \in imports : m.listing = form.listing /\ OfListing(m.listing, m.snap)
  /\ ConfirmedPhotos

\* What a leaving step still shows is grounded too, when it is of the form's listing;
\* and it is of some listing from the second step on.
GroundedLeaving ==
  leaving # None =>
    /\ leaving.step # step
    /\ leaving.step >= 2 => leaving.form.listing # None
    /\ leaving.form.listing = form.listing => Grounded(leaving.form, leaving.step)

\* A listing under creation leaves the page as it is, and is the only one; a page that
\* went has no request but its confirmations.
CreatingOrGone ==
  /\ orphans = 0
  /\ creating => shown /\ leaving = None /\ form.listing = None /\ step = 1
  /\ ~shown => /\ ~creating /\ leaving = None /\ form = INITIAL_FORM_DATA
               /\ uploads = {} /\ imports = {}

GroundedInv ==
  ~strayed => /\ Grounded(form, step)
              /\ draft # None => Grounded(draft.form, draft.step)
              /\ GroundedRequests /\ GroundedLeaving /\ CreatingOrGone

(* What the draft rests on: a confirmation under way is of the draft's     *)
(* listing, also when the page has gone, or its listing has started, and   *)
(* then only the one that started it goes on to forget the draft.          *)
OfDraft(l) ==
  /\ shown => form.listing = l
  /\ draft # None /\ draft.form.listing = l

ConfirmsDraft ==
  /\ \A c \in confirms : c.listing \in started \/ OfDraft(c.listing)
  /\ \A c \in confirms : c.pc = "refresh" => c.listing \in started /\ OfDraft(c.listing)
  /\ \A c, d \in confirms : c.pc = "refresh" /\ d.pc = "refresh" => c = d

DraftInv == DraftKept /\ (~strayed => ConfirmsDraft)
=============================================================================
