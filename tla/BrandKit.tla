------------------------------ MODULE BrandKit ------------------------------
(***************************************************************************)
(* The brand kit page and the kit the server keeps.  The form is filled    *)
(* once, when the kit has been read; its pictures are uploaded as they are *)
(* chosen and named in the form when they have arrived; saving sends the   *)
(* whole form, and what the kit holds beside it, as it was at the click.   *)
(* The texts are two: "top" for the columns of the table, "raw" for the    *)
(* keys of raw_config.  A value is the number of the change that made it,  *)
(* 0 for none or the default.  The language of descriptions, a tenant      *)
(* setting on the same page, is left out; so is a second user of the page. *)
(***************************************************************************)
EXTENDS Naturals

CONSTANTS None, Kinds, MaxTyped, MaxUploads, MaxSaves, MaxLost

VARIABLES
  kit,                                         \* server
  loading, form, extras,                       \* page: the form, the keys it does not know
  preview, uploading, uploads,                 \* page: pictures chosen, on their way
  saving, saved, body, timers,                 \* page: a save under way, its message
  typed, sent, saves, lost,                    \* history: counters,
  original, touched, unread, dirty             \* the kit at first, what was changed

formVars == <<loading, form, extras>>
pictureVars == <<preview, uploading, uploads>>
saveVars == <<saving, saved, body, timers>>
history == <<original, unread>>
vars == <<kit, formVars, pictureVars, saveVars, typed, sent, saves, lost, history, touched, dirty>>

Texts == {"top", "raw"}
FormKeys == Texts \cup Kinds
Values == 0..(1 + MaxTyped + MaxUploads)
Forms == [FormKeys -> Values]
Kits == [FormKeys \cup {"extras"} -> Values]
Default == [f \in FormKeys |-> 0]
NoKit == [f \in FormKeys \cup {"extras"} |-> 0]

TypeOK ==
  /\ kit \in Kits \cup {None} /\ original \in Kits
  /\ form \in Forms /\ extras \in {0, 1}
  /\ {loading, saving, saved, unread, dirty} \subseteq BOOLEAN
  /\ preview \in [Kinds -> Values] /\ uploading \in [Kinds -> BOOLEAN]
  /\ \A u \in uploads : u.of \in Kinds /\ u.n \in Values
  /\ body \in Kits \cup {None} /\ timers \in 0..MaxSaves /\ touched \subseteq FormKeys
  /\ typed \in 0..MaxTyped /\ sent \in 0..MaxUploads /\ saves \in 0..MaxSaves /\ lost \in 0..MaxLost

\* No kit yet, or one that holds keys this page does not know.
Init ==
  /\ kit \in {None, [f \in FormKeys \cup {"extras"} |-> 1]}
  /\ original = IF kit = None THEN NoKit ELSE kit
  /\ loading = TRUE /\ form = Default /\ extras = 0
  /\ preview = [k \in Kinds |-> 0] /\ uploading = [k \in Kinds |-> FALSE] /\ uploads = {}
  /\ saving = FALSE /\ saved = FALSE /\ body = None /\ timers = 0
  /\ typed = 0 /\ sent = 0 /\ saves = 0 /\ lost = 0
  /\ touched = {} /\ unread = FALSE /\ dirty = FALSE

-----------------------------------------------------------------------------
get_brand_kit == IF kit = None THEN NoKit ELSE kit

Loaded ==
  /\ loading /\ loading' = FALSE
  /\ form' = [f \in FormKeys |-> get_brand_kit[f]] /\ extras' = get_brand_kit["extras"]
  /\ UNCHANGED <<kit, pictureVars, saveVars, typed, sent, saves, lost, history, touched, dirty>>

\* The page shows the defaults, as for a tenant without a kit.
NotLoaded ==
  /\ loading /\ lost < MaxLost
  /\ loading' = FALSE /\ lost' = lost + 1 /\ unread' = TRUE
  /\ UNCHANGED <<kit, form, extras, pictureVars, saveVars, typed, sent, saves, original, touched,
                 dirty>>

-----------------------------------------------------------------------------
\* The sections of the form; the whole form is hidden until the load has ended.

FormShown == ~loading
setForm(f, v) ==
  /\ form' = [form EXCEPT ![f] = v]
  /\ touched' = touched \cup {f} /\ dirty' = TRUE

NameInputs == {"top"}
ColorPickers == {"top", "raw"}
FontPickers == {"top", "raw"}
VoiceFields == {"raw"}

type(f) ==
  /\ FormShown /\ f \in NameInputs \cup ColorPickers \cup FontPickers \cup VoiceFields
  /\ typed < MaxTyped
  /\ typed' = typed + 1 /\ setForm(f, 1 + typed')
  /\ UNCHANGED <<kit, loading, extras, pictureVars, saveVars, sent, saves, lost, history>>

\* A logo is dropped on its square, or picked by a click on it, also while one is
\* uploaded; the headshot's only button waits.
UploadArea(k) == FormShown /\ (k = "headshot" => ~uploading[k])
upload(k) ==
  /\ UploadArea(k) /\ sent < MaxUploads
  /\ sent' = sent + 1
  /\ preview' = [preview EXCEPT ![k] = 1 + MaxTyped + sent']
  /\ uploading' = [uploading EXCEPT ![k] = TRUE]
  /\ uploads' = uploads \cup {[of |-> k, n |-> 1 + MaxTyped + sent']}
  /\ UNCHANGED <<kit, formVars, saveVars, typed, saves, lost, history, touched, dirty>>

\* The storage has answered, whatever it said.
uploadToS3(u) ==
  /\ u \in uploads /\ setForm(u.of, u.n)
  /\ uploading' = [uploading EXCEPT ![u.of] = FALSE] /\ uploads' = uploads \ {u}
  /\ UNCHANGED <<kit, loading, extras, preview, saveVars, typed, sent, saves, lost, history>>

\* No URL to send it to, or no answer; the preview stays.
NotUploaded(u) ==
  /\ u \in uploads /\ lost < MaxLost
  /\ uploading' = [uploading EXCEPT ![u.of] = FALSE] /\ uploads' = uploads \ {u}
  /\ lost' = lost + 1
  /\ UNCHANGED <<kit, formVars, preview, saveVars, typed, sent, saves, history, touched, dirty>>

\* What a picture's square, and the card beside the form, show.
PictureShown(k) == IF preview[k] # 0 THEN preview[k] ELSE form[k]

remove(k) ==
  /\ FormShown /\ PictureShown(k) # 0 /\ setForm(k, 0)
  /\ UNCHANGED <<kit, loading, extras, pictureVars, saveVars, typed, sent, saves, lost, history>>

-----------------------------------------------------------------------------
\* A variant: only what the form knows is sent.
BodyOfForm == [f \in FormKeys \cup {"extras"} |-> IF f = "extras" THEN 0 ELSE form[f]]

Body == [f \in FormKeys \cup {"extras"} |-> IF f = "extras" THEN extras ELSE form[f]]

SaveButton == FormShown /\ ~saving
handleSave ==
  /\ SaveButton /\ saves < MaxSaves
  /\ saving' = TRUE /\ saved' = FALSE /\ saves' = saves + 1 /\ body' = Body /\ dirty' = FALSE
  /\ UNCHANGED <<kit, formVars, pictureVars, timers, typed, sent, lost, history, touched>>

\* What is None in the request is left as it is: a logo cannot be taken away.
\* raw_config is replaced, all of it.
upsert_brand_kit(b) ==
  LET old == get_brand_kit
      keep == IF b["logo"] = 0 THEN {"logo"} ELSE {}
  IN [f \in FormKeys \cup {"extras"} |-> IF f \in keep THEN old[f] ELSE b[f]]

Saved ==
  /\ saving /\ kit' = upsert_brand_kit(body)
  /\ saving' = FALSE /\ saved' = TRUE /\ body' = None /\ timers' = timers + 1
  /\ UNCHANGED <<formVars, pictureVars, typed, sent, saves, lost, history, touched, dirty>>

\* Refused (a colour that is none), or lost, with or without effect: only logged.
NotSaved(acted) ==
  /\ saving /\ lost < MaxLost
  /\ kit' = IF acted THEN upsert_brand_kit(body) ELSE kit
  /\ saving' = FALSE /\ body' = None /\ lost' = lost + 1
  /\ UNCHANGED <<formVars, pictureVars, saved, timers, typed, sent, saves, history, touched, dirty>>

\* Three seconds after some save.
SavedFades ==
  /\ timers > 0 /\ timers' = timers - 1 /\ saved' = FALSE
  /\ UNCHANGED <<kit, formVars, pictureVars, saving, body, typed, sent, saves, lost, history,
                 touched, dirty>>

-----------------------------------------------------------------------------
Next ==
  \/ Loaded \/ NotLoaded \/ (\E f \in Texts : type(f)) \/ (\E k \in Kinds : upload(k))
  \/ (\E u \in uploads : uploadToS3(u)) \/ (\E u \in uploads : NotUploaded(u))
  \/ (\E k \in Kinds : remove(k)) \/ handleSave \/ Saved
  \/ (\E b \in BOOLEAN : NotSaved(b)) \/ SavedFades

Spec == Init /\ [][Next]_vars

-----------------------------------------------------------------------------
\* While the page says "saved", and the form has not changed since the click, the server
\* has all the form shows; a logo taken away excepted, which the server keeps.
SavedIsShown ==
  saved /\ ~dirty =>
    \A f \in FormKeys : kit[f] = form[f] \/ (f = "logo" /\ form[f] = 0)

\* Saving a kit that was read loses nothing the user did not change: neither the fields
\* they left alone nor the keys the page does not know.
KitKept ==
  ~unread => \A f \in (FormKeys \cup {"extras"}) \ touched : get_brand_kit[f] = original[f]

\* Because what the user did not change is, once loaded, the original in the form and in
\* every request.
Untouched(b) ==
  ~unread => \A f \in (FormKeys \cup {"extras"}) \ touched : b[f] = original[f]

KitInv ==
  /\ KitKept
  /\ ~loading => Untouched(Body)
  /\ saving => ~loading /\ Untouched(body)

\* A save under way, unless the form has changed since, carries the form.
SavedInv ==
  /\ loading => ~saving /\ ~saved
  /\ saving => ~saved
  /\ saving /\ ~dirty => \A f \in FormKeys : body[f] = form[f]
  /\ SavedIsShown
=============================================================================
