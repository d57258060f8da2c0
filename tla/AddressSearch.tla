---------------------------- MODULE AddressSearch ----------------------------
(***************************************************************************)
(* The address field of the wizard's first step: the loader of the Google  *)
(* Maps script shared by every field on the page, the debounced            *)
(* predictions of usePlacesAutocomplete, the selection of a place, and the *)
(* property lookup that fills the details in.  Google and the lookup       *)
(* answer when they like and may fail.                                     *)
(***************************************************************************)
EXTENDS Naturals, FiniteSets

CONSTANTS None,
          Fields,      \* mounts of the field, one after the other or overlapping
          Streets,     \* addresses of at least three characters
          Values,      \* what the user types into the unit and the price
          MaxTyped,    \* bound: values typed
          MaxSelected  \* bound: places selected

Short == "short"       \* a query of fewer than three characters

VARIABLES
  script, tags, loadCallbacks,                \* the loader: module-level state
  places,                                     \* per mount: its services
  query, timer, asked, predictions, isOpen,   \* the field mounted last
  street, unit, price,                        \* the wizard's form
  details, lookups, lookingUp,                \* requests, with what they captured
  selected, typed, typedUnit, typedPrice, raced  \* history

loaderVars == <<script, tags, loadCallbacks>>
fieldVars == <<query, timer, asked, predictions, isOpen>>
formVars == <<street, unit, price>>
lookupVars == <<details, lookups, lookingUp>>
typingVars == <<typed, typedUnit, typedPrice, raced>>
vars == <<loaderVars, places, fieldVars, formVars, lookupVars, selected, typingVars>>

Queries == Streets \cup {Short}
Captured == [query : Queries, unit : Values \cup {None}, price : Values \cup {None}]

TypeOK ==
  /\ script \in {"none", "loading", "loaded", "bare"} /\ tags \in 0..Cardinality(Fields)
  /\ loadCallbacks \subseteq Fields
  /\ places \in [Fields -> {"new", "waiting", "plain", "ready", "gone"}]
  /\ query \in Queries /\ timer \in Streets \cup {None} /\ asked \subseteq Streets
  /\ predictions \in Streets \cup {None} /\ {isOpen, lookingUp, raced} \subseteq BOOLEAN
  /\ street \in Queries /\ {unit, price, typedUnit, typedPrice} \subseteq Values \cup {None}
  /\ details \subseteq Captured /\ lookups \subseteq Captured
  /\ selected \in 0..MaxSelected /\ typed \in 0..MaxTyped

Init ==
  /\ script = "none" /\ tags = 0 /\ loadCallbacks = {}
  /\ places = [f \in Fields |-> "new"]
  /\ query = Short /\ timer = None /\ asked = {} /\ predictions = None /\ isOpen = FALSE
  /\ street = Short /\ unit = None /\ price = None
  /\ details = {} /\ lookups = {} /\ lookingUp = FALSE
  /\ selected = 0 /\ typed = 0 /\ typedUnit = None /\ typedPrice = None /\ raced = FALSE

Mounted == {f \in Fields : places[f] \in {"waiting", "plain", "ready"}}
Ready == \E f \in Mounted : places[f] = "ready"

-----------------------------------------------------------------------------
\* loadGoogleMapsScript: who comes while the script loads waits for its end; who
\* comes after a failure appends the script again.  "bare": without the library.
scriptLoaded == script \in {"loaded", "bare"}
\* A variant: every caller appends the script.
AppendsScript(f) ==
  /\ places' = [places EXCEPT ![f] = CASE script = "loaded" -> "ready"
                                      [] script = "bare"   -> "plain"
                                      [] OTHER             -> "waiting"]
  /\ script' = IF script = "none" THEN "loading" ELSE script
  /\ tags' = tags + 1
  /\ loadCallbacks' = IF scriptLoaded THEN loadCallbacks ELSE loadCallbacks \cup {f}

loadGoogleMapsScript(f) ==
  /\ places' = [places EXCEPT ![f] = CASE script = "loaded" -> "ready"
                                      [] script = "bare"   -> "plain"
                                      [] OTHER             -> "waiting"]
  /\ script' = IF script = "none" THEN "loading" ELSE script
  /\ tags' = IF script = "none" THEN tags + 1 ELSE tags
  /\ loadCallbacks' = IF scriptLoaded THEN loadCallbacks ELSE loadCallbacks \cup {f}

Blank == /\ query' = Short /\ timer' = None /\ asked' = {}
         /\ predictions' = None /\ isOpen' = FALSE

Mount(f) ==
  /\ places[f] = "new" /\ Mounted = {}
  /\ loadGoogleMapsScript(f) /\ Blank
  /\ UNCHANGED <<formVars, lookupVars, selected, typingVars>>

\* Another step of the wizard, or another page: answers to the field come to nothing.
Unmount(f) ==
  /\ f \in Mounted
  /\ places' = [places EXCEPT ![f] = "gone"] /\ Blank
  /\ UNCHANGED <<loaderVars, formVars, lookupVars, selected, typingVars>>

\* A variant: nobody is told of a failure.
ResolveLoaded(library) ==
  /\ loadCallbacks' = {}
  /\ places' = [f \in Fields |-> IF f \in loadCallbacks /\ places[f] = "waiting" /\ library
                                   THEN "ready" ELSE places[f]]

\* Every promise is resolved; a field finds the places library or stays plain.
Resolve(library) ==
  /\ loadCallbacks' = {}
  /\ places' = [f \in Fields |-> IF f \in loadCallbacks /\ places[f] = "waiting"
                                   THEN IF library THEN "ready" ELSE "plain" ELSE places[f]]

onload(library) ==
  /\ tags > 0 /\ script = "loading"
  /\ script' = (IF library THEN "loaded" ELSE "bare") /\ tags' = tags - 1 /\ Resolve(library)
  /\ UNCHANGED <<fieldVars, formVars, lookupVars, selected, typingVars>>

onerror ==
  /\ tags > 0 /\ script = "loading"
  /\ script' = "none" /\ tags' = tags - 1 /\ Resolve(FALSE)
  /\ UNCHANGED <<fieldVars, formVars, lookupVars, selected, typingVars>>

-----------------------------------------------------------------------------
\* The effect on the query: a timer when there is something to ask, else nothing.
QueryEffect(q) ==
  /\ query' = q
  /\ IF q # Short /\ Ready
       THEN timer' = q /\ UNCHANGED <<predictions, isOpen>>
       ELSE timer' = None /\ predictions' = None /\ isOpen' = FALSE

setQuery(q) ==
  /\ Mounted # {} /\ q # query
  /\ QueryEffect(q) /\ street' = q
  /\ UNCHANGED <<loaderVars, places, asked, unit, price, lookupVars, selected, typingVars>>

AskPredictions ==
  /\ timer # None
  /\ asked' = asked \cup {timer} /\ timer' = None
  /\ UNCHANGED <<loaderVars, places, query, predictions, isOpen, formVars, lookupVars, selected,
                 typingVars>>

\* The answer is shown whatever the query has become.
Predicted(q, ok) ==
  /\ q \in asked
  /\ asked' = asked \ {q} /\ predictions' = (IF ok THEN q ELSE None) /\ isOpen' = ok
  /\ UNCHANGED <<loaderVars, places, query, timer, formVars, lookupVars, selected, typingVars>>

dismiss ==
  /\ isOpen
  /\ isOpen' = FALSE /\ predictions' = None
  /\ UNCHANGED <<loaderVars, places, query, timer, asked, formVars, lookupVars, selected,
                 typingVars>>

\* A click on a prediction: the handler keeps the form of the render it belongs to.
selectPlace ==
  /\ isOpen /\ predictions # None /\ selected < MaxSelected
  /\ selected' = selected + 1
  /\ details' = details \cup {[query |-> query, unit |-> unit, price |-> price]}
  /\ UNCHANGED <<loaderVars, places, fieldVars, formVars, lookups, lookingUp, typingVars>>

\* onAddressSelect: the address found, or the query alone, over the captured form;
\* then the lookup, with the captured details.
AddressSelected(d, found) ==
  /\ d \in details
  /\ details' = details \ {d}
  /\ street' = (IF found # None THEN found ELSE d.query) /\ unit' = d.unit
  /\ lookups' = lookups \cup {d} /\ lookingUp' = TRUE
  /\ IF Mounted = {} THEN UNCHANGED fieldVars
     ELSE /\ IF found \in {None, query} THEN UNCHANGED <<query, timer>>
                                        ELSE query' = found /\ timer' = (IF Ready THEN found ELSE None)
          /\ predictions' = None /\ isOpen' = FALSE /\ UNCHANGED asked
  /\ UNCHANGED <<loaderVars, places, price, selected, typingVars>>

\* lookupProperty: what was found goes over the captured metadata.
LookedUp(l, found) ==
  /\ l \in lookups
  /\ lookups' = lookups \ {l} /\ lookingUp' = FALSE
  /\ price' = IF found THEN l.price ELSE price
  /\ UNCHANGED <<loaderVars, places, fieldVars, street, unit, details, selected, typingVars>>

Racing == raced \/ details # {} \/ lookups # {}

setAddress(v) ==
  /\ typed < MaxTyped /\ v # unit
  /\ unit' = v
  /\ UNCHANGED <<loaderVars, places, fieldVars, street, price, lookupVars, selected>>
  /\ typed' = typed + 1 /\ typedUnit' = v /\ raced' = Racing /\ UNCHANGED typedPrice

setMeta(v) ==
  /\ typed < MaxTyped /\ v # price
  /\ price' = v
  /\ UNCHANGED <<loaderVars, places, fieldVars, street, unit, lookupVars, selected>>
  /\ typed' = typed + 1 /\ typedPrice' = v /\ raced' = Racing /\ UNCHANGED typedUnit

Loaded == onerror \/ \E library \in BOOLEAN : onload(library)

Next ==
  \/ (\E f \in Fields : Mount(f)) \/ (\E f \in Fields : Unmount(f))
  \/ (\E library \in BOOLEAN : onload(library)) \/ onerror
  \/ (\E q \in Queries : setQuery(q)) \/ AskPredictions
  \/ (\E q \in asked, ok \in BOOLEAN : Predicted(q, ok)) \/ dismiss
  \/ selectPlace \/ (\E d \in details, s \in Streets \cup {None} : AddressSelected(d, s))
  \/ (\E l \in lookups, ok \in BOOLEAN : LookedUp(l, ok))
  \/ (\E v \in Values : setAddress(v)) \/ (\E v \in Values : setMeta(v))

Spec == Init /\ [][Next]_vars

\* The browser ends the load of a script one way or the other.
FairSpec == Spec /\ WF_vars(Loaded)

-----------------------------------------------------------------------------
\* The script is on the page once: fields that mount while it loads or after it
\* loaded do not append another (Google's API must not be loaded twice).
OneScript == tags <= 1 /\ (scriptLoaded => tags = 0)

\* "resolve so callers don't hang": every field that waits for the script is told
\* of its end, whoever started the load, on failure too.
NoFieldHangs == \A f \in Fields : places[f] = "waiting" ~> places[f] # "waiting"

\* The lookup fills fields in and takes nothing away: unit and price stay what the
\* user typed, unless it was typed between the selection and the lookup's answer.
TypedKept == ~raced => unit = typedUnit /\ price = typedPrice
=============================================================================
