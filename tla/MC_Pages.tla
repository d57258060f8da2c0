------------------------------ MODULE MC_Pages ------------------------------
(***************************************************************************)
(* What the pages show of a server that changes under them, one component  *)
(* at a time on screen: a listing's page and its list of pipeline steps,   *)
(* the review queue and the photos of its open row, the help chat, the     *)
(* notification bell, the link import and the address field. Every         *)
(* component keeps its own specification; a behaviour is that of one of    *)
(* them.                                                                   *)
(***************************************************************************)
EXTENDS Naturals, FiniteSets

CONSTANTS None, MAX_CONSECUTIVE_ERRORS, MaxEvents, MaxSilent, MaxInFlight, MaxDrops, ListingStates,
          MaxSteps, MaxRuns, MaxReads, MaxUnread, Listings, MaxPolls, MaxDecisions,
          MaxOutside, MaxLost, Photos, MaxDrags, MaxOpened, MaxQuestions, MaxClears,
          MaxRatings, LIMIT, MaxCreated, MaxRequests, MaxImports, MaxTicks, Fields, Streets,
          Values, MaxTyped, MaxSelected

\* There are finitely many photos, and no arrangement of them is what stands for nothing.
ASSUME PagesAssumption ==
  /\ IsFiniteSet(Photos)
  /\ None \notin [1..Cardinality(Photos) -> Photos]

\* The bounds are numbers, and those of what a page starts with allow for it.
ASSUME BoundsAssumption ==
  /\ {MaxEvents, MaxSilent, MaxDrops, MaxUnread, MaxDecisions, MaxOutside, MaxLost, MaxDrags,
      MaxOpened, MaxQuestions, MaxClears, MaxRatings, MaxImports, MaxTicks, MaxTyped,
      MaxSelected} \subseteq Nat
  /\ {MAX_CONSECUTIVE_ERRORS, MaxInFlight, MaxSteps, MaxRuns, MaxReads, MaxPolls, MaxCreated,
      MaxRequests} \subseteq Nat \ {0}
  /\ IsFiniteSet(Fields)

VARIABLES
  screen,                        \* the component on screen, for ever
  \* held by more than one of them
  state, stream, actionLoading, asked, unread, expandedId, polls, lost, stored, isOpen, shown,
  \* listing
  clock, open_txns, events, errors, cursor, listing, refetchTimer, answers, drops, silent,
  unheard, skipped, failed, outdated,
  \* progress
  progress, listingState, live, steps, loading, run, reads,
  \* review
  listings, rejectingId, decisions, decided, outside,
  \* order
  reviewable, data, dragIdx, loads, reorders, reloads, drags, opened, adrift, unloaded, byKey,
  \* chat
  messages, isStreaming, sessionId, assistantText, questions, cleared, ratings,
  \* bell
  created, is_read, panel, marks,
  \* link
  importing, importError, imports,
  \* address
  script, tags, loadCallbacks, places, query, timer, predictions, street, unit, price,
  details, lookups, lookingUp, selected, typed, typedUnit, typedPrice, raced

Listing == INSTANCE ListingPage
Steps == INSTANCE PipelineProgress
Review == INSTANCE ReviewQueue
Order == INSTANCE PhotoOrder
Chat == INSTANCE HelpChat
Bell == INSTANCE Notifications WITH MaxInFlight <- MaxRequests
Link == INSTANCE LinkImport
Address == INSTANCE AddressSearch

listingVars == <<clock, open_txns, events, errors, cursor, listing, refetchTimer, answers, drops, silent,
                 unheard, skipped, failed, outdated>>
progressVars == <<progress, listingState, live, steps, loading, run, reads>>
reviewVars == <<listings, rejectingId, decisions, decided, outside>>
orderVars == <<reviewable, data, dragIdx, loads, reorders, reloads, drags, opened, adrift, unloaded,
               byKey>>
chatVars == <<messages, isStreaming, sessionId, assistantText, questions, cleared, ratings>>
bellVars == <<created, is_read, panel, marks>>
linkVars == <<importing, importError, imports>>
addressVars == <<script, tags, loadCallbacks, places, query, timer, predictions, street, unit, price,
                 details, lookups, lookingUp, selected, typed, typedUnit, typedPrice,
                 raced>>
vars == <<screen, state, stream, actionLoading, asked, unread, expandedId, polls, lost, stored, isOpen, shown,
          listingVars, progressVars, reviewVars, orderVars, chatVars, bellVars, linkVars, addressVars>>

\* What a component that is not on screen holds: nothing.
NoListing ==
  clock = None /\ open_txns = None /\ events = None /\ errors = None /\ cursor = None /\
  listing = None /\ refetchTimer = None /\ answers = None /\ drops = None /\ silent = None /\
  unheard = None /\ skipped = None /\ failed = None /\ outdated = None
NoSteps ==
  progress = None /\ listingState = None /\ live = None /\ steps = None /\ loading = None /\
  run = None /\ reads = None
NoReview ==
  listings = None /\ rejectingId = None /\ decisions = None /\ decided = None /\
  outside = None
NoOrder ==
  reviewable = None /\ data = None /\ dragIdx = None /\ loads = None /\ reorders = None /\
  reloads = None /\ drags = None /\ opened = None /\ adrift = None /\ unloaded = None /\
  byKey = None
NoChat ==
  messages = None /\ isStreaming = None /\ sessionId = None /\ assistantText = None /\
  questions = None /\ cleared = None /\ ratings = None
NoBell ==
  created = None /\ is_read = None /\ panel = None /\ marks = None
NoLink ==
  importing = None /\ importError = None /\ imports = None
NoAddress ==
  script = None /\ tags = None /\ loadCallbacks = None /\ places = None /\ query = None /\
  timer = None /\ predictions = None /\ street = None /\ unit = None /\ price = None /\
  details = None /\ lookups = None /\ lookingUp = None /\ selected = None /\ typed = None /\
  typedUnit = None /\ typedPrice = None /\ raced = None

-----------------------------------------------------------------------------
ListingInit ==
  /\ screen = "listing" /\ Listing!Init
  /\ NoSteps /\ NoReview /\ NoOrder /\ NoChat /\ NoBell /\ NoLink /\ NoAddress
  /\ asked = None /\ unread = None /\ expandedId = None /\ polls = None /\ lost = None /\
     stored = None /\ isOpen = None /\ shown = None
ListingOnly(A) ==
  /\ screen = "listing" /\ A
  /\ UNCHANGED <<screen, progressVars, reviewVars, orderVars, chatVars, bellVars, linkVars, addressVars, asked,
                 unread, expandedId, polls, lost, stored, isOpen, shown>>

StepsInit ==
  /\ screen = "progress" /\ Steps!Init
  /\ NoListing /\ NoReview /\ NoOrder /\ NoChat /\ NoBell /\ NoLink /\ NoAddress
  /\ state = None /\ stream = None /\ actionLoading = None /\ expandedId = None /\
     polls = None /\ lost = None /\ stored = None /\ isOpen = None /\ shown = None
StepsOnly(A) ==
  /\ screen = "progress" /\ A
  /\ UNCHANGED <<screen, listingVars, reviewVars, orderVars, chatVars, bellVars, linkVars, addressVars, state,
                 stream, actionLoading, expandedId, polls, lost, stored, isOpen, shown>>

ReviewInit ==
  /\ screen = "review" /\ Review!Init
  /\ NoListing /\ NoSteps /\ NoOrder /\ NoChat /\ NoBell /\ NoLink /\ NoAddress
  /\ stream = None /\ asked = None /\ unread = None /\ stored = None /\ isOpen = None /\
     shown = None
ReviewOnly(A) ==
  /\ screen = "review" /\ A
  /\ UNCHANGED <<screen, listingVars, progressVars, orderVars, chatVars, bellVars, linkVars, addressVars, stream,
                 asked, unread, stored, isOpen, shown>>

OrderInit ==
  /\ screen = "order" /\ Order!Init
  /\ NoListing /\ NoSteps /\ NoReview /\ NoChat /\ NoBell /\ NoLink /\ NoAddress
  /\ state = None /\ stream = None /\ actionLoading = None /\ asked = None /\ unread = None /\
     polls = None /\ lost = None /\ isOpen = None /\ shown = None
OrderOnly(A) ==
  /\ screen = "order" /\ A
  /\ UNCHANGED <<screen, listingVars, progressVars, reviewVars, chatVars, bellVars, linkVars, addressVars, state,
                 stream, actionLoading, asked, unread, polls, lost, isOpen, shown>>

ChatInit ==
  /\ screen = "chat" /\ Chat!Init
  /\ NoListing /\ NoSteps /\ NoReview /\ NoOrder /\ NoBell /\ NoLink /\ NoAddress
  /\ state = None /\ actionLoading = None /\ unread = None /\ expandedId = None /\
     polls = None /\ lost = None /\ shown = None
ChatOnly(A) ==
  /\ screen = "chat" /\ A
  /\ UNCHANGED <<screen, listingVars, progressVars, reviewVars, orderVars, bellVars, linkVars, addressVars, state,
                 actionLoading, unread, expandedId, polls, lost, shown>>

BellInit ==
  /\ screen = "bell" /\ Bell!Init
  /\ NoListing /\ NoSteps /\ NoReview /\ NoOrder /\ NoChat /\ NoLink /\ NoAddress
  /\ state = None /\ stream = None /\ actionLoading = None /\ asked = None /\
     expandedId = None /\ stored = None /\ isOpen = None
BellOnly(A) ==
  /\ screen = "bell" /\ A
  /\ UNCHANGED <<screen, listingVars, progressVars, reviewVars, orderVars, chatVars, linkVars, addressVars, state,
                 stream, actionLoading, asked, expandedId, stored, isOpen>>

LinkInit ==
  /\ screen = "link" /\ Link!Init
  /\ NoListing /\ NoSteps /\ NoReview /\ NoOrder /\ NoChat /\ NoBell /\ NoAddress
  /\ state = None /\ stream = None /\ actionLoading = None /\ asked = None /\ unread = None /\
     expandedId = None /\ polls = None /\ lost = None /\ stored = None /\ isOpen = None
LinkOnly(A) ==
  /\ screen = "link" /\ A
  /\ UNCHANGED <<screen, listingVars, progressVars, reviewVars, orderVars, chatVars, bellVars, addressVars, state,
                 stream, actionLoading, asked, unread, expandedId, polls, lost, stored,
                 isOpen>>

AddressInit ==
  /\ screen = "address" /\ Address!Init
  /\ NoListing /\ NoSteps /\ NoReview /\ NoOrder /\ NoChat /\ NoBell /\ NoLink
  /\ state = None /\ stream = None /\ actionLoading = None /\ unread = None /\
     expandedId = None /\ polls = None /\ lost = None /\ stored = None /\ shown = None
AddressOnly(A) ==
  /\ screen = "address" /\ A
  /\ UNCHANGED <<screen, listingVars, progressVars, reviewVars, orderVars, chatVars, bellVars, linkVars, state,
                 stream, actionLoading, unread, expandedId, polls, lost, stored, shown>>

Init == ListingInit \/ StepsInit \/ ReviewInit \/ OrderInit \/ ChatInit \/ BellInit \/ LinkInit \/ AddressInit

Next ==
  \/ ListingOnly(Listing!Next)
  \/ StepsOnly(Steps!Next)
  \/ ReviewOnly(Review!Next)
  \/ OrderOnly(Order!Next)
  \/ ChatOnly(Chat!Next)
  \/ BellOnly(Bell!Next)
  \/ LinkOnly(Link!Next)
  \/ AddressOnly(Address!Next)

-----------------------------------------------------------------------------
\* The fairness of the components.  Only one of them is on screen, so conditions of
\* different components make one: a component's action is fair on its own screen.

Import(i) == {m \in imports : m.id = i}

Fair1 == \/ ListingOnly(\E t \in open_txns : Listing!EventCommitted(t))
         \/ StepsOnly(\E r \in reads : Steps!Read(r))
         \/ ReviewOnly(Review!fetchQueue)
         \/ OrderOnly(Order!LoadAnswered)
         \/ BellOnly(Bell!Poll(1))
         \/ LinkOnly(\E m \in Import(1) : Link!Accepted(m) \/ Link!Refused(m))
         \/ AddressOnly(Address!Loaded)
Fair2 == \/ ListingOnly(Listing!onopen)
         \/ StepsOnly(\E r \in reads : Steps!Answered(r))
         \/ ReviewOnly(Review!getReviewQueue(1))
         \/ BellOnly(Bell!Answer(1))
         \/ LinkOnly(\E m \in Import(1) : Link!Tick(m))
Fair3 == \/ ListingOnly(Listing!record)
         \/ ReviewOnly(Review!QueueShown(1))
         \/ BellOnly(Bell!Poll(2))
         \/ LinkOnly(\E m \in Import(1) : Link!JobEnds(m) \/ Link!JobAbandoned(m))
Fair4 == \/ ListingOnly(Listing!OldestAnswered)
         \/ BellOnly(Bell!Answer(2))
StronglyFair1 == \/ ListingOnly(Listing!RefetchFires)
                 \/ ChatOnly(Chat!StreamStep)
                 \/ LinkOnly(\E m \in Import(1) : Link!Answer(m))
StronglyFair2 == ListingOnly(Listing!Poll)

Fairness ==
  /\ WF_vars(Fair1) /\ WF_vars(Fair2) /\ WF_vars(Fair3) /\ WF_vars(Fair4)
  /\ SF_vars(StronglyFair1) /\ SF_vars(StronglyFair2)

Spec == Init /\ [][Next]_vars /\ Fairness

-----------------------------------------------------------------------------
\* Each joins properties of the components, whose comments say what each means for the
\* code.

\* The types of the component on screen.
TypeOK ==
  /\ screen = "listing" => Listing!TypeOK
  /\ screen = "progress" => Steps!TypeOK
  /\ screen = "review" => Review!TypeOK
  /\ screen = "order" => Order!TypeOK
  /\ screen = "chat" => Chat!TypeOK
  /\ screen = "bell" => Bell!TypeOK
  /\ screen = "link" => Link!TypeOK
  /\ screen = "address" => Address!TypeOK

\* What a page shows of the server's state catches up with it, though every request
\* may be late, out of order or lost: the state of the listing, the queue of
\* listings under review, and the newest notifications.
CatchesUp ==
  []<>(/\ screen = "listing" => Listing!CaughtUp
       /\ screen = "review" => Review!QueueIsCurrent
       /\ screen = "bell" => \A n \in 1..MaxCreated : ~Bell!Missing(n))

\* No spinner turns for ever: the list of steps is loaded, a row opened with the
\* mouse shows its photos or an error, the chat's field is given back, the interval
\* of an import is cleared unless the server abandoned the import, and an address field is
\* told of the script's end.
SettlesDown ==
  []<>(/\ screen = "progress" => ~loading
       /\ screen = "order" => ~Order!Spinning \/ unloaded \/ byKey
       /\ screen = "chat" => ~isStreaming
       /\ screen = "link" => ~Link!Polling(1) \/ Link!Abandoned(1)
       /\ screen = "address" => \A f \in Fields : places[f] # "waiting")

\* While the stream is up the list of steps never goes back.
StepsGoForward == [][screen = "progress" /\ live => steps' >= steps]_vars

\* Once every request has ended the order of the photos shown is the one stored.
OrderShown == screen = "order" => Order!OrderShown

\* The chat shows every question asked since it was cleared, in order, and each answer
\* under its question.
ChatInOrder == screen = "chat" => Chat!QuestionsKept /\ Chat!AnswersFollow

\* A field or button is neither lost nor doubled: a disabled Import button has an import
\* of this form under way, the script of Google Maps is on the page at most once, and a
\* lookup takes away nothing the user typed before it was made.
FieldsUsable ==
  /\ screen = "link" => Link!NoFrozenImport
  /\ screen = "address" => Address!OneScript /\ Address!TypedKept
=============================================================================
