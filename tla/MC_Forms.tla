------------------------------ MODULE MC_Forms ------------------------------
(***************************************************************************)
(* The forms a user fills in, one component at a time on screen: the       *)
(* upload form of a listing's page, the wizard, what the wizard sells, the *)
(* team page, the share panel, the list of listings, support tickets, the  *)
(* demo, the administrator's tabs on tenants and credits, the brand kit,   *)
(* the social accounts, the social posts, the audit log and the dashboard. *)
(* Every component keeps its own specification; a behaviour is that of one *)
(* of them.                                                                *)
(***************************************************************************)
EXTENDS Naturals, FiniteSets, TLC

CONSTANTS None, Accepted, MAX_FILES, MaxBatches, Photos, MaxListings, MaxUploads, MaxFiles,
          MaxConfirms, StagedPhotos, BaseCosts, StartBalances, People, MaxChanges, MaxLost,
          Invitees, Levels, MaxShares, MaxOpened, OwnListings, MaxShared, Tickets,
          MaxMessages, MaxSelected, MaxAgent, DemoFiles, MIN_FILES, Tenants, Plans,
          MaxAdjusted, MaxSaved, MaxChanged, Kinds, MaxTyped, MaxPictures, MaxSaves,
          Platforms, Names, MaxWorks, Events, MaxTicks, MaxMounts, Actions, PAGE,
          MaxEntries, MaxPages, MaxCards, RECENT, READ, SHOWN

\* A number is not what stands for nothing, and the bounds are numbers.
ASSUME FormsAssumption ==
  /\ {MAX_FILES, MaxListings, MaxFiles} \subseteq Nat
  /\ None \notin 1..MaxListings

VARIABLES
  screen,      \* the component on screen, for ever
  \* its variables, in the order of the substitutions below; the rest is None
  v1, v2, v3, v4, v5, v6, v7, v8, v9, v10, v11, v12, v13, v14, v15, v16, v17, v18, v19, v20

vars == <<screen, v1, v2, v3, v4, v5, v6, v7, v8, v9, v10, v11, v12, v13, v14, v15, v16, v17,
           v18, v19, v20>>

Upload == INSTANCE PhotoUpload WITH
  shown <- v1, files <- v2, uploading <- v3, batches <- v4, stored <- v5, registered <- v6
Wiz == INSTANCE Wizard WITH
  shown <- v1, form <- v2, step <- v3, submitting <- v4, creating <- v5, creditBlock <- v6,
  resumed <- v7, leaving <- v8, draft <- v9, uploads <- v10, imports <- v11,
  confirms <- v12, orphans <- v13, made <- v14, assets <- v15, started <- v16,
  strayed <- v17, hasty <- v18
Addons == INSTANCE WizardAddons WITH
  step <- v1, stagingAssetIds <- v2, selectedAddons <- v3, useBundle <- v4,
  creditBalance <- v5, offer <- v6, balance <- v7, perListing <- v8, charged <- v9,
  shownTo <- v10, Photos <- StagedPhotos, Balances <- StartBalances
Team == INSTANCE TeamPage WITH
  team <- v1, access <- v2, members <- v3, blanketGrants <- v4, loading <- v5, error <- v6,
  inviting <- v7, removeTarget <- v8, removing <- v9, changes <- v10, fetches <- v11,
  changed <- v12, lost <- v13, adrift <- v14
Share == INSTANCE SharePanel WITH
  granted <- v1, isOpen <- v2, permissions <- v3, loading <- v4, sharing <- v5, loads <- v6,
  requests <- v7, shares <- v8, changes <- v9, opened <- v10, lost <- v11, adrift <- v12,
  People <- Invitees
Index == INSTANCE ListingsIndex WITH
  mine <- v1, shared <- v2, listings <- v3, loading <- v4, error <- v5, showBrandBanner <- v6,
  confirming <- v7, deleting <- v8, activeTab <- v9, sharedListings <- v10,
  sharedLoading <- v11, asking <- v12, loads <- v13, answer <- v14, opened <- v15,
  openedAt <- v16, lost <- v17, adrift <- v18, Listings <- OwnListings
Support == INSTANCE SupportTickets WITH
  status <- v1, thread <- v2, selectedId <- v3, detail <- v4, detailLoading <- v5,
  views <- v6, showCreate <- v7, creating <- v8, created <- v9, sending <- v10,
  posting <- v11, agentSelected <- v12, agentDetail <- v13, agentViews <- v14,
  selects <- v15, written <- v16, acts <- v17, lost <- v18, unanswered <- v19, adrift <- v20
Demo == INSTANCE DemoListing WITH
  files <- v1, uploading <- v2, batch <- v3, signedIn <- v4, stored <- v5, demo <- v6,
  cleaner <- v7, claims <- v8, page <- v9, account <- v10, lost <- v11, raced <- v12,
  Files <- DemoFiles, Visitors <- People
Admin == INSTANCE AdminTenants WITH
  plan <- v1, balance <- v2, tab <- v3, tenants <- v4, selected <- v5, tenantCredits <- v6,
  adjustLoading <- v7, editPlan <- v8, reads <- v9, calls <- v10, asked <- v11,
  selects <- v12, adjusts <- v13, saves <- v14, changed <- v15, lost <- v16, touched <- v17,
  fresh <- v18, adrift <- v19, spoiled <- v20
Brand == INSTANCE BrandKit WITH
  kit <- v1, loading <- v2, form <- v3, extras <- v4, preview <- v5, uploading <- v6,
  uploads <- v7, saving <- v8, saved <- v9, body <- v10, timers <- v11, typed <- v12,
  sent <- v13, saves <- v14, lost <- v15, original <- v16, touched <- v17, unread <- v18,
  dirty <- v19, MaxUploads <- MaxPictures
Accounts == INSTANCE SocialAccounts WITH
  stored <- v1, nextId <- v2, accounts <- v3, inputs <- v4, saving <- v5, removing <- v6,
  works <- v7, started <- v8, typed <- v9, lost <- v10, savedAs <- v11, adrift <- v12
Social == INSTANCE SocialPosts WITH
  events <- v1, posted <- v2, loading <- v3, shown <- v4, activeEvent <- v5, marked <- v6,
  calls <- v7, mounts <- v8, sent <- v9, lost <- v10, ticked <- v11, lossy <- v12
Audit == INSTANCE AuditTab WITH
  log <- v1, actionFilter <- v2, logs <- v3, loading <- v4, reads <- v5, asked <- v6,
  lost <- v7, known <- v8, adrift <- v9, MaxAsked <- MaxPages
Dash == INSTANCE Dashboard WITH
  state <- v1, listings <- v2, pipelineData <- v3, extras <- v4, loading <- v5, pc <- v6,
  listingsRes <- v7, others <- v8, active <- v9, pipeResults <- v10, confirming <- v11,
  deleting <- v12, answer <- v13, changed <- v14, MaxListings <- MaxCards

-----------------------------------------------------------------------------
UploadInit ==
  /\ screen = "upload" /\ Upload!Init
  /\ v7 = None /\ v8 = None /\ v9 = None /\ v10 = None /\ v11 = None /\ v12 = None /\
     v13 = None /\ v14 = None /\ v15 = None /\ v16 = None /\ v17 = None /\ v18 = None /\
     v19 = None /\ v20 = None
UploadNext ==
  /\ screen = "upload" /\ Upload!Next
  /\ UNCHANGED <<screen, v7, v8, v9, v10, v11, v12, v13, v14, v15, v16, v17, v18, v19, v20>>

WizInit ==
  /\ screen = "wizard" /\ Wiz!Init
  /\ v19 = None /\ v20 = None
WizNext ==
  /\ screen = "wizard" /\ Wiz!Next
  /\ UNCHANGED <<screen, v19, v20>>

AddonsInit ==
  /\ screen = "addons" /\ Addons!Init
  /\ v11 = None /\ v12 = None /\ v13 = None /\ v14 = None /\ v15 = None /\ v16 = None /\
     v17 = None /\ v18 = None /\ v19 = None /\ v20 = None
AddonsNext ==
  /\ screen = "addons" /\ Addons!Next
  /\ UNCHANGED <<screen, v11, v12, v13, v14, v15, v16, v17, v18, v19, v20>>

TeamInit ==
  /\ screen = "team" /\ Team!Init
  /\ v15 = None /\ v16 = None /\ v17 = None /\ v18 = None /\ v19 = None /\ v20 = None
TeamNext ==
  /\ screen = "team" /\ Team!Next
  /\ UNCHANGED <<screen, v15, v16, v17, v18, v19, v20>>

ShareInit ==
  /\ screen = "share" /\ Share!Init
  /\ v13 = None /\ v14 = None /\ v15 = None /\ v16 = None /\ v17 = None /\ v18 = None /\
     v19 = None /\ v20 = None
ShareNext ==
  /\ screen = "share" /\ Share!Next
  /\ UNCHANGED <<screen, v13, v14, v15, v16, v17, v18, v19, v20>>

IndexInit ==
  /\ screen = "index" /\ Index!Init
  /\ v19 = None /\ v20 = None
IndexNext ==
  /\ screen = "index" /\ Index!Next
  /\ UNCHANGED <<screen, v19, v20>>

SupportInit ==
  /\ screen = "support" /\ Support!Init
SupportNext ==
  /\ screen = "support" /\ Support!Next
  /\ UNCHANGED <<screen>>

DemoInit ==
  /\ screen = "demo" /\ Demo!Init
  /\ v13 = None /\ v14 = None /\ v15 = None /\ v16 = None /\ v17 = None /\ v18 = None /\
     v19 = None /\ v20 = None
DemoNext ==
  /\ screen = "demo" /\ Demo!Next
  /\ UNCHANGED <<screen, v13, v14, v15, v16, v17, v18, v19, v20>>

AdminInit ==
  /\ screen = "tenants" /\ Admin!Init
AdminNext ==
  /\ screen = "tenants" /\ Admin!Next
  /\ UNCHANGED <<screen>>

BrandInit ==
  /\ screen = "brand" /\ Brand!Init
  /\ v20 = None
BrandNext ==
  /\ screen = "brand" /\ Brand!Next
  /\ UNCHANGED <<screen, v20>>

AccountsInit ==
  /\ screen = "accounts" /\ Accounts!Init
  /\ v13 = None /\ v14 = None /\ v15 = None /\ v16 = None /\ v17 = None /\ v18 = None /\
     v19 = None /\ v20 = None
AccountsNext ==
  /\ screen = "accounts" /\ Accounts!Next
  /\ UNCHANGED <<screen, v13, v14, v15, v16, v17, v18, v19, v20>>

SocialInit ==
  /\ screen = "social" /\ Social!Init
  /\ v13 = None /\ v14 = None /\ v15 = None /\ v16 = None /\ v17 = None /\ v18 = None /\
     v19 = None /\ v20 = None
SocialNext ==
  /\ screen = "social" /\ Social!Next
  /\ UNCHANGED <<screen, v13, v14, v15, v16, v17, v18, v19, v20>>

AuditInit ==
  /\ screen = "audit" /\ Audit!Init
  /\ v10 = None /\ v11 = None /\ v12 = None /\ v13 = None /\ v14 = None /\ v15 = None /\
     v16 = None /\ v17 = None /\ v18 = None /\ v19 = None /\ v20 = None
AuditNext ==
  /\ screen = "audit" /\ Audit!Next
  /\ UNCHANGED <<screen, v10, v11, v12, v13, v14, v15, v16, v17, v18, v19, v20>>

DashInit ==
  /\ screen = "dashboard" /\ Dash!Init
  /\ v15 = None /\ v16 = None /\ v17 = None /\ v18 = None /\ v19 = None /\ v20 = None
DashNext ==
  /\ screen = "dashboard" /\ Dash!Next
  /\ UNCHANGED <<screen, v15, v16, v17, v18, v19, v20>>

Init == UploadInit \/ WizInit \/ AddonsInit \/ TeamInit \/ ShareInit \/ IndexInit \/ SupportInit \/ DemoInit \/
        AdminInit \/ BrandInit \/ AccountsInit \/ SocialInit \/ AuditInit \/ DashInit

Next ==
  \/ UploadNext
  \/ WizNext
  \/ AddonsNext
  \/ TeamNext
  \/ ShareNext
  \/ IndexNext
  \/ SupportNext
  \/ DemoNext
  \/ AdminNext
  \/ BrandNext
  \/ AccountsNext
  \/ SocialNext
  \/ AuditNext
  \/ DashNext

Spec == Init /\ [][Next]_vars

-----------------------------------------------------------------------------
\* Nothing tells two tenants apart, or two plans; x and y, a and b stand for more than them.
Interchangeable == Permutations(Tenants) \cup Permutations(Plans)

\* What stands for nothing is not a draft nor a brand kit either.
ASSUME KeptAssumption ==
  /\ {MaxTyped, MaxPictures} \subseteq Nat
  /\ None \notin [form : Wiz!Forms, step : 1..5]
  /\ None \notin [Brand!FormKeys \cup {"extras"} -> Nat]

\* nor a demo, an account of a platform, or what a ticket or an answer says.
ASSUME ToldAssumption ==
  /\ None \notin Demo!Demos
  /\ None \notin [id : Nat, name : Names]
  /\ None \notin Support!Statuses \cup {"ok", "error"}

\* The rows drawn on the dashboard are among those whose pipelines are read; nothing stands
\* for a number, a state, a tenant or a request under way.
ASSUME ShownAssumption ==
  /\ {MaxCards, READ, SHOWN, MaxEntries, PAGE} \subseteq Nat /\ SHOWN <= READ
  /\ None \notin Nat \cup Dash!activeStates \cup Tenants \cup {"pending"}
  /\ "extras" \notin Kinds

\* The bounds of the runs are numbers, as prices and balances are; the page of posts is mounted
\* and the log is asked for at least once, and there is a platform to have an account on.
ASSUME BoundsAssumption ==
  /\ {MaxLost, MaxChanges, MaxShares, MaxOpened, MaxShared, MaxMessages, MaxSelected, MaxAgent,
      MaxAdjusted, MaxSaved, MaxChanged, MaxSaves, MaxWorks, MaxTicks, MaxTyped, MaxPictures}
       \subseteq Nat
  /\ {MaxMounts, MaxPages} \subseteq Nat \ {0}
  /\ BaseCosts \cup StartBalances \subseteq Nat
  /\ IsFiniteSet(Platforms) /\ Platforms # {} /\ IsFiniteSet(Events)

-----------------------------------------------------------------------------
\* How far the wizard is explored.
Followed == screen = "wizard" => Wiz!Followed

\* Each joins properties of the components, whose comments say what each means for the
\* code.

\* The types of the component on screen.
TypeOK ==
  /\ screen = "upload" => Upload!TypeOK
  /\ screen = "wizard" => Wiz!TypeOK
  /\ screen = "addons" => Addons!TypeOK
  /\ screen = "team" => Team!TypeOK
  /\ screen = "share" => Share!TypeOK
  /\ screen = "index" => Index!TypeOK
  /\ screen = "support" => Support!TypeOK
  /\ screen = "demo" => Demo!TypeOK
  /\ screen = "tenants" => Admin!TypeOK
  /\ screen = "brand" => Brand!TypeOK
  /\ screen = "accounts" => Accounts!TypeOK
  /\ screen = "social" => Social!TypeOK
  /\ screen = "audit" => Audit!TypeOK
  /\ screen = "dashboard" => Dash!TypeOK

\* Progress, previews and what is registered belong to the right photo, though rows and
\* files are matched by their number while photos are added and requests interleave.
PhotosFollowRows ==
  /\ screen = "upload" => Upload!RowsFollowBatch /\ Upload!RegisteredIsStored
  /\ screen = "demo" => Demo!DoneIsStored

\* The server never has to refuse a confirmation for its photos, except after a double
\* click on Next of the first step.
ConfirmedPhotos == screen = "wizard" => Wiz!ConfirmedPhotos

\* What a click sends is what the user saw: the total on the button is what is charged,
\* a reply goes to the thread that was read, a post is ticked for the event chosen.
ActsOnShown ==
  /\ screen = "addons" => Addons!ChargedAsShown
  /\ screen = "support" => Support!ReplyGoesToShown /\ Support!ThreadOfSelected
  /\ screen = "social" => Social!RecordedWasTicked

\* What the user did not touch is kept: the draft of the wizard, the plan of a tenant
\* whose form is saved, the rest of a brand kit.
UntouchedIsKept ==
  /\ screen = "wizard" => Wiz!DraftKept
  /\ screen = "tenants" => Admin!PlanKept
  /\ screen = "brand" => Brand!KitKept

\* What a page told its user was done stays done at the server: a demo claimed, a social
\* account saved, a post ticked, a ticket replied to.
ToldIsTrue ==
  /\ screen = "demo" => Demo!ClaimedIsKept
  /\ screen = "accounts" => Accounts!SavedIsStored
  /\ screen = "social" => Social!TickIsRecorded
  /\ screen = "support" => Support!WaitsOnOpen

\* Once all is answered a page shows what the server has: roles and access, a listing's
\* permissions, the listings, a tenant's balance, the brand kit saved, the accounts, each
\* listing's own bars; and a log has no gaps.
ShownIsStored ==
  /\ screen = "team" => Team!TeamShown
  /\ screen = "share" => Share!AccessShown
  /\ screen = "index" => Index!SharedIsFresh /\ Index!CardsAreListings
  /\ screen = "tenants" => Admin!BalanceShown
  /\ screen = "brand" => Brand!SavedIsShown
  /\ screen = "accounts" => Accounts!AccountsShown
  /\ screen = "audit" => Audit!AuditHasNoGaps
  /\ screen = "dashboard" => Dash!BarsOfOwnListing

\* A spinner turns, and a button is disabled, only for a request under way.
NeverFrozen ==
  /\ screen = "upload" => Upload!SpinsForOwnBatch
  /\ screen = "wizard" => Wiz!NoFrozenConfirm
  /\ screen = "team" => Team!LoadingIsFetching

\* The dashboard's dialog on a deletion ends with it; the code breaks this one.
DialogEnds == screen = "dashboard" => Dash!DialogEnds
=============================================================================
