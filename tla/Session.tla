------------------------------ MODULE Session ------------------------------
(***************************************************************************)
(* The browser's session: AuthProvider, the token the API client sends,    *)
(* ProtectedRoute, and the four forms that sign somebody in.  A token is   *)
(* the account it was issued to.  Requests are answered in any order, a    *)
(* page reload may come between any two steps (localStorage survives it,   *)
(* everything else is lost), and the server may refuse any request.        *)
(***************************************************************************)
EXTENDS Naturals, FiniteSets

CONSTANTS Accounts,     \* the accounts this browser may sign in to
          None,         \* no account, no token, no navigation
          MaxSignIns,   \* bound: sign-in requests in flight
          MaxLogouts    \* bound: logout requests in flight

ASSUME NoneAssumption ==
  None \notin Accounts \cup [step : {"me", "refresh", "retried"}, as : Accounts \cup {None}]
ASSUME BoundsAssumption == MaxSignIns \in Nat /\ MaxLogouts \in Nat

VARIABLES
  user,        \* AuthContext.user
  loading,     \* AuthContext.loading
  bearer,      \* the token ApiClient puts in the Authorization header
  stored,      \* localStorage: the access and the refresh token
  boot,        \* the mount effect that restores a session
  signIns,     \* login, loginWithGoogle, register and acceptInvite under way
  exchange,    \* refreshingRef: POST /auth/refresh under way
  logouts,     \* POST /auth/logout in flight
  route, push, \* the page shown and the navigation under way
  busy,        \* the forms of this page whose submit button is disabled
  invite,      \* InviteStatus of the accept page
  calm,        \* history: no two operations overlapped, no profile was refused
  overtaken    \* history: the last navigation asked for on a blank page leads to another

sessionVars == <<user, loading, bearer, stored, boot, exchange>>
navigation == <<push, overtaken>>
pageVars == <<route, busy, invite>>
vars == <<sessionVars, signIns, logouts, pageVars, navigation, calm>>

MaybeAccount == Accounts \cup {None}

Ways == {"login", "google", "register", "accept"}
Routes == {"login", "register", "accept", "app", "landing"}

\* PUBLIC_PATHS (of the pages modelled): the others are under ProtectedRoute.
PublicPaths == {"login", "register", "landing"}

\* InviteStatus; "missing", "invalid", "expired" and "error" all show InviteError.
InviteStatus == {"loading", "ready", "refused"}

\* A profile is asked with the token of that moment (as), or waits for an exchange.
Boots == {None} \cup [step : {"me", "refresh", "retried"}, as : MaybeAccount]
SignIns == [way : Ways, account : Accounts,
            step : {"tokens", "me", "claim"}, here : BOOLEAN]

TypeOK ==
  /\ user \in MaybeAccount /\ loading \in BOOLEAN /\ bearer \in MaybeAccount
  /\ stored \in [access : MaybeAccount, refresh : MaybeAccount]
  /\ boot \in Boots /\ exchange \in MaybeAccount
  /\ signIns \subseteq SignIns /\ logouts \in 0..MaxLogouts
  /\ route \in Routes /\ push \in Routes \cup {None}
  /\ busy \subseteq Ways /\ invite \in InviteStatus
  /\ {calm, overtaken} \subseteq BOOLEAN

\* Nothing is under way; an operation started in another's course ends the calm.
Quiet == boot = None /\ exchange = None /\ signIns = {} /\ logouts = 0
Begins == calm' = (calm /\ Quiet)

-----------------------------------------------------------------------------
\* What is on screen.

\* A page outside PUBLIC_PATHS is drawn for a signed-in user only: a spinner while
\* the session is being restored, and nothing while the redirect is under way.
PageShown == route \in PublicPaths \/ (~loading /\ user # None)
Blank == route \notin PublicPaths /\ ~loading /\ user = None

\* A variant: user is not among the dependencies.
OncePerLoading(pending) ==
  IF Blank' /\ (route \in PublicPaths \/ loading' # loading)
  THEN push' = "login" /\ overtaken' = FALSE
  ELSE push' = pending /\ UNCHANGED overtaken

\* The effect of ProtectedRoute runs when it is mounted, which between two of its pages
\* it is not, and when user or loading has changed.  It does not run again when another
\* navigation overtakes the one it asked for.
ProtectedRoute(pending) ==
  IF Blank' /\ (route \in PublicPaths \/ user' # user \/ loading' # loading)
  THEN push' = "login" /\ overtaken' = FALSE
  ELSE push' = pending /\ UNCHANGED overtaken

\* The router does what it was told last.
Goes(p) == push' = p /\ overtaken' = (Blank /\ p \notin PublicPaths)

LoginForm == route = "login" /\ "login" \notin busy
GoogleButton == route = "login" /\ "google" \notin busy
RegisterForm == route = "register" /\ "register" \notin busy
AcceptForm == route = "accept" /\ PageShown /\ invite = "ready" /\ "accept" \notin busy

Offered(w) ==
  \/ w = "login" /\ LoginForm
  \/ w = "google" /\ GoogleButton
  \/ w = "register" /\ RegisterForm
  \/ w = "accept" /\ AcceptForm

\* The navigation bar and the command palette, which opens over any page.
SignOutOffered == user # None

-----------------------------------------------------------------------------
\* The provider is mounted on page p: a session is restored from what is stored.
Mounted(p, kept) ==
  /\ user' = None /\ bearer' = kept.access /\ exchange' = None
  /\ LET empty == kept.access = None /\ kept.refresh = None
     IN  /\ loading' = ~empty
         /\ boot' = IF empty THEN None ELSE [step |-> "me", as |-> kept.access]
         /\ push' = IF empty /\ p \notin PublicPaths THEN "login" ELSE None
  /\ stored' = kept /\ signIns' = {} /\ logouts' = 0
  /\ route' = p /\ busy' = {} /\ invite' = "loading" /\ overtaken' = FALSE
  /\ UNCHANGED calm

Empty == [access |-> None, refresh |-> None]

Init ==
  /\ user = None /\ bearer = None /\ exchange = None /\ stored = Empty
  /\ loading = FALSE /\ boot = None /\ signIns = {} /\ logouts = 0
  /\ route \in Routes /\ push = IF route \in PublicPaths THEN None ELSE "login"
  /\ busy = {} /\ invite = "loading" /\ calm = TRUE /\ overtaken = FALSE

\* A link of a mail, the address bar or the reload button.
Reload == \E p \in Routes : Mounted(p, stored)

\* A variant: the token stays in the client.
StoreCleared ==
  /\ stored' = Empty /\ user' = None /\ UNCHANGED bearer

\* A variant: the account stays on screen.
TokensCleared ==
  /\ stored' = Empty /\ bearer' = None /\ UNCHANGED user

clearSession ==
  /\ stored' = Empty /\ bearer' = None /\ user' = None

BootMe ==
  /\ boot # None /\ boot.step \in {"me", "retried"} /\ boot.as # None
  /\ user' = boot.as /\ boot' = None /\ loading' = FALSE
  /\ UNCHANGED <<bearer, stored, exchange, signIns, logouts, pageVars, navigation, calm>>

\* The profile is refused with a 401: the refresh token buys a new access token,
\* in the exchange under way if there is one.
BootRefused ==
  /\ boot # None /\ boot.step = "me" /\ stored.refresh # None
  /\ boot' = [step |-> "refresh", as |-> None]
  /\ exchange' = IF exchange = None THEN stored.refresh ELSE exchange
  /\ UNCHANGED <<user, loading, bearer, stored, signIns, logouts, pageVars, navigation, calm>>

\* A variant: the early return forgets the spinner.
BootEndsLoading == boot' = None /\ UNCHANGED loading /\ clearSession

BootEnds == boot' = None /\ loading' = FALSE /\ clearSession

\* The server failed, the second profile was refused, or there is nothing to refresh.
BootFailed ==
  /\ boot # None /\ boot.step \in {"me", "retried"}
  /\ BootEnds
  /\ UNCHANGED <<exchange, signIns, logouts, pageVars, calm>> /\ ProtectedRoute(push)

\* The interval, and the tab becoming visible again; a second one joins the first.
KeepFresh ==
  /\ user # None /\ exchange = None /\ stored.refresh # None
  /\ exchange' = stored.refresh /\ Begins
  /\ UNCHANGED <<user, loading, bearer, stored, boot, signIns, logouts, pageVars, navigation>>

\* A new access token; the refresh token that comes with it is not kept.
tryRefresh ==
  /\ exchange # None
  /\ exchange' = None /\ bearer' = exchange /\ stored' = [stored EXCEPT !.access = exchange]
  /\ boot' = IF boot # None /\ boot.step = "refresh"
              THEN [step |-> "retried", as |-> exchange] ELSE boot
  /\ UNCHANGED <<user, loading, signIns, logouts, pageVars, navigation, calm>>

\* Null: only the restoring of a session does anything about it.
RefreshFailed ==
  /\ exchange # None /\ exchange' = None
  /\ IF boot # None /\ boot.step = "refresh"
     THEN BootEnds
     ELSE UNCHANGED <<user, loading, bearer, stored, boot>>
  /\ UNCHANGED <<signIns, logouts, pageVars, calm>> /\ ProtectedRoute(push)

-----------------------------------------------------------------------------
\* handleSubmit and handleGoogleResponse of the three pages.
Submit(w, a) ==
  /\ Offered(w) /\ Cardinality(signIns) < MaxSignIns
  /\ signIns' = signIns \cup {[way |-> w, account |-> a, step |-> "tokens", here |-> TRUE]}
  /\ busy' = busy \cup {w} /\ Begins
  /\ UNCHANGED <<sessionVars, logouts, route, navigation, invite>>

Move(s, step) == (signIns \ {s}) \cup {[s EXCEPT !.step = step]}

\* A variant: the refresh token is not kept.
StoreOneToken(a) == bearer' = a /\ stored' = [access |-> a]

storeTokens(a) == bearer' = a /\ stored' = [access |-> a, refresh |-> a]

\* login, loginWithGoogle, register and acceptInvite: the tokens, then the profile.
TokensIssued(s) ==
  /\ s.step = "tokens" /\ storeTokens(s.account) /\ signIns' = Move(s, "me")
  /\ UNCHANGED <<user, loading, boot, exchange, logouts, pageVars, navigation, calm>>

\* A variant: without the finally.
FinishBusy(s) == signIns' = signIns \ {s} /\ UNCHANGED busy

\* The form's button is enabled again; a form of a page that was left is gone.
Finish(s) ==
  /\ signIns' = signIns \ {s}
  /\ busy' = IF s.here THEN busy \ {s.way} ELSE busy

\* /dashboard, /onboarding, or the listing that was claimed: router.push is called
\* even when the visitor has left the page.
SignedIn(s) ==
  /\ s.step = "me" /\ user' = s.account
  /\ Finish(s) /\ Goes("app")
  /\ UNCHANGED <<loading, bearer, stored, boot, exchange, logouts, route, invite, calm>>

\* register?claim=...: the account first claims the demo; a failure is swallowed.
Registered(s) ==
  /\ s.step = "me" /\ s.way = "register"
  /\ user' = s.account /\ signIns' = Move(s, "claim")
  /\ UNCHANGED <<loading, bearer, stored, boot, exchange, logouts, pageVars, navigation, calm>>

ClaimEnds(s) ==
  /\ s.step = "claim" /\ Finish(s) /\ Goes("app")
  /\ UNCHANGED <<sessionVars, logouts, route, invite, calm>>

\* The tokens stored before a failing profile stay.
SignInFailed(s) ==
  /\ s.step \in {"tokens", "me"} /\ Finish(s)
  /\ calm' = (calm /\ s.step = "tokens")
  /\ UNCHANGED <<sessionVars, logouts, route, navigation, invite>>

logout ==
  /\ SignOutOffered /\ logouts < MaxLogouts
  /\ logouts' = logouts + 1 /\ Begins
  /\ UNCHANGED <<sessionVars, signIns, pageVars, navigation>>

\* The answer, or its absence.
LoggedOut ==
  /\ logouts > 0 /\ logouts' = logouts - 1 /\ clearSession
  /\ UNCHANGED <<loading, boot, exchange, signIns, pageVars, calm>> /\ ProtectedRoute(push)

-----------------------------------------------------------------------------
\* A link of the page, the Back button, or a command of the palette, which opens over
\* any page, a blank one too, and whatever navigation is under way.
Visit(p) ==
  /\ Goes(p)
  /\ UNCHANGED <<sessionVars, signIns, logouts, pageVars, calm>>

\* Another page is mounted with fresh forms; requests of the old one go on.
Arrive ==
  /\ push # None /\ route' = push
  /\ IF push = route THEN UNCHANGED <<busy, invite, signIns>>
     ELSE /\ busy' = {} /\ invite' = "loading"
          /\ signIns' = {[s EXCEPT !.here = FALSE] : s \in signIns}
  /\ UNCHANGED <<sessionVars, logouts, calm>>
  /\ ProtectedRoute(None)

\* GET /auth/invite/{token} for the link's token, asked when the page is drawn.
InviteAnswered(status) ==
  /\ route = "accept" /\ PageShown /\ invite = "loading" /\ invite' = status
  /\ UNCHANGED <<sessionVars, signIns, logouts, route, navigation, busy, calm>>

-----------------------------------------------------------------------------
Next ==
  \/ Reload \/ BootMe \/ BootRefused \/ BootFailed
  \/ KeepFresh \/ tryRefresh \/ RefreshFailed
  \/ (\E w \in Ways, a \in Accounts : Submit(w, a))
  \/ (\E s \in signIns : TokensIssued(s)) \/ (\E s \in signIns : SignedIn(s))
  \/ (\E s \in signIns : Registered(s)) \/ (\E s \in signIns : ClaimEnds(s))
  \/ (\E s \in signIns : SignInFailed(s))
  \/ logout \/ LoggedOut
  \/ (\E p \in Routes : Visit(p)) \/ Arrive
  \/ (\E status \in {"ready", "refused"} : InviteAnswered(status))

Spec == Init /\ [][Next]_vars

\* A request of the restoring is answered, and the router does what it was told.
\* Nobody has to sign in, nor the server to agree.
ProfileAnswered == BootMe \/ BootRefused \/ BootFailed
ExchangeAnswered == tryRefresh \/ RefreshFailed
Fairness == /\ WF_vars(ProfileAnswered) /\ WF_vars(ExchangeAnswered)
            /\ WF_vars(Arrive)

FairSpec == Spec /\ Fairness

-----------------------------------------------------------------------------
(* The token sent with a request is the one a reload of the page would     *)
(* find (auth-context.tsx:19-27, 51-58, 62-67, 78), whatever sign-ins,     *)
(* exchanges, sign-outs and reloads have crossed.                          *)
BearerIsStored == bearer = stored.access

(* The account shown is the account whose token is sent, once nothing is   *)
(* under way, as long as the operations came one after the other and a     *)
(* sign-in that got tokens also got its profile (auth-context.tsx:133-181).*)
SessionAgrees == calm /\ Quiet => bearer = user /\ ~loading

(* The button of a form that signs somebody in spins exactly as long as    *)
(* the request of that form: no failure freezes it, no answer to a form    *)
(* that was left enables another (login/page.tsx:23-70,                    *)
(* register/page.tsx:61-89, accept-invite/page.tsx:84-108).                *)
NoFrozenForm == busy = {s.way : s \in {r \in signIns : r.here}}

(* The spinner shown while a session is restored ends, unless the page is  *)
(* reloaded for ever (auth-context.tsx:80-107).                            *)
LoadingEnds == []<>~loading \/ []<><<Reload>>_vars

(* Nobody is left on a blank page: one that needs an account, with none    *)
(* signed in, is left for a public page, whatever sign-outs, refusals and  *)
(* navigations have crossed.  The exception is a visitor who, on the blank *)
(* page itself, asks for another page of the app before the login page has *)
(* come, or whose registration ends only then: the effect is not run again *)
(* for the page that comes instead (protected-route.tsx:11-15,             *)
(* command-palette.tsx:68-81, register/page.tsx:73-83).                    *)
SentToLogin ==
  []<>(~Blank \/ overtaken) \/ []<><<Reload>>_vars

(* The accept page displays the invitation to an invitee "before they set  *)
(* a password" (api/auth.py:629-631), so to somebody who has no account    *)
(* yet: it is not blank once the session is known.                         *)
InviteeSeesInvitation == route = "accept" /\ ~loading => PageShown
=============================================================================
