--------------------------- MODULE Session_proofs ---------------------------
(***************************************************************************)
(* What Session keeps for any accounts and any number of sign-ins and      *)
(* sign-outs in flight.                                                    *)
(***************************************************************************)
EXTENDS Session, TLAPS

-----------------------------------------------------------------------------
(* Types.                                                                  *)

LEMMA MoveTyped ==
    ASSUME signIns \subseteq SignIns, NEW s \in signIns, NEW step \in {"tokens", "me", "claim"}
    PROVE  Move(s, step) \subseteq SignIns
BY DEF Move, SignIns

LEMMA EmptyTyped == Empty \in [access : MaybeAccount, refresh : MaybeAccount]
BY DEF Empty, MaybeAccount

LEMMA InitTyped == Init => TypeOK
<1> SUFFICES ASSUME Init PROVE TypeOK
  OBVIOUS
<1>1. user \in MaybeAccount /\ bearer \in MaybeAccount /\ exchange \in MaybeAccount
  BY DEF Init, MaybeAccount
<1>2. stored \in [access : MaybeAccount, refresh : MaybeAccount]
  BY EmptyTyped DEF Init
<1>3. boot \in Boots /\ loading \in BOOLEAN /\ calm \in BOOLEAN
  BY DEF Init, Boots
<1>4. signIns \subseteq SignIns /\ logouts \in 0..MaxLogouts
  BY BoundsAssumption DEF BoundsAssumption, Init
<1>5. /\ route \in Routes /\ push \in Routes \cup {None}
      /\ busy \subseteq Ways /\ invite \in InviteStatus /\ overtaken \in BOOLEAN
  BY DEF Init, InviteStatus, Routes
<1>6. QED
  BY <1>1, <1>2, <1>3, <1>4, <1>5 DEF TypeOK

LEMMA NavigationTyped ==
    ASSUME TypeOK, NEW p \in Routes \cup {None}, ProtectedRoute(p)
    PROVE  push' \in Routes \cup {None} /\ overtaken' \in BOOLEAN
BY DEF TypeOK, ProtectedRoute, Routes

LEMMA StepTyped == TypeOK /\ [Next]_vars => TypeOK'
<1> SUFFICES ASSUME TypeOK, [Next]_vars PROVE TypeOK'
  OBVIOUS
<1> USE DEF TypeOK
<1>1. CASE Reload
  <2>1. PICK p \in Routes : Mounted(p, stored)
    BY <1>1 DEF Reload
  <2>2. push' \in Routes \cup {None} /\ route' \in Routes /\ overtaken' \in BOOLEAN
    BY <2>1 DEF Mounted, Routes
  <2>3. QED
    BY <2>1, <2>2, BoundsAssumption
    DEF BoundsAssumption, Mounted, Boots, MaybeAccount, InviteStatus
<1>2. CASE BootMe \/ BootRefused \/ BootFailed
  <2>1. boot # None => boot \in [step : {"me", "refresh", "retried"}, as : MaybeAccount]
    BY DEF Boots
  <2>2. CASE BootMe
    BY <2>1, <2>2 DEF BootMe, Boots, MaybeAccount, pageVars, navigation
  <2>3. CASE BootRefused
    BY <2>1, <2>3 DEF BootRefused, Boots, MaybeAccount, pageVars, navigation
  <2>4. CASE BootFailed
    BY <2>4, NavigationTyped DEF BootFailed, BootEnds, clearSession, Empty, Boots, MaybeAccount, pageVars
  <2>5. QED
    BY <1>2, <2>2, <2>3, <2>4
<1>3. CASE KeepFresh \/ tryRefresh \/ RefreshFailed
  <2>1. CASE KeepFresh
    BY <2>1 DEF KeepFresh, Begins, Quiet, MaybeAccount, pageVars, navigation
  <2>2. CASE tryRefresh
    BY <2>2 DEF tryRefresh, Boots, MaybeAccount, pageVars, navigation
  <2>3. CASE RefreshFailed
    BY <2>3, EmptyTyped, NavigationTyped DEF RefreshFailed, BootEnds, clearSession, Boots, MaybeAccount, pageVars
  <2>4. QED
    BY <1>3, <2>1, <2>2, <2>3
<1>4. ASSUME NEW w \in Ways, NEW a \in Accounts, Submit(w, a) PROVE TypeOK'
  <2>1. [way |-> w, account |-> a, step |-> "tokens", here |-> TRUE] \in SignIns
    BY DEF SignIns
  <2>2. QED
    BY <1>4, <2>1 DEF Submit, Begins, Quiet, sessionVars, navigation
<1>5. ASSUME NEW s \in signIns, TokensIssued(s) PROVE TypeOK'
  BY <1>5, MoveTyped DEF TokensIssued, storeTokens, MaybeAccount, SignIns, pageVars, navigation
<1>6. ASSUME NEW s \in signIns, SignedIn(s) PROVE TypeOK'
  BY <1>6 DEF SignedIn, Finish, Goes, MaybeAccount, SignIns, Routes
<1>7. ASSUME NEW s \in signIns, Registered(s) PROVE TypeOK'
  BY <1>7, MoveTyped DEF Registered, MaybeAccount, SignIns, pageVars, navigation
<1>8. ASSUME NEW s \in signIns, ClaimEnds(s) PROVE TypeOK'
  BY <1>8 DEF ClaimEnds, Finish, Goes, sessionVars, Routes
<1>9. ASSUME NEW s \in signIns, SignInFailed(s) PROVE TypeOK'
  BY <1>9 DEF SignInFailed, Finish, sessionVars, navigation
<1>10. CASE logout \/ LoggedOut
  <2>1. CASE logout
    BY <2>1, BoundsAssumption
    DEF BoundsAssumption, logout, Begins, Quiet, sessionVars, pageVars, navigation
  <2>2. CASE LoggedOut
    BY <2>2, BoundsAssumption, NavigationTyped
    DEF BoundsAssumption, LoggedOut, clearSession, Empty, MaybeAccount, pageVars
  <2>3. QED
    BY <1>10, <2>1, <2>2
<1>11. ASSUME NEW p \in Routes, Visit(p) PROVE TypeOK'
  BY <1>11 DEF Visit, Goes, sessionVars, pageVars
<1>12. CASE Arrive
  <2>1. {[s EXCEPT !.here = FALSE] : s \in signIns} \subseteq SignIns
    BY DEF SignIns
  <2>2. QED
    BY <1>12, <2>1, NavigationTyped DEF Arrive, sessionVars, InviteStatus
<1>13. ASSUME NEW status \in {"ready", "refused"}, InviteAnswered(status) PROVE TypeOK'
  BY <1>13 DEF InviteAnswered, InviteStatus, sessionVars, navigation
<1>14. CASE UNCHANGED vars
  BY <1>14 DEF vars, sessionVars, pageVars, navigation
<1>15. QED
  BY <1>1, <1>2, <1>3, <1>4, <1>5, <1>6, <1>7, <1>8, <1>9, <1>10, <1>11, <1>12, <1>13,
     <1>14 DEF Next

(* In every state the variables have the types of the code's state, for    *)
(* any accounts and bounds.                                                *)
THEOREM SessionTypes == Spec => []TypeOK
BY InitTyped, StepTyped, PTL DEF Spec

-----------------------------------------------------------------------------
(* The client's token and the stored one change together.                  *)

LEMMA StepKeepsBearer == TypeOK /\ BearerIsStored /\ [Next]_vars => BearerIsStored'
<1> SUFFICES ASSUME TypeOK, BearerIsStored, [Next]_vars PROVE BearerIsStored'
  OBVIOUS
<1> USE DEF BearerIsStored
<1>1. stored \in [access : MaybeAccount, refresh : MaybeAccount]
  BY DEF TypeOK
<1>2. CASE UNCHANGED <<bearer, stored>>
  BY <1>2
<1>3. CASE clearSession
  BY <1>3 DEF clearSession, Empty
<1>4. ASSUME NEW a, storeTokens(a) PROVE BearerIsStored'
  BY <1>4 DEF storeTokens
<1>5. CASE Reload
  BY <1>5 DEF Reload, Mounted
<1>6. CASE tryRefresh
  BY <1>1, <1>6 DEF tryRefresh
<1>7. CASE RefreshFailed
  BY <1>2, <1>3, <1>7 DEF RefreshFailed, BootEnds
<1>8. QED
  BY <1>2, <1>3, <1>4, <1>5, <1>6, <1>7
  DEF Next, BootMe, BootRefused, BootFailed, BootEnds, KeepFresh, Submit, TokensIssued,
      SignedIn, Registered, ClaimEnds, SignInFailed, logout, LoggedOut, Visit,
      Arrive, InviteAnswered, vars, sessionVars

(* The token sent with a request is the one a reload would find, whatever  *)
(* requests cross and fail.                                                *)
THEOREM TokenIsStored == Spec => []BearerIsStored
<1>1. Init => BearerIsStored
  BY DEF Init, Empty, BearerIsStored
<1>2. QED
  BY <1>1, StepKeepsBearer, SessionTypes, PTL DEF Spec

-----------------------------------------------------------------------------
(* A form has at most one request of the page on screen: without that, the *)
(* end of one would free the button while another is under way.            *)

OneRequest == \A s, t \in signIns : s.here /\ t.here /\ s.way = t.way => s = t
FormInv == NoFrozenForm /\ OneRequest

LEMMA FinishKeepsForms ==
    ASSUME TypeOK, FormInv, NEW s \in signIns, Finish(s)
    PROVE  FormInv'
<1>1. s \in SignIns
  BY DEF TypeOK
<1>2. OneRequest'
  BY DEF Finish, FormInv, OneRequest
<1>3. ASSUME NEW w PROVE (w \in busy') <=> \E r \in signIns' : r.here /\ r.way = w
  BY <1>1 DEF Finish, FormInv, OneRequest, NoFrozenForm, SignIns
<1>4. NoFrozenForm'
  BY <1>3 DEF NoFrozenForm
<1>5. QED
  BY <1>2, <1>4 DEF FormInv

LEMMA MoveKeepsForms ==
    ASSUME TypeOK, FormInv, NEW s \in signIns, NEW step, signIns' = Move(s, step),
           UNCHANGED busy
    PROVE  FormInv'
<1> DEFINE t == [s EXCEPT !.step = step]
<1>1. s \in SignIns
  BY DEF TypeOK
<1>2. t.here = s.here /\ t.way = s.way
  BY <1>1 DEF SignIns
<1>3. signIns' = (signIns \ {s}) \cup {t}
  BY DEF Move
<1> HIDE DEF t
<1>4. OneRequest'
  BY <1>2, <1>3 DEF FormInv, OneRequest
<1>5. ASSUME NEW w PROVE (w \in busy') <=> \E r \in signIns' : r.here /\ r.way = w
  BY <1>2, <1>3 DEF FormInv, NoFrozenForm
<1>6. NoFrozenForm'
  BY <1>5 DEF NoFrozenForm
<1>7. QED
  BY <1>4, <1>6 DEF FormInv

LEMMA SubmitKeepsForms ==
    ASSUME TypeOK, FormInv, NEW w \in Ways, NEW a \in Accounts, Submit(w, a)
    PROVE  FormInv'
<1> DEFINE s == [way |-> w, account |-> a, step |-> "tokens", here |-> TRUE]
<1>1. signIns' = signIns \cup {s} /\ busy' = busy \cup {w} /\ w \notin busy
  BY DEF Submit, Offered, LoginForm, GoogleButton, RegisterForm, AcceptForm
<1>2. s.here /\ s.way = w
  OBVIOUS
<1> HIDE DEF s
<1>3. \A r \in signIns : r.here => r.way # w
  BY <1>1 DEF FormInv, NoFrozenForm
<1>4. OneRequest'
  BY <1>1, <1>2, <1>3 DEF FormInv, OneRequest
<1>5. ASSUME NEW v PROVE (v \in busy') <=> \E r \in signIns' : r.here /\ r.way = v
  BY <1>1, <1>2 DEF FormInv, NoFrozenForm
<1>6. NoFrozenForm'
  BY <1>5 DEF NoFrozenForm
<1>7. QED
  BY <1>4, <1>6 DEF FormInv

LEMMA ArriveKeepsForms ==
    ASSUME TypeOK, FormInv, Arrive
    PROVE  FormInv'
<1>1. CASE push = route
  BY <1>1 DEF Arrive, FormInv, OneRequest, NoFrozenForm
<1>2. CASE push # route
  <2>1. busy' = {} /\ signIns' = {[s EXCEPT !.here = FALSE] : s \in signIns}
    BY <1>2 DEF Arrive
  <2>2. \A r \in signIns' : r.here = FALSE
    BY <2>1 DEF TypeOK, SignIns
  <2>3. QED
    BY <2>1, <2>2 DEF FormInv, OneRequest, NoFrozenForm
<1>3. QED
  BY <1>1, <1>2

LEMMA StepKeepsForms == TypeOK /\ FormInv /\ [Next]_vars => FormInv'
<1> SUFFICES ASSUME TypeOK, FormInv, [Next]_vars PROVE FormInv'
  OBVIOUS
<1>1. CASE UNCHANGED <<busy, signIns>>
  BY <1>1 DEF FormInv, OneRequest, NoFrozenForm
<1>2. CASE Reload
  <2>1. busy' = {} /\ signIns' = {}
    BY <1>2 DEF Reload, Mounted
  <2>2. QED
    BY <2>1 DEF FormInv, OneRequest, NoFrozenForm
<1>3. ASSUME NEW s \in signIns, TokensIssued(s) \/ Registered(s) PROVE FormInv'
  BY <1>3, MoveKeepsForms DEF TokensIssued, Registered, pageVars
<1>4. ASSUME NEW s \in signIns, SignedIn(s) \/ ClaimEnds(s) \/ SignInFailed(s) PROVE FormInv'
  BY <1>4, FinishKeepsForms DEF SignedIn, ClaimEnds, SignInFailed
<1>5. QED
  BY <1>1, <1>2, <1>3, <1>4, SubmitKeepsForms, ArriveKeepsForms
  DEF Next, BootMe, BootRefused, BootFailed, KeepFresh, tryRefresh, RefreshFailed, logout,
      LoggedOut, Visit, InviteAnswered, vars, pageVars

(* No failure of a request freezes a form, and no late answer frees the    *)
(* button of another.                                                      *)
THEOREM FormsAreFreed == Spec => []NoFrozenForm
<1>1. Init => FormInv
  BY DEF Init, FormInv, NoFrozenForm, OneRequest
<1>2. FormInv => NoFrozenForm
  BY DEF FormInv
<1>3. QED
  BY <1>1, <1>2, StepKeepsForms, SessionTypes, PTL DEF Spec

-----------------------------------------------------------------------------
LEMMA BootIsSomething ==
    ASSUME NEW step \in {"me", "refresh", "retried"}, NEW as \in MaybeAccount
    PROVE  [step |-> step, as |-> as] # None
<1>1. [step |-> step, as |-> as]
        \in [step : {"me", "refresh", "retried"}, as : Accounts \cup {None}]
  BY DEF MaybeAccount
<1> DEFINE r == [step |-> step, as |-> as]
<1> HIDE DEF r
<1>2. r \in [step : {"me", "refresh", "retried"}, as : Accounts \cup {None}] => r # None
  BY NoneAssumption, Zenon DEF NoneAssumption
<1>3. QED
  BY <1>1, <1>2 DEF r

(* As long as operations come one after the other, the two stored tokens   *)
(* are of one account, at most one operation is under way, and each step   *)
(* of it is for the account whose token is sent.                           *)

Booting ==
    boot # None =>
      /\ signIns = {} /\ logouts = 0
      /\ (boot.step = "refresh") <=> (exchange # None)
      /\ boot.step # "refresh" => boot.as = bearer
Exchanging ==
    exchange # None => exchange = stored.refresh /\ signIns = {} /\ logouts = 0
SigningIn ==
    /\ \A s, t \in signIns : s = t
    /\ \A s \in signIns : IF s.step = "me" THEN bearer = s.account ELSE user = bearer
AtRest == signIns = {} /\ boot = None => user = bearer
Calm ==
    /\ stored.refresh = stored.access /\ bearer = stored.access
    /\ loading <=> boot # None
    /\ logouts > 0 => signIns = {} /\ boot = None /\ exchange = None
    /\ Booting /\ Exchanging /\ SigningIn /\ AtRest
CalmInv == calm => Calm

LEMMA CalmRestores ==
    ASSUME TypeOK, CalmInv, BootMe \/ BootRefused \/ BootFailed
    PROVE  CalmInv'
<1> SUFFICES ASSUME calm' PROVE Calm'
  BY DEF CalmInv
<1>1. calm /\ Calm
  BY DEF CalmInv, BootMe, BootRefused, BootFailed
<1> USE <1>1 DEF Calm, Booting, Exchanging, SigningIn, AtRest
<1>2. boot # None => boot \in [step : {"me", "refresh", "retried"}, as : MaybeAccount]
  BY DEF TypeOK, Boots
<1>3. CASE BootMe
  BY <1>2, <1>3 DEF BootMe
<1>4. CASE BootRefused
  <2>1. boot' = [step |-> "refresh", as |-> None] /\ boot' # None
    BY <1>4, BootIsSomething DEF BootRefused, MaybeAccount
  <2>2. boot # None /\ boot.step = "me" /\ exchange = None /\ exchange' = stored.refresh
    BY <1>4 DEF BootRefused
  <2>3. stored.refresh # None /\ UNCHANGED <<user, loading, bearer, stored, signIns, logouts>>
    BY <1>4 DEF BootRefused
  <2>4. QED
    BY <2>1, <2>2, <2>3
<1>5. CASE BootFailed
  BY <1>2, <1>5 DEF BootFailed, BootEnds, clearSession, Empty
<1>6. QED
  BY <1>3, <1>4, <1>5

LEMMA CalmExchanges ==
    ASSUME TypeOK, CalmInv, KeepFresh \/ tryRefresh \/ RefreshFailed
    PROVE  CalmInv'
<1> SUFFICES ASSUME calm' PROVE Calm'
  BY DEF CalmInv
<1>1. calm /\ Calm
  BY DEF CalmInv, KeepFresh, Begins, tryRefresh, RefreshFailed
<1> USE <1>1 DEF Calm, Booting, Exchanging, SigningIn, AtRest
<1>2. boot # None => boot \in [step : {"me", "refresh", "retried"}, as : MaybeAccount]
  BY DEF TypeOK, Boots
<1>3. stored \in [access : MaybeAccount, refresh : MaybeAccount]
  BY DEF TypeOK
<1>4. CASE KeepFresh
  <2>1. boot = None /\ signIns = {} /\ logouts = 0 /\ exchange' = stored.refresh
    BY <1>4 DEF KeepFresh, Begins, Quiet
  <2>2. UNCHANGED <<user, loading, bearer, stored, boot, signIns, logouts>>
    BY <1>4 DEF KeepFresh
  <2>3. QED
    BY <2>1, <2>2
<1>5. CASE tryRefresh
  <2>1. stored'.access = exchange /\ stored'.refresh = exchange /\ bearer' = exchange
    BY <1>3, <1>5 DEF tryRefresh
  <2>2. CASE boot # None
    <3>1. boot' = [step |-> "retried", as |-> exchange] /\ boot' # None
      BY <1>2, <1>5, <2>2, BootIsSomething DEF tryRefresh, TypeOK
    <3>2. QED
      BY <1>5, <2>1, <2>2, <3>1 DEF tryRefresh
  <2>3. CASE boot = None
    BY <1>5, <2>1, <2>3 DEF tryRefresh
  <2>4. QED
    BY <2>2, <2>3
<1>6. CASE RefreshFailed
  BY <1>2, <1>6 DEF RefreshFailed, BootEnds, clearSession, Empty
<1>7. QED
  BY <1>4, <1>5, <1>6

LEMMA CalmSignsIn ==
    ASSUME TypeOK, CalmInv, NEW s \in signIns,
           TokensIssued(s) \/ SignedIn(s) \/ Registered(s) \/ ClaimEnds(s) \/ SignInFailed(s)
    PROVE  CalmInv'
<1> SUFFICES ASSUME calm' PROVE Calm'
  BY DEF CalmInv
<1>1. calm /\ Calm
  BY DEF CalmInv, TokensIssued, SignedIn, Registered, ClaimEnds, SignInFailed
<1>2. s \in SignIns /\ signIns = {s}
  BY <1>1 DEF TypeOK, Calm, SigningIn
<1>3. boot = None /\ exchange = None /\ logouts = 0
  BY <1>1, <1>2 DEF Calm, Booting, Exchanging, TypeOK
<1>4. ASSUME NEW step, signIns' = Move(s, step)
      PROVE  \E t : signIns' = {t} /\ t.step = step /\ t.account = s.account
  <2>1. signIns' = {[s EXCEPT !.step = step]}
    BY <1>2, <1>4 DEF Move
  <2>2. [s EXCEPT !.step = step].step = step /\ [s EXCEPT !.step = step].account = s.account
    BY <1>2 DEF SignIns
  <2>3. QED
    BY <2>1, <2>2
<1> USE DEF Calm, Booting, Exchanging, SigningIn, AtRest
<1>5. CASE TokensIssued(s)
  <2>1. PICK t : signIns' = {t} /\ t.step = "me" /\ t.account = s.account
    BY <1>4, <1>5 DEF TokensIssued
  <2>2. QED
    BY <1>1, <1>3, <1>5, <2>1 DEF TokensIssued, storeTokens, pageVars
<1>6. CASE Registered(s)
  <2>1. PICK t : signIns' = {t} /\ t.step = "claim"
    BY <1>4, <1>6 DEF Registered
  <2>2. QED
    BY <1>1, <1>2, <1>3, <1>6, <2>1 DEF Registered, pageVars
<1>7. CASE SignedIn(s) \/ ClaimEnds(s) \/ SignInFailed(s)
  <2>1. signIns' = {}
    BY <1>2, <1>7 DEF SignedIn, ClaimEnds, SignInFailed, Finish
  <2>2. UNCHANGED <<loading, bearer, stored, boot, exchange, logouts>>
    BY <1>7 DEF SignedIn, ClaimEnds, SignInFailed, sessionVars
  <2>3. user' = bearer
    <3>1. CASE SignedIn(s)
      BY <1>1, <1>2, <3>1 DEF SignedIn
    <3>2. CASE ClaimEnds(s)
      BY <1>1, <1>2, <3>2 DEF ClaimEnds, sessionVars
    <3>3. CASE SignInFailed(s)
      BY <1>1, <1>2, <3>3 DEF SignInFailed, sessionVars
    <3>4. QED
      BY <1>7, <3>1, <3>2, <3>3
  <2>4. QED
    BY <1>1, <1>3, <2>1, <2>2, <2>3
<1>8. QED
  BY <1>5, <1>6, <1>7

LEMMA StepKeepsCalm == TypeOK /\ CalmInv /\ [Next]_vars => CalmInv'
<1> SUFFICES ASSUME TypeOK, CalmInv, [Next]_vars PROVE CalmInv'
  OBVIOUS
<1>1. CASE UNCHANGED <<sessionVars, signIns, logouts, calm>>
  BY <1>1 DEF CalmInv, Calm, Booting, Exchanging, SigningIn, AtRest, sessionVars
<1>2. CASE Reload
  <2>1. /\ user' = None /\ bearer' = stored.access /\ exchange' = None
        /\ stored' = stored /\ signIns' = {} /\ logouts' = 0 /\ calm' = calm
    BY <1>2 DEF Reload, Mounted
  <2>2. \/ stored.access = None /\ loading' = FALSE /\ boot' = None
        \/ loading' = TRUE /\ boot' = [step |-> "me", as |-> stored.access]
    BY <1>2 DEF Reload, Mounted
  <2>3. [step |-> "me", as |-> stored.access] # None
    BY BootIsSomething DEF TypeOK
  <2>4. QED
    BY <2>1, <2>2, <2>3 DEF CalmInv, Calm, Booting, Exchanging, SigningIn, AtRest
<1>3. ASSUME NEW w \in Ways, NEW a \in Accounts, Submit(w, a) PROVE CalmInv'
  <2> DEFINE s == [way |-> w, account |-> a, step |-> "tokens", here |-> TRUE]
  <2>1. signIns' = signIns \cup {s} /\ s.step = "tokens"
    BY <1>3 DEF Submit
  <2> HIDE DEF s
  <2>2. UNCHANGED <<user, loading, bearer, stored, boot, exchange, logouts>>
    BY <1>3 DEF Submit, sessionVars
  <2>3. ASSUME calm' PROVE Calm /\ Quiet
    BY <1>3, <2>3 DEF Submit, Begins, CalmInv
  <2>4. ASSUME calm' PROVE Calm'
    BY <2>1, <2>2, <2>3, <2>4
    DEF Quiet, Calm, Booting, Exchanging, SigningIn, AtRest
  <2>5. QED
    BY <2>4 DEF CalmInv
<1>4. CASE logout
  BY <1>4 DEF logout, Begins, Quiet, CalmInv, Calm, Booting, Exchanging, SigningIn, AtRest,
     sessionVars
<1>5. CASE LoggedOut
  BY <1>5 DEF LoggedOut, clearSession, Empty, CalmInv, Calm, Booting, Exchanging, SigningIn,
     AtRest, TypeOK
<1>6. CASE Arrive
  <2>1. CASE push = route
    BY <1>1, <1>6, <2>1 DEF Arrive
  <2>2. CASE push # route
    <3>1. signIns' = {[s EXCEPT !.here = FALSE] : s \in signIns}
      BY <1>6, <2>2 DEF Arrive
    <3>2. \A s \in signIns : [s EXCEPT !.here = FALSE].step = s.step
                             /\ [s EXCEPT !.here = FALSE].account = s.account
      BY DEF TypeOK, SignIns
    <3>3. UNCHANGED <<sessionVars, logouts, calm>>
      BY <1>6 DEF Arrive
    <3>4. calm => SigningIn' /\ (signIns' = {} <=> signIns = {})
      <4>1. signIns' = {} <=> signIns = {}
        BY <3>1
      <4>2. ASSUME calm, NEW s \in signIns'
            PROVE  IF s.step = "me" THEN bearer' = s.account ELSE user' = bearer'
        BY <4>2, <3>1, <3>2, <3>3 DEF SigningIn, CalmInv, Calm, sessionVars
      <4>3. ASSUME calm, NEW s \in signIns', NEW t \in signIns' PROVE s = t
        BY <4>3, <3>1 DEF SigningIn, CalmInv, Calm
      <4>4. QED
        BY <4>1, <4>2, <4>3 DEF SigningIn
    <3>5. QED
      BY <3>3, <3>4 DEF CalmInv, Calm, Booting, Exchanging, AtRest, sessionVars
  <2>3. QED
    BY <2>1, <2>2
<1>7. QED
  BY <1>1, <1>2, <1>3, <1>4, <1>5, <1>6, CalmRestores, CalmExchanges, CalmSignsIn
  DEF Next, Visit, InviteAnswered, vars, pageVars

(* Once nothing is under way the account on screen is the one whose token  *)
(* is sent, if operations came one after the other and every sign-in that  *)
(* got tokens got its profile.                                             *)
THEOREM CalmAgrees == Spec => []SessionAgrees
<1>1. Init => CalmInv
  BY DEF Init, Empty, CalmInv, Calm, Booting, Exchanging, SigningIn, AtRest
<1>2. TypeOK /\ CalmInv => SessionAgrees
  BY DEF SessionAgrees, Quiet, CalmInv, Calm, AtRest, TypeOK
<1>3. QED
  BY <1>1, <1>2, StepKeepsCalm, SessionTypes, PTL DEF Spec

-----------------------------------------------------------------------------
(* A page that needs an account is left for a public one while nobody is   *)
(* signed in, or the visitor has asked for another page of the app on it.  *)
BlankIsLeft == Blank => push \in PublicPaths \/ overtaken

LEMMA RedirectedWhenBlank ==
    ASSUME BlankIsLeft, NEW p, ProtectedRoute(p), route' \in {route, push},
           p = push \/ (route' = push /\ p = None)
    PROVE  BlankIsLeft'
<1> SUFFICES ASSUME Blank' PROVE push' \in PublicPaths \/ overtaken'
  BY DEF BlankIsLeft
<1>1. CASE route \in PublicPaths \/ user' # user \/ loading' # loading
  BY <1>1 DEF ProtectedRoute, PublicPaths
<1>2. CASE route \notin PublicPaths /\ UNCHANGED <<user, loading>>
  <2>1. Blank /\ push' = p /\ overtaken' = overtaken
    BY <1>2 DEF Blank, ProtectedRoute
  <2>2. route' \notin PublicPaths
    BY DEF Blank
  <2>3. QED
    BY <2>1, <2>2 DEF BlankIsLeft
<1>3. QED
  BY <1>1, <1>2

LEMMA StepLeavesBlank == TypeOK /\ BlankIsLeft /\ [Next]_vars => BlankIsLeft'
<1> SUFFICES ASSUME TypeOK, BlankIsLeft, [Next]_vars PROVE BlankIsLeft'
  OBVIOUS
<1>1. CASE UNCHANGED <<user, loading, route, navigation>>
  BY <1>1 DEF BlankIsLeft, Blank, navigation
<1>2. CASE Reload
  <2>1. PICK p \in Routes : Mounted(p, stored)
    BY <1>2 DEF Reload
  <2>2. Blank' => push' = "login"
    BY <2>1 DEF Mounted, Blank
  <2>3. QED
    BY <2>2 DEF BlankIsLeft, PublicPaths
<1>3. CASE BootMe
  BY <1>3 DEF BootMe, BlankIsLeft, Blank, navigation, pageVars
<1>4. CASE BootFailed \/ RefreshFailed \/ LoggedOut
  <2>1. ProtectedRoute(push) /\ route' = route
    BY <1>4 DEF BootFailed, RefreshFailed, LoggedOut, pageVars
  <2>2. QED
    BY <2>1, RedirectedWhenBlank
<1>5. ASSUME NEW s \in signIns, SignedIn(s) \/ Registered(s) PROVE BlankIsLeft'
  <2>1. user' = s.account
    BY <1>5 DEF SignedIn, Registered
  <2>2. user' # None
    <3>1. s.account \in Accounts
      BY DEF TypeOK, SignIns
    <3>2. QED
      BY <2>1, <3>1, NoneAssumption DEF NoneAssumption
  <2>3. QED
    BY <2>2 DEF BlankIsLeft, Blank
<1>6. ASSUME NEW p, Goes(p), UNCHANGED <<user, loading, route>> PROVE BlankIsLeft'
  BY <1>6 DEF Goes, BlankIsLeft, Blank
<1>7. CASE Arrive
  <2>1. ProtectedRoute(None) /\ route' = push
    BY <1>7 DEF Arrive
  <2>2. QED
    BY <2>1, RedirectedWhenBlank
<1>8. QED
  BY <1>1, <1>2, <1>3, <1>4, <1>5, <1>6, <1>7
  DEF Next, BootRefused, KeepFresh, tryRefresh, Submit, TokensIssued, ClaimEnds,
      SignInFailed, logout, Visit, InviteAnswered, vars, sessionVars, pageVars

(* On a blank page a navigation to a public page is under way at any time, *)
(* however sign-outs, refusals and navigations cross, unless the last one  *)
(* asked for there leads to another page of the app: the effect of         *)
(* ProtectedRoute misses no way into a blank page.                         *)
THEOREM BlankPageIsLeft == Spec => []BlankIsLeft
<1>1. Init => BlankIsLeft
  BY DEF Init, BlankIsLeft, Blank, PublicPaths
<1>2. QED
  BY <1>1, StepLeavesBlank, SessionTypes, PTL DEF Spec
=============================================================================
