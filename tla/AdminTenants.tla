---------------------------- MODULE AdminTenants ----------------------------
(***************************************************************************)
(* The administrator's tabs on tenants and on credits: a roster, the       *)
(* tenant selected in it with its balance, an adjustment of that balance   *)
(* and, on the tenants tab, a form with its plan.  Requests end in any     *)
(* order, a read showing what the server has when it ends.  A balance is   *)
(* known by the adjustments made to it; a tenant's users, name and webhook *)
(* are left out.                                                           *)
(***************************************************************************)
EXTENDS Naturals, FiniteSets, Functions

CONSTANTS None, Tenants, Plans, MaxSelected, MaxAdjusted, MaxSaved, MaxChanged, MaxLost

VARIABLES
  plan, balance,                             \* server
  tab, tenants, selected, tenantCredits,     \* page: the roster, the balance shown
  adjustLoading, editPlan,                   \* page: the forms
  reads, calls,                              \* requests under way
  asked, selects, adjusts, saves, changed, lost,   \* history: counters,
  touched, fresh, adrift, spoiled            \* the form's plan; what overlapped or was lost

serverVars == <<plan, balance>>
pageVars == <<tab, tenants, selected, tenantCredits, adjustLoading, editPlan>>
counters == <<asked, selects, adjusts, saves, changed, lost>>
vars == <<serverVars, pageVars, reads, calls, counters, touched, fresh, adrift, spoiled>>

MaxAsked == 1 + MaxSelected + 2 * MaxAdjusted + MaxSaved
Rosters == [Tenants -> [plan : Plans, balance : 0..MaxAdjusted]]
Balances == [of : Tenants, balance : 0..MaxAdjusted]

TypeOK ==
  /\ plan \in [Tenants -> Plans] /\ balance \in [Tenants -> 0..MaxAdjusted]
  /\ tab \in {"tenants", "credits"} /\ tenants \in Rosters \cup {None}
  /\ selected \in Tenants \cup {None} /\ tenantCredits \in Balances \cup {None}
  /\ {adjustLoading, touched, fresh, adrift, spoiled} \subseteq BOOLEAN
  /\ editPlan \in Plans \cup {None}
  /\ \A r \in reads : r.n \in 1..MaxAsked /\ r.of \in Tenants \cup {None}
  /\ \A c \in calls : c.op \in {"adjust", "save"} /\ c.of \in Tenants
  /\ asked \in 0..MaxAsked /\ selects \in 0..MaxSelected /\ adjusts \in 0..MaxAdjusted
  /\ saves \in 0..MaxSaved /\ changed \in 0..MaxChanged /\ lost \in 0..MaxLost

\* A tab is mounted with its roster asked for; another tab forgets it.  The tenants are
\* on different plans.
Init ==
  /\ plan \in Injection(Tenants, Plans) /\ balance = [t \in Tenants |-> 0]
  /\ tab \in {"tenants", "credits"} /\ tenants = None /\ selected = None
  /\ tenantCredits = None /\ adjustLoading = FALSE /\ editPlan = None
  /\ reads = {[n |-> 1, of |-> None]} /\ calls = {}
  /\ asked = 1 /\ selects = 0 /\ adjusts = 0 /\ saves = 0 /\ changed = 0 /\ lost = 0
  /\ touched = FALSE /\ fresh = FALSE /\ adrift = FALSE /\ spoiled = FALSE

\* A read of the roster has no tenant.
Ask(k, t) == [n |-> asked + k, of |-> t]
Overlaps(t) == \E r \in reads : (r.of = None) = (t = None)

-----------------------------------------------------------------------------
adminRead(t) == IF t = None
  THEN [u \in Tenants |-> [plan |-> plan[u], balance |-> balance[u]]]
  ELSE [of |-> t, balance |-> balance[t]]

setTenants(r) ==
  /\ r \in reads /\ r.of = None
  /\ tenants' = adminRead(None) /\ reads' = reads \ {r}
  /\ UNCHANGED <<serverVars, tab, selected, tenantCredits, adjustLoading, editPlan, calls, counters,
                 touched, fresh, adrift, spoiled>>

setTenantCredits(r) ==
  /\ r \in reads /\ r.of # None
  /\ tenantCredits' = adminRead(r.of) /\ reads' = reads \ {r}
  /\ UNCHANGED <<serverVars, tab, tenants, selected, adjustLoading, editPlan, calls, counters,
                 touched, fresh, adrift, spoiled>>

\* A read that fails is only logged.
ReadFailed(r) ==
  /\ r \in reads /\ lost < MaxLost
  /\ reads' = reads \ {r} /\ lost' = lost + 1 /\ adrift' = TRUE
  /\ UNCHANGED <<serverVars, pageVars, calls, asked, selects, adjusts, saves, changed, touched,
                 fresh, spoiled>>

-----------------------------------------------------------------------------
Roster == IF tenants = None THEN {} ELSE Tenants

\* The form is filled from the row; the balance shown stays until the new one comes.
FormOf(t) == tenants[t].plan
handleSelect(t) ==
  /\ t \in Roster /\ selects < MaxSelected
  /\ selected' = t /\ editPlan' = FormOf(t)
  /\ reads' = reads \cup {Ask(1, t)} /\ asked' = asked + 1 /\ selects' = selects + 1
  /\ touched' = FALSE /\ fresh' = (tenants[t].plan = plan[t])
  /\ adrift' = (adrift \/ calls # {} \/ Overlaps(t))
  /\ UNCHANGED <<serverVars, tab, tenants, tenantCredits, adjustLoading, calls, adjusts, saves,
                 changed, lost, spoiled>>

\* On the tenants tab the button waits for the answer; the credits tab has no such guard
\* but shows the form only with a balance.
AdjustButton == tab = "tenants" /\ ~adjustLoading
BalancePanel == tab = "credits" /\ tenantCredits # None
AdjustForm == selected # None /\ (AdjustButton \/ BalancePanel)
handleAdjust ==
  /\ AdjustForm /\ adjusts < MaxAdjusted
  /\ adjustLoading' = (tab = "tenants") /\ adjusts' = adjusts + 1
  /\ calls' = calls \cup {[op |-> "adjust", n |-> adjusts + 1, of |-> selected]}
  /\ adrift' = (adrift \/ calls # {})
  /\ UNCHANGED <<serverVars, tab, tenants, selected, tenantCredits, editPlan, reads, asked, selects,
                 saves, changed, lost, touched, fresh, spoiled>>

\* A variant: the roster and the balance are not read again.
AdjustedQuietly(c) ==
  /\ c \in calls /\ c.op = "adjust"
  /\ balance' = [balance EXCEPT ![c.of] = @ + 1]
  /\ calls' = calls \ {c} /\ adjustLoading' = FALSE
  /\ UNCHANGED <<plan, tab, tenants, selected, tenantCredits, editPlan, reads, counters, touched,
                 fresh, adrift, spoiled>>

\* The balance and the roster are read again.
Adjusted(c) ==
  /\ c \in calls /\ c.op = "adjust"
  /\ balance' = [balance EXCEPT ![c.of] = @ + 1]
  /\ calls' = calls \ {c} /\ adjustLoading' = FALSE
  /\ reads' = reads \cup {Ask(1, c.of), Ask(2, None)} /\ asked' = asked + 2
  /\ adrift' = (adrift \/ Overlaps(c.of) \/ Overlaps(None))
  /\ UNCHANGED <<plan, tab, tenants, selected, tenantCredits, editPlan, selects, adjusts, saves,
                 changed, lost, touched, fresh, spoiled>>

\* Refused (below zero, not a superadmin), or lost, with or without effect.
NotAdjusted(c, acted) ==
  /\ c \in calls /\ c.op = "adjust" /\ lost < MaxLost
  /\ balance' = IF acted THEN [balance EXCEPT ![c.of] = @ + 1] ELSE balance
  /\ calls' = calls \ {c} /\ adjustLoading' = FALSE /\ lost' = lost + 1
  /\ adrift' = (adrift \/ acted)
  /\ UNCHANGED <<plan, tab, tenants, selected, tenantCredits, editPlan, reads, asked, selects,
                 adjusts, saves, changed, touched, fresh, spoiled>>

-----------------------------------------------------------------------------
EditForm == tab = "tenants" /\ selected # None

\* (Typed in once per selection.)
setEditPlan(p) ==
  /\ EditForm /\ p # editPlan /\ ~touched
  /\ editPlan' = p /\ touched' = TRUE
  /\ UNCHANGED <<serverVars, tab, tenants, selected, tenantCredits, adjustLoading, reads, calls,
                 counters, fresh, adrift, spoiled>>

\* Every field of the form is sent, whichever was typed in.
handleUpdateTenant ==
  /\ EditForm /\ saves < MaxSaved
  /\ saves' = saves + 1
  /\ calls' = calls \cup {[op |-> "save", n |-> MaxAdjusted + saves + 1, of |-> selected,
                           plan |-> editPlan, kept |-> fresh /\ ~touched]}
  /\ adrift' = (adrift \/ calls # {})
  /\ UNCHANGED <<serverVars, pageVars, reads, asked, selects, adjusts, changed, lost, touched,
                 fresh, spoiled>>

\* A save under way no longer keeps the plan of its tenant once that plan is p.
Overtaken(t, p, cs) ==
  {IF c.op = "save" /\ c.of = t /\ c.plan # p THEN [c EXCEPT !.kept = FALSE] ELSE c : c \in cs}

update_tenant(c) ==
  /\ c \in calls /\ c.op = "save"
  /\ plan' = [plan EXCEPT ![c.of] = c.plan]
  /\ calls' = Overtaken(c.of, c.plan, calls \ {c})
  /\ reads' = reads \cup {Ask(1, None)} /\ asked' = asked + 1
  /\ fresh' = (fresh /\ (c.of = selected => c.plan = editPlan))
  /\ adrift' = (adrift \/ Overlaps(None))
  /\ spoiled' = (spoiled \/ (c.kept /\ c.plan # plan[c.of]))
  /\ UNCHANGED <<balance, pageVars, selects, adjusts, saves, changed, lost, touched>>

\* The customer, or a billing webhook, changes the plan.
PlanChanged(t, p) ==
  /\ plan[t] # p /\ changed < MaxChanged
  /\ changed' = changed + 1 /\ plan' = [plan EXCEPT ![t] = p]
  /\ fresh' = (fresh /\ t # selected)
  /\ calls' = Overtaken(t, p, calls)
  /\ UNCHANGED <<balance, pageVars, reads, asked, selects, adjusts, saves, lost, touched, adrift,
                 spoiled>>

-----------------------------------------------------------------------------
Next ==
  \/ (\E r \in reads : setTenants(r))
  \/ (\E r \in reads : setTenantCredits(r)) \/ (\E r \in reads : ReadFailed(r))
  \/ (\E t \in Tenants : handleSelect(t)) \/ handleAdjust \/ (\E c \in calls : Adjusted(c))
  \/ (\E c \in calls, b \in BOOLEAN : NotAdjusted(c, b))
  \/ (\E p \in Plans : setEditPlan(p)) \/ handleUpdateTenant
  \/ (\E c \in calls : update_tenant(c)) \/ (\E t \in Tenants, p \in Plans : PlanChanged(t, p))

Spec == Init /\ [][Next]_vars

-----------------------------------------------------------------------------
\* Once all is answered the balance shown is that of the tenant selected, with every
\* adjustment made, there and in the roster; unless requests overlapped or were lost.
BalanceShown ==
  reads = {} /\ calls = {} /\ ~adrift =>
    /\ selected # None => tenantCredits = [of |-> selected, balance |-> balance[selected]]
    /\ \A t \in Tenants : tenants[t].balance = balance[t]

\* Saving the form without touching its plan leaves the plan as it is, though the form
\* sends it; unless the plan has changed since the row it was filled from was read.
PlanKept == ~spoiled

\* Because a form that was filled from the plan its tenant has, and not typed in, holds it,
\* and a save that keeps the plan sends the one its tenant still has.
PlanInv ==
  /\ PlanKept
  /\ selected # None /\ fresh /\ ~touched => editPlan = plan[selected]
  /\ \A c \in calls : c.op = "save" /\ c.kept => c.plan = plan[c.of]

\* Unless requests overlapped or were lost, a balance is asked for, and adjusted, for the
\* tenant selected, and what is not asked for again is shown as the server has it.
BalanceInv ==
  ~adrift =>
    /\ \A r \in reads : r.of \in {selected, None}
    /\ \A c \in calls : c.op = "adjust" => c.of = selected
    /\ (\A r \in reads : r.of # None) => \A t \in Tenants : tenants[t].balance = balance[t]
    /\ selected # None /\ (\A r \in reads : r.of = None) =>
         tenantCredits = [of |-> selected, balance |-> balance[selected]]
=============================================================================
