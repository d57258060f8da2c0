---------------------------- MODULE Shown_proofs ----------------------------
(***************************************************************************)
(* The theorem that a form, once it has come to rest, shows what the       *)
(* server has: the access list of a listing, the list of listings, the     *)
(* balance of a tenant, the brand kit, the social accounts, the team, the  *)
(* audit log and the dashboard.  Every page loads again after it has       *)
(* changed something; what can go wrong is that an answer is of another    *)
(* request than the one the page waits for, so each invariant says what is *)
(* under way and what it carries.  The audit log grows at any place while  *)
(* its pages are read by offset: a row is only ever pushed down, so no     *)
(* page leaves out one that was there.                                     *)
(*                                                                         *)
(* And the theorem that every form keeps its variables in their types,     *)
(* from the lemmas of Types_proofs and, for the pages whose types need the *)
(* invariants of this module or of Forms_proofs, from those at its end.    *)
(***************************************************************************)
EXTENDS Forms_proofs, Types_proofs

\* A panel that was never opened shows nothing,
LEMMA AccessInvInit ==
  ASSUME Share!Init
  PROVE  Share!AccessInv
BY DEF Share!Init, Share!AccessInv

\* and every step leaves the list shown, or on its way, the server's.
LEMMA AccessInvStep ==
  ASSUME Share!AccessInv, Share!Next
  PROVE  Share!AccessInv'
<1>. USE DEF Share!panelVars, Share!historyVars, Share!Busy
<1>0. ~v12 =>
        /\ v6 = {} \/ v7 = {}
        /\ (\A k, l \in v6 : k = l) /\ \A q, r \in v7 : q = r
        /\ \A l \in v6 : l.got = v1
        /\ v6 = {} /\ v10 > 0 => v3 = v1
  BY DEF Share!AccessInv
<1>r. ASSUME ~v12' => /\ v6' = {} \/ v7' = {}
                      /\ (\A k, l \in v6' : k = l) /\ \A q, r \in v7' : q = r
                      /\ \A l \in v6' : l.got = v1'
                      /\ v6' = {} /\ v10' > 0 => v3' = v1'
      PROVE  Share!AccessInv'
  BY <1>r DEF Share!AccessInv
<1>1. CASE Share!Open
  <2>. DEFINE l == [n |-> v10 + 1, got |-> v1]
  <2>1. v6' = v6 \cup {l} /\ v12' = (v12 \/ v6 # {} \/ v7 # {}) /\ UNCHANGED <<v1, v3, v7>>
    BY <1>1 DEF Share!Open, Share!loadPermissions
  <2>2. l.got = v1
    OBVIOUS
  <2>. HIDE DEF l
  <2>. QED
    BY <1>0, <1>r, <2>1, <2>2
<1>2. CASE Share!onClose
  BY <1>0, <1>2, <1>r DEF Share!onClose
<1>3. ASSUME NEW l \in v6, Share!Loaded(l)
      PROVE  Share!AccessInv'
  BY <1>0, <1>3, <1>r DEF Share!Loaded
<1>4. ASSUME NEW l \in v6, Share!LoadFailed(l)
      PROVE  Share!AccessInv'
  BY <1>4, <1>r DEF Share!LoadFailed
<1>5. ASSUME NEW op, NEW id, NEW who, NEW level, Share!Request(op, id, who, level)
      PROVE  Share!AccessInv'
  BY <1>0, <1>5, <1>r DEF Share!Request
<1>6. ASSUME NEW r \in v7, Share!Succeeded(r)
      PROVE  Share!AccessInv'
  <2>1. /\ v1' = Share!Patched(v1, r) /\ v7' = v7 \ {r}
        /\ ~v12' => ~v12
    BY <1>6 DEF Share!Succeeded
  <2>2. CASE r.op = "share"
    <3>. DEFINE l == [n |-> v10', got |-> v1']
    <3>1. v6' = v6 \cup {l}
      BY <1>6, <2>2 DEF Share!Succeeded
    <3>2. l.got = v1'
      OBVIOUS
    <3>. HIDE DEF l
    <3>. QED
      BY <1>0, <1>r, <2>1, <3>1, <3>2
  <2>3. CASE r.op # "share"
    <3>1. v3' = Share!Patched(v3, r) /\ UNCHANGED <<v6, v10>>
      BY <1>6, <2>3 DEF Share!Succeeded
    <3>. QED
      BY <1>0, <1>r, <2>1, <3>1
  <2>. QED
    BY <2>2, <2>3
<1>7. ASSUME NEW r \in v7, NEW b \in BOOLEAN, Share!Failed(r, b)
      PROVE  Share!AccessInv'
  BY <1>0, <1>7, <1>r DEF Share!Failed
<1>. QED
  BY <1>1, <1>2, <1>3, <1>4, <1>5, <1>6, <1>7 DEF Share!Next, Share!handleShare,
     Share!handleRevoke, Share!handleUpdatePermission

\* What every step of the list of listings keeps.
IndexInv ==
  /\ {v2, v10, v16, v17} \subseteq Nat
  /\ \A r \in v13 : DOMAIN r = {"n", "open", "got"} /\ r.got \in Nat
  /\ Index!VisitInv /\ Index!CardInv

\* At first its list is read,
LEMMA IndexInvInit ==
  ASSUME Index!Init
  PROVE  IndexInv
BY DEF Index!Init, IndexInv, Index!VisitInv, Index!CardInv

\* and every step shows what is there, or was when it asked.
LEMMA IndexInvStep ==
  ASSUME IndexInv, Index!Next
  PROVE  IndexInv'
<1>. USE DEF Index!serverVars, Index!cardVars, Index!firstTab, Index!secondTab, Index!historyVars
<1>n. None # "ok" /\ None # "error" /\ None # "pending"
  BY ToldAssumption, ShownAssumption
<1>0. /\ v2 \in Nat /\ v10 \in Nat /\ v16 \in Nat /\ v17 \in Nat
      /\ \A r \in v13 : DOMAIN r = {"n", "open", "got"} /\ r.got \in Nat
      /\ v2 >= v16
      /\ ~v18 => /\ \A r \in v13 : ~r.open => r.got >= v16
                 /\ v13 = {} => v10 >= v16
      /\ v17 = 0 => /\ ~v5 /\ (v12 <=> v4)
                    /\ v14 # None => v8 /\ ~v4
                    /\ ~v4 => v1 = IF v14 = "ok" THEN v3 \ {v7} ELSE v3
  BY DEF IndexInv, Index!VisitInv, Index!CardInv
<1>r. ASSUME v2' \in Nat /\ v10' \in Nat /\ v16' \in Nat /\ v17' \in Nat,
             \A r \in v13' : DOMAIN r = {"n", "open", "got"} /\ r.got \in Nat,
             v2' >= v16',
             ~v18' => /\ \A r \in v13' : ~r.open => r.got >= v16'
                      /\ v13' = {} => v10' >= v16',
             v17' = 0 => /\ ~v5' /\ (v12' <=> v4')
                         /\ v14' # None => v8' /\ ~v4'
                         /\ ~v4' => v1' = IF v14' = "ok" THEN v3' \ {v7'} ELSE v3'
      PROVE  IndexInv'
  BY <1>r DEF IndexInv, Index!VisitInv, Index!CardInv
\* The first tab alone.
<1>a. ASSUME UNCHANGED <<v2, v10, v13, v16, v18>>, v17' \in Nat,
             v17' = 0 => /\ ~v5' /\ (v12' <=> v4')
                         /\ v14' # None => v8' /\ ~v4'
                         /\ ~v4' => v1' = IF v14' = "ok" THEN v3' \ {v7'} ELSE v3'
      PROVE  IndexInv'
  BY <1>0, <1>a, <1>r
\* The second tab alone.
<1>b. ASSUME UNCHANGED <<v1, v3, v4, v5, v7, v8, v12, v14>>,
             v2' \in Nat /\ v10' \in Nat /\ v16' \in Nat,
             v17' = v17 \/ v17' = v17 + 1,
             \A r \in v13' : DOMAIN r = {"n", "open", "got"} /\ r.got \in Nat,
             v2' >= v16',
             ~v18' => /\ \A r \in v13' : ~r.open => r.got >= v16'
                      /\ v13' = {} => v10' >= v16'
      PROVE  IndexInv'
  BY <1>0, <1>b, <1>r
<1>1. ASSUME NEW kit, Index!Loaded(kit)
      PROVE  IndexInv'
  <2>1. /\ v12 /\ v3' = v1 /\ v4' = FALSE /\ v12' = FALSE
        /\ UNCHANGED <<v1, v2, v5, v7, v8, v10, v13, v14, v16, v17, v18>>
    BY <1>1 DEF Index!Loaded
  <2>. QED
    BY <1>0, <1>a, <1>n, <2>1
<1>2. CASE Index!LoadFailed
  <2>1. v17' = v17 + 1 /\ UNCHANGED <<v2, v10, v13, v16, v18>>
    BY <1>2 DEF Index!LoadFailed
  <2>. QED
    BY <1>0, <1>a, <2>1
<1>3. CASE Index!Retry
  <2>1. /\ v5 /\ v13' = {} /\ v10' = 0 /\ v16' = 0 /\ UNCHANGED <<v2, v17>>
    BY <1>3 DEF Index!Retry, Index!ErrorPanel
  <2>. QED
    BY <1>0, <1>r, <2>1
<1>4. ASSUME NEW tab, Index!setActiveTab(tab)
      PROVE  IndexInv'
  <2>1. UNCHANGED <<v1, v2, v3, v4, v5, v7, v8, v10, v12, v14, v17>>
    BY <1>4 DEF Index!setActiveTab
  <2>2. CASE tab = "shared"
    <3>. DEFINE l == [n |-> v15 + 1, open |-> TRUE, got |-> 0]
    <3>1. v13' = v13 \cup {l} /\ v16' = v2 /\ (~v18' => v13 = {})
      BY <1>4, <2>2 DEF Index!setActiveTab
    <3>2. l.open /\ DOMAIN l = {"n", "open", "got"} /\ l.got = 0
      OBVIOUS
    <3>. HIDE DEF l
    <3>3. ~v18' => \A r \in v13' : r = l
      BY <3>1
    <3>. QED
      BY <1>0, <1>b, <2>1, <3>1, <3>2, <3>3
  <2>3. CASE tab # "shared"
    BY <1>0, <1>4, <1>b, <2>1, <2>3 DEF Index!setActiveTab
  <2>. QED
    BY <2>2, <2>3
<1>5. ASSUME NEW r \in v13, Index!getSharedWithMe(r)
      PROVE  IndexInv'
  <2>. DEFINE l == [r EXCEPT !.open = FALSE, !.got = v2]
  <2>1. /\ v13' = (v13 \ {r}) \cup {l}
        /\ UNCHANGED <<v1, v2, v3, v4, v5, v7, v8, v10, v12, v14, v16, v17, v18>>
    BY <1>5 DEF Index!getSharedWithMe
  <2>2. l.got = v2 /\ DOMAIN l = {"n", "open", "got"} /\ v2 \in Nat
    BY <1>0
  <2>. HIDE DEF l
  <2>. QED
    BY <1>0, <1>b, <2>1, <2>2
<1>6. ASSUME NEW r \in v13, Index!setSharedListings(r)
      PROVE  IndexInv'
  BY <1>0, <1>6, <1>b DEF Index!setSharedListings
<1>7. ASSUME NEW r \in v13, Index!SharedFailed(r)
      PROVE  IndexInv'
  BY <1>0, <1>7, <1>b DEF Index!SharedFailed
<1>8. CASE Index!Colleague
  BY <1>0, <1>8, <1>b DEF Index!Colleague
<1>9. ASSUME NEW l, Index!setConfirming(l)
      PROVE  IndexInv'
  <2>1. ~v8 /\ UNCHANGED <<v1, v2, v3, v4, v5, v8, v10, v12, v13, v14, v16, v17, v18>>
    BY <1>9 DEF Index!setConfirming, Index!Bin, Index!DeleteDialog
  <2>. QED
    BY <1>0, <1>a, <1>n, <2>1
<1>10. ASSUME NEW l, Index!setDeleting(l)
       PROVE  IndexInv'
  <2>1. /\ ~v8 /\ ~v4 /\ v8' = TRUE /\ v14' = "pending"
        /\ UNCHANGED <<v1, v2, v3, v4, v5, v7, v10, v12, v13, v16, v17, v18>>
    BY <1>10 DEF Index!setDeleting, Index!DeleteDialog, Index!CardShown
  <2>. QED
    BY <1>0, <1>a, <1>n, <2>1
<1>11. CASE Index!deleteListing
  <2>1. /\ v14 = "pending" /\ v14' = IF v7 \in v1 THEN "ok" ELSE "error"
        /\ v1' = v1 \ {v7}
        /\ UNCHANGED <<v2, v3, v4, v5, v7, v8, v10, v12, v13, v16, v17, v18>>
    BY <1>11 DEF Index!deleteListing
  <2>2. v17 = 0 /\ ~v4 => v1 = v3
    BY <1>0, <2>1
  <2>3. v17 = 0 /\ ~v4 => v1' = IF v14' = "ok" THEN v3 \ {v7} ELSE v3
    <3>1. CASE v7 \in v1
      BY <2>1, <2>2, <3>1
    <3>2. CASE v7 \notin v1
      BY <2>1, <2>2, <3>2
    <3>. QED
      BY <3>1, <3>2
  <2>4. v17 = 0 => ~v5 /\ (v12 <=> v4) /\ (v14' # None => v8 /\ ~v4)
    BY <1>0, <1>n, <2>1
  <2>. QED
    BY <1>0, <1>a, <2>1, <2>3, <2>4
<1>12. CASE Index!DeletionLost
  <2>1. v17' = v17 + 1 /\ UNCHANGED <<v2, v10, v13, v16, v18>>
    BY <1>12 DEF Index!DeletionLost
  <2>. QED
    BY <1>0, <1>a, <2>1
<1>13. CASE Index!onDeleted
  <2>1. /\ v14 = "ok" /\ v3' = v3 \ {v7} /\ v14' = None
        /\ UNCHANGED <<v1, v2, v4, v5, v10, v12, v13, v16, v17, v18>>
    BY <1>13 DEF Index!onDeleted
  <2>. QED
    BY <1>0, <1>a, <1>n, <2>1
<1>14. CASE Index!DeletionFailed
  <2>1. /\ v14 = "error" /\ v14' = None
        /\ UNCHANGED <<v1, v2, v3, v4, v5, v10, v12, v13, v16, v17, v18>>
    BY <1>14 DEF Index!DeletionFailed
  <2>. QED
    BY <1>0, <1>a, <1>n, <2>1
<1>. QED
  BY <1>1, <1>2, <1>3, <1>4, <1>5, <1>6, <1>7, <1>8, <1>9, <1>10, <1>11, <1>12, <1>13, <1>14
     DEF Index!Next

\* Why the balance shown is the one the server has: who is selected, and whose balance is
\* asked for or adjusted.
BalancesInv ==
  /\ DOMAIN v2 = Tenants /\ v5 \in Tenants \cup {None}
  /\ \A c \in v10 : c.op = "adjust" => c.of \in Tenants
  /\ Admin!BalanceInv

\* At first the roster is asked for,
LEMMA BalancesInvInit ==
  ASSUME Admin!Init
  PROVE  BalancesInv
BY DEF Admin!Init, BalancesInv, Admin!BalanceInv

\* an adjustment is not overtaken,
LEMMA AdminAdjusts ==
  ASSUME NEW t, NEW p, NEW cs, \A c \in cs : c.op = "save" => DOMAIN c = SaveFields,
         NEW d \in Admin!Overtaken(t, p, cs), d.op = "adjust"
  PROVE  d \in cs
<1>1. PICK c \in cs :
        d = IF c.op = "save" /\ c.of = t /\ c.plan # p THEN [c EXCEPT !.kept = FALSE] ELSE c
  BY DEF Admin!Overtaken
<1>2. CASE c.op = "save" /\ c.of = t /\ c.plan # p
  <2>1. "op" \in DOMAIN c /\ d = [c EXCEPT !.kept = FALSE]
    BY <1>1, <1>2 DEF SaveFields
  <2>. QED
    BY <1>2, <2>1
<1>. QED
  BY <1>1, <1>2

\* and every step asks again for the balance it changes.
LEMMA BalancesInvStep ==
  ASSUME AdminInv, BalancesInv, Admin!Next
  PROVE  BalancesInv'
<1>. USE DEF Admin!serverVars, Admin!pageVars, Admin!counters
<1>0. /\ DOMAIN v2 = Tenants /\ v5 \in Tenants \cup {None} /\ None \notin Tenants
      /\ \A c \in v10 : c.op = "adjust" => c.of \in Tenants
      /\ \A c \in v10 : c.op = "save" => DOMAIN c = SaveFields
      /\ ~v19 => /\ \A r \in v9 : r.of \in {v5, None}
                 /\ \A c \in v10 : c.op = "adjust" => c.of = v5
                 /\ (\A r \in v9 : r.of # None) => \A t \in Tenants : v4[t].balance = v2[t]
                 /\ v5 # None /\ (\A r \in v9 : r.of = None) =>
                      v6 = [of |-> v5, balance |-> v2[v5]]
  BY ShownAssumption DEF AdminInv, BalancesInv, Admin!BalanceInv
<1>r. ASSUME DOMAIN v2' = Tenants, v5' \in Tenants \cup {None},
             \A c \in v10' : c.op = "adjust" => c.of \in Tenants,
             ~v19' => /\ \A r \in v9' : r.of \in {v5', None}
                      /\ \A c \in v10' : c.op = "adjust" => c.of = v5'
                      /\ (\A r \in v9' : r.of # None) => \A t \in Tenants : v4'[t].balance = v2'[t]
                      /\ v5' # None /\ (\A r \in v9' : r.of = None) =>
                           v6' = [of |-> v5', balance |-> v2'[v5']]
      PROVE  BalancesInv'
  BY <1>r DEF BalancesInv, Admin!BalanceInv
<1>s. ASSUME UNCHANGED <<v2, v4, v5, v6, v9>>, ~v19' => ~v19,
             \A c \in v10' : c.op = "adjust" => c \in v10
      PROVE  BalancesInv'
  BY <1>0, <1>r, <1>s
<1>1. ASSUME NEW r \in v9, Admin!setTenants(r)
      PROVE  BalancesInv'
  <2>1. /\ r.of = None /\ v9' = v9 \ {r} /\ UNCHANGED <<v2, v5, v6, v10, v19>>
        /\ \A t \in Tenants : v4'[t].balance = v2[t]
    BY <1>1 DEF Admin!setTenants, Admin!adminRead
  <2>. QED
    BY <1>0, <1>r, <2>1
<1>2. ASSUME NEW r \in v9, Admin!setTenantCredits(r)
      PROVE  BalancesInv'
  <2>1. /\ r.of # None /\ v9' = v9 \ {r} /\ UNCHANGED <<v2, v4, v5, v10, v19>>
        /\ v6' = [of |-> r.of, balance |-> v2[r.of]]
    BY <1>2 DEF Admin!setTenantCredits, Admin!adminRead
  <2>. QED
    BY <1>0, <1>r, <2>1
<1>3. ASSUME NEW r \in v9, Admin!ReadFailed(r)
      PROVE  BalancesInv'
  BY <1>0, <1>3, <1>r DEF Admin!ReadFailed
<1>4. ASSUME NEW t \in Tenants, Admin!handleSelect(t)
      PROVE  BalancesInv'
  <2>. DEFINE a == Admin!Ask(1, t)
  <2>1. /\ UNCHANGED <<v2, v4, v6, v10>> /\ v5' = t /\ v9' = v9 \cup {a}
        /\ ~v19' => ~v19 /\ v10 = {} /\ ~Admin!Overlaps(t)
    BY <1>4 DEF Admin!handleSelect
  <2>2. a.of = t /\ t # None
    BY <1>0 DEF Admin!Ask
  <2>3. ~Admin!Overlaps(t) => \A r \in v9 : r.of = None
    BY <2>2 DEF Admin!Overlaps
  <2>. HIDE DEF a
  <2>. QED
    BY <1>0, <1>r, <2>1, <2>2, <2>3
<1>5. CASE Admin!handleAdjust
  <2>. DEFINE c == [op |-> "adjust", n |-> v13 + 1, of |-> v5]
  <2>1. /\ UNCHANGED <<v2, v4, v5, v6, v9>> /\ v10' = v10 \cup {c} /\ v5 # None
        /\ ~v19' => ~v19
    BY <1>5 DEF Admin!handleAdjust, Admin!AdjustForm
  <2>2. c.of = v5
    OBVIOUS
  <2>. HIDE DEF c
  <2>. QED
    BY <1>0, <1>r, <2>1, <2>2
<1>6. ASSUME NEW c \in v10, Admin!Adjusted(c)
      PROVE  BalancesInv'
  <2>. DEFINE a == Admin!Ask(1, c.of)
              b == Admin!Ask(2, None)
  <2>1. /\ c.op = "adjust" /\ DOMAIN v2' = DOMAIN v2 /\ v10' = v10 \ {c} /\ UNCHANGED <<v4, v5, v6>>
        /\ v9' = v9 \cup {a, b}
        /\ ~v19' => ~v19 /\ ~Admin!Overlaps(c.of) /\ ~Admin!Overlaps(None)
    BY <1>6 DEF Admin!Adjusted
  <2>2. a.of = c.of /\ b.of = None /\ c.of # None
    BY <1>0, <2>1 DEF Admin!Ask
  <2>. HIDE DEF a, b
  <2>3. ~Admin!Overlaps(c.of) /\ ~Admin!Overlaps(None) => v9 = {}
    BY <2>2 DEF Admin!Overlaps
  <2>. QED
    BY <1>0, <1>r, <2>1, <2>2, <2>3
<1>7. ASSUME NEW c \in v10, NEW acted \in BOOLEAN, Admin!NotAdjusted(c, acted)
      PROVE  BalancesInv'
  <2>1. /\ DOMAIN v2' = DOMAIN v2 /\ v10' = v10 \ {c} /\ UNCHANGED <<v4, v5, v6, v9>>
        /\ ~v19' => ~v19 /\ v2' = v2
    BY <1>7 DEF Admin!NotAdjusted
  <2>. QED
    BY <1>0, <1>r, <2>1
<1>8. ASSUME NEW p \in Plans, Admin!setEditPlan(p)
      PROVE  BalancesInv'
  BY <1>8, <1>s DEF Admin!setEditPlan
<1>9. CASE Admin!handleUpdateTenant
  <2>. DEFINE c == [op |-> "save", n |-> MaxAdjusted + v14 + 1, of |-> v5, plan |-> v8,
                    kept |-> v18 /\ ~v17]
  <2>1. UNCHANGED <<v2, v4, v5, v6, v9>> /\ (~v19' => ~v19) /\ v10' = v10 \cup {c}
    BY <1>9 DEF Admin!handleUpdateTenant
  <2>2. c.op = "save"
    OBVIOUS
  <2>. HIDE DEF c
  <2>. QED
    BY <1>s, <2>1, <2>2
<1>10. ASSUME NEW c \in v10, Admin!update_tenant(c)
       PROVE  BalancesInv'
  <2>. DEFINE a == Admin!Ask(1, None)
  <2>1. /\ UNCHANGED <<v2, v4, v5, v6>> /\ v9' = v9 \cup {a}
        /\ v10' = Admin!Overtaken(c.of, c.plan, v10 \ {c})
        /\ ~v19' => ~v19
    BY <1>10 DEF Admin!update_tenant
  <2>2. a.of = None
    BY DEF Admin!Ask
  <2>3. \A d \in v10' : d.op = "adjust" => d \in v10
    BY <1>0, <2>1, AdminAdjusts
  <2>. HIDE DEF a
  <2>. QED
    BY <1>0, <1>r, <2>1, <2>2, <2>3
<1>11. ASSUME NEW t \in Tenants, NEW p \in Plans, Admin!PlanChanged(t, p)
       PROVE  BalancesInv'
  <2>1. /\ UNCHANGED <<v2, v4, v5, v6, v9, v19>> /\ v10' = Admin!Overtaken(t, p, v10)
    BY <1>11 DEF Admin!PlanChanged
  <2>2. \A d \in v10' : d.op = "adjust" => d \in v10
    BY <1>0, <2>1, AdminAdjusts
  <2>. QED
    BY <1>s, <2>1, <2>2
<1>. QED
  BY <1>1, <1>2, <1>3, <1>4, <1>5, <1>6, <1>7, <1>8, <1>9, <1>10, <1>11 DEF Admin!Next

\* A form that says nothing is saved holds nothing to compare,
LEMMA SavedInvInit ==
  ASSUME Brand!Init
  PROVE  Brand!SavedInv
BY DEF Brand!Init, Brand!SavedInv, Brand!SavedIsShown

\* and every step leaves a save that carries the form, or a form changed since.
LEMMA SavedInvStep ==
  ASSUME Brand!SavedInv, Brand!Next
  PROVE  Brand!SavedInv'
<1>. USE DEF Brand!formVars, Brand!pictureVars, Brand!saveVars, Brand!history
<1>0. /\ v2 => ~v8 /\ ~v9
      /\ v8 => ~v9
      /\ v8 /\ ~v19 => \A f \in Brand!FormKeys : v10[f] = v3[f]
      /\ v9 /\ ~v19 => \A f \in Brand!FormKeys : v1[f] = v3[f] \/ (f = "logo" /\ v3[f] = 0)
  BY DEF Brand!SavedInv, Brand!SavedIsShown
<1>r. ASSUME v2' => ~v8' /\ ~v9', v8' => ~v9',
             v8' /\ ~v19' => \A f \in Brand!FormKeys : v10'[f] = v3'[f],
             v9' /\ ~v19' => \A f \in Brand!FormKeys : v1'[f] = v3'[f] \/ (f = "logo" /\ v3'[f] = 0)
      PROVE  Brand!SavedInv'
  BY <1>r DEF Brand!SavedInv, Brand!SavedIsShown
<1>1. CASE Brand!Loaded \/ Brand!NotLoaded
  <2>1. v2 /\ v2' = FALSE /\ UNCHANGED <<v8, v9>>
    BY <1>1 DEF Brand!Loaded, Brand!NotLoaded
  <2>. QED
    BY <1>0, <1>r, <2>1
<1>2. ASSUME v19' = TRUE, UNCHANGED <<v2, v8, v9>>
      PROVE  Brand!SavedInv'
  BY <1>0, <1>2, <1>r
<1>3. ASSUME NEW f, \/ Brand!type(f) \/ Brand!remove(f)
                    \/ f \in v7 /\ Brand!uploadToS3(f)
      PROVE  Brand!SavedInv'
  BY <1>2, <1>3 DEF Brand!type, Brand!remove, Brand!uploadToS3, Brand!setForm
<1>4. ASSUME NEW k, Brand!upload(k) \/ Brand!NotUploaded(k)
      PROVE  Brand!SavedInv'
  <2>1. UNCHANGED <<v1, v2, v3, v8, v9, v10, v19>>
    BY <1>4 DEF Brand!upload, Brand!NotUploaded
  <2>. QED
    BY <1>0, <1>r, <2>1
<1>5. CASE Brand!handleSave
  <2>1. ~v2 /\ v8' = TRUE /\ v9' = FALSE /\ v10' = Brand!Body /\ UNCHANGED <<v2, v3>>
    BY <1>5 DEF Brand!handleSave, Brand!SaveButton, Brand!FormShown
  <2>2. \A f \in Brand!FormKeys : Brand!Body[f] = v3[f]
    BY ShownAssumption DEF Brand!Body, Brand!FormKeys, Brand!Texts
  <2>. QED
    BY <1>r, <2>1, <2>2
<1>6. CASE Brand!Saved
  <2>1. v8 /\ v1' = Brand!upsert_brand_kit(v10) /\ v8' = FALSE /\ UNCHANGED <<v2, v3, v19>>
    BY <1>6 DEF Brand!Saved
  <2>2. \A f \in Brand!FormKeys : v1'[f] = v10[f] \/ (f = "logo" /\ v10[f] = 0)
    BY <2>1 DEF Brand!upsert_brand_kit
  <2>. QED
    BY <1>0, <1>r, <2>1, <2>2
<1>7. CASE \E b \in BOOLEAN : Brand!NotSaved(b)
  <2>1. v8 /\ v8' = FALSE /\ UNCHANGED <<v2, v9>>
    BY <1>7 DEF Brand!NotSaved
  <2>. QED
    BY <1>0, <1>r, <2>1
<1>8. CASE Brand!SavedFades
  <2>1. v9' = FALSE /\ UNCHANGED <<v2, v3, v8, v10, v19>>
    BY <1>8 DEF Brand!SavedFades
  <2>. QED
    BY <1>0, <1>r, <2>1
<1>. QED
  BY <1>1, <1>3, <1>4, <1>5, <1>6, <1>7, <1>8 DEF Brand!Next

\* The section of social accounts starts with one handler, its first read,
LEMMA ShownInvInit ==
  ASSUME Accounts!Init
  PROVE  Accounts!ShownInv
<1>1. \A w \in v7 : w.stage = "load" /\ \A u \in v7 : u = w
  BY DEF Accounts!Init
<1>2. v7 # {}
  BY DEF Accounts!Init
<1>. QED
  BY <1>1, <1>2 DEF Accounts!ShownInv, Accounts!AccountsShown

\* and every step has one handler at most, which reads what is stored, or goes adrift.
LEMMA ShownInvStep ==
  ASSUME AccountsInv, Accounts!ShownInv, Accounts!Next
  PROVE  Accounts!ShownInv'
<1>. USE DEF Accounts!serverVars, Accounts!pageVars
<1>0. /\ \A w \in v7 : DOMAIN w = {"n", "op", "of", "id", "name", "stage", "got", "alone"}
      /\ ~v12 => /\ \A u, w \in v7 : u = w
                 /\ \A w \in v7 : w.stage = "show" => w.got = v1
                 /\ v7 = {} => v3 = v1
  BY DEF AccountsInv, Accounts!ShownInv, Accounts!AccountsShown
<1>r. ASSUME ~v12' => /\ \A u, w \in v7' : u = w
                      /\ \A w \in v7' : w.stage = "show" => w.got = v1'
                      /\ v7' = {} => v3' = v1'
      PROVE  Accounts!ShownInv'
  BY <1>r DEF Accounts!ShownInv, Accounts!AccountsShown
\* A handler that goes on.
<1>w. ASSUME NEW w \in v7, NEW d, v7' = (v7 \ {w}) \cup {d}, v12' = v12,
             d.stage = "show" => d.got = v1'
      PROVE  Accounts!ShownInv'
  BY <1>0, <1>r, <1>w
<1>1. ASSUME NEW p, NEW n, Accounts!setInput(p, n)
      PROVE  Accounts!ShownInv'
  BY <1>0, <1>1, <1>r DEF Accounts!setInput
<1>2. ASSUME NEW p, NEW op, NEW name, NEW stage \in {"delete", "create"},
             Accounts!start(p, op, name, stage)
      PROVE  Accounts!ShownInv'
  <2>. DEFINE new == [n |-> v8 + 1, op |-> op, of |-> p, id |-> Accounts!IdOf(p), name |-> name,
                      stage |-> stage, got |-> None, alone |-> Accounts!OfPlatform(p) = {}]
              not(w) == IF w.of = p THEN [w EXCEPT !.alone = FALSE] ELSE w
  <2>1. v7' = {not(w) : w \in v7} \cup {new}
    BY <1>2 DEF Accounts!start
  <2>2. ~v12' => v7 = {}
    BY <1>2 DEF Accounts!start
  <2>3. new.stage # "show"
    BY <1>2
  <2>. HIDE DEF new, not
  <2>. QED
    BY <1>r, <2>1, <2>2, <2>3
<1>3. ASSUME NEW p, Accounts!handleSave(p) \/ Accounts!handleRemove(p)
      PROVE  Accounts!ShownInv'
  BY <1>2, <1>3 DEF Accounts!handleSave, Accounts!handleRemove
<1>4. ASSUME NEW w \in v7, Accounts!delete_social_account(w)
      PROVE  Accounts!ShownInv'
  <2>. DEFINE st == IF w.op = "save" THEN "create" ELSE "load"
              d == [w EXCEPT !.stage = st]
  <2>1. v7' = (v7 \ {w}) \cup {d} /\ v12' = v12
    BY <1>4 DEF Accounts!delete_social_account, Accounts!Step
  <2>2. d.stage # "show"
    BY <1>0
  <2>. HIDE DEF d
  <2>. QED
    BY <1>w, <2>1, <2>2
<1>5. ASSUME NEW w \in v7, NEW acted,
             Accounts!NotFound(w) \/ Accounts!CallFailed(w, acted) \/ Accounts!NotLoaded(w)
      PROVE  Accounts!ShownInv'
  BY <1>5, <1>r DEF Accounts!NotFound, Accounts!CallFailed, Accounts!NotLoaded
<1>6. ASSUME NEW w \in v7, Accounts!create_or_update(w)
      PROVE  Accounts!ShownInv'
  <2>. DEFINE d == [w EXCEPT !.stage = "load"]
  <2>1. v7' = (v7 \ {w}) \cup {d} /\ v12' = v12
    BY <1>6 DEF Accounts!create_or_update, Accounts!Step
  <2>2. d.stage # "show"
    BY <1>0
  <2>. HIDE DEF d
  <2>. QED
    BY <1>w, <2>1, <2>2
<1>7. ASSUME NEW w \in v7, Accounts!list_social_accounts(w)
      PROVE  Accounts!ShownInv'
  <2>. DEFINE d == [w EXCEPT !.stage = "show", !.got = v1]
  <2>1. v7' = (v7 \ {w}) \cup {d} /\ v1' = v1 /\ v12' = v12
    BY <1>7 DEF Accounts!list_social_accounts
  <2>2. d.got = v1
    BY <1>0
  <2>. HIDE DEF d
  <2>. QED
    BY <1>w, <2>1, <2>2
<1>8. ASSUME NEW w \in v7, Accounts!Loaded(w)
      PROVE  Accounts!ShownInv'
  <2>1. /\ w.stage = "show" /\ v3' = w.got /\ v7' = v7 \ {w} /\ UNCHANGED <<v1, v12>>
    BY <1>8 DEF Accounts!Loaded, Accounts!Finish
  <2>. QED
    BY <1>0, <1>r, <2>1
<1>. QED
  BY <1>1, <1>3, <1>4, <1>5, <1>6, <1>7, <1>8 DEF Accounts!Next

\* The fields of a change of the team and of a load of its page,
TeamChange(c) == c.p \in People /\ DOMAIN c = {"n", "p", "to", "step", "old"}
TeamFetch(f) == DOMAIN f = {"n", "unread", "read", "team"} /\ DOMAIN f.read = People

\* and what every step of the page keeps.
TeamRowsInv ==
  /\ DOMAIN v1 = People /\ DOMAIN v2 = People /\ DOMAIN v4 = People
  /\ v8 \in People \cup {None}
  /\ (\A c \in v10 : TeamChange(c)) /\ (\A f \in v11 : TeamFetch(f))
  /\ Team!TeamInv

\* The page starts with a load,
LEMMA TeamRowsInvInit ==
  ASSUME Team!Init
  PROVE  TeamRowsInv
<1>1. TeamFetch(Team!NewFetch(0)) /\ ~Team!NewFetch(0).team
  BY DEF TeamFetch, Team!NewFetch, Team!Nothing
<1>2. /\ DOMAIN v1 = People /\ DOMAIN v2 = People /\ DOMAIN v4 = People /\ v8 = None
      /\ v10 = {} /\ v11 = {Team!NewFetch(0)}
  BY DEF Team!Init, Team!Teams, Team!Nothing
<1>. HIDE DEF Team!NewFetch
<1>. QED
  BY <1>1, <1>2 DEF TeamRowsInv, Team!TeamInv

\* and every step has one request under way, or goes adrift.
LEMMA TeamRowsInvStep ==
  ASSUME TeamRowsInv, Team!Next
  PROVE  TeamRowsInv'
<1>. USE DEF Team!serverVars, Team!modalVars, Team!historyVars
<1>. DEFINE Grants(f) == f.team =>
              v3 = v1 /\ \A p \in People \ f.unread : v1[p] # None => f.read[p] = v2[p]
            Rows == v3 = v1 /\ \A p \in People :
              v1[p] # None /\ (\A c \in v10 : c.step = "create" => c.p # p) => v4[p] = v2[p]
<1>0. /\ DOMAIN v1 = People /\ DOMAIN v2 = People /\ DOMAIN v4 = People
      /\ v8 \in People \cup {None}
      /\ (\A c \in v10 : TeamChange(c)) /\ (\A f \in v11 : TeamFetch(f))
      /\ ~v14 => /\ v10 = {} \/ v11 = {}
                 /\ (\A c, d \in v10 : c = d) /\ \A f, g \in v11 : f = g
                 /\ \A f \in v11 : Grants(f)
                 /\ v11 = {} => Rows
  BY DEF TeamRowsInv, Team!TeamInv, Team!Listed
<1>r. ASSUME DOMAIN v1' = People, DOMAIN v2' = People, DOMAIN v4' = People,
             v8' \in People \cup {None},
             \A c \in v10' : TeamChange(c), \A f \in v11' : TeamFetch(f),
             ~v14' => /\ v10' = {} \/ v11' = {}
                      /\ (\A c, d \in v10' : c = d) /\ \A f, g \in v11' : f = g
                      /\ \A f \in v11' : Grants(f)'
                      /\ v11' = {} => Rows'
      PROVE  TeamRowsInv'
  BY <1>r DEF TeamRowsInv, Team!TeamInv, Team!Listed
<1>. USE DEF TeamChange, TeamFetch
<1>1. ASSUME NEW f \in v11, Team!TeamRead(f)
      PROVE  TeamRowsInv'
  <2>. DEFINE g == [f EXCEPT !.team = TRUE, !.unread = Team!Listed]
  <2>1. v3' = v1 /\ v11' = (v11 \ {f}) \cup {g} /\ UNCHANGED <<v1, v2, v4, v8, v10, v14>>
    BY <1>1 DEF Team!TeamRead
  <2>2. TeamFetch(g) /\ \A p \in People \ g.unread : v1[p] = None
    BY <1>0 DEF Team!Listed
  <2>. HIDE DEF g
  <2>. QED
    BY <1>0, <1>r, <2>1, <2>2
<1>2. ASSUME NEW f \in v11, NEW b, Team!TeamUnread(f, b)
      PROVE  TeamRowsInv'
  <2>. DEFINE g == [f EXCEPT !.team = TRUE]
  <2>1. v14' = TRUE /\ v11' \subseteq v11 \cup {g} /\ UNCHANGED <<v1, v2, v4, v8, v10>>
    BY <1>2 DEF Team!TeamUnread
  <2>2. TeamFetch(g)
    BY <1>0
  <2>. HIDE DEF g
  <2>. QED
    BY <1>0, <1>r, <2>1, <2>2
<1>3. ASSUME NEW f \in v11, NEW p \in People, NEW ok \in BOOLEAN, Team!GrantsRead(f, p, ok)
      PROVE  TeamRowsInv'
  <2>. DEFINE a == IF ok THEN v2[p] ELSE None
              g == [f EXCEPT !.unread = @ \ {p}, !.read[p] = a]
  <2>1. /\ v11' = (v11 \ {f}) \cup {g} /\ UNCHANGED <<v1, v2, v3, v4, v8, v10>>
        /\ ~v14' => ~v14 /\ ok
    BY <1>3 DEF Team!GrantsRead
  <2>2. /\ TeamFetch(g) /\ g.team = f.team /\ g.unread = f.unread \ {p} /\ g.read[p] = a
        /\ \A q \in People : q # p => g.read[q] = f.read[q]
    BY <1>0
  <2>3. ~v14' => a = v2[p]
    BY <2>1
  <2>. HIDE DEF a, g
  <2>4. ASSUME ~v14', NEW h, h = g
        PROVE  Grants(h)'
    <3>1. ~v14 /\ g.read[p] = v2[p]
      BY <2>1, <2>2, <2>3, <2>4
    <3>2. Grants(f)
      BY <1>0, <3>1
    <3>3. /\ h.team = f.team /\ h.unread = f.unread \ {p}
          /\ \A q \in People : h.read[q] = IF q = p THEN v2[p] ELSE f.read[q]
      BY <2>2, <2>4, <3>1
    <3>4. UNCHANGED <<v1, v2, v3>>
      BY <2>1
    <3>. HIDE DEF TeamFetch, TeamChange
    <3>. QED
      BY <3>2, <3>3, <3>4
  <2>. HIDE DEF Grants, Rows, TeamChange, TeamFetch
  <2>. QED
    BY <1>0, <1>r, <2>1, <2>2, <2>4
<1>4. ASSUME NEW f \in v11, Team!Fetched(f)
      PROVE  TeamRowsInv'
  <2>1. /\ f.team /\ f.unread = {} /\ v4' = f.read /\ v11' = v11 \ {f}
        /\ UNCHANGED <<v1, v2, v3, v8, v10, v14>>
    BY <1>4 DEF Team!Fetched
  <2>. QED
    BY <1>0, <1>r, <2>1
\* A change is asked for.
<1>5. ASSUME NEW p \in People, NEW step, NEW to, NEW old, Team!Change(p, step, to, old),
             v8' = v8
      PROVE  TeamRowsInv'
  <2>. DEFINE c == [n |-> v12 + 1, p |-> p, to |-> to, step |-> step, old |-> old]
  <2>1. /\ v10' = v10 \cup {c} /\ UNCHANGED <<v1, v2, v3, v4, v11>>
        /\ ~v14' => ~v14 /\ v10 = {} /\ v11 = {}
    BY <1>5 DEF Team!Change, Team!Busy
  <2>2. TeamChange(c)
    OBVIOUS
  <2>. HIDE DEF c
  <2>. QED
    BY <1>0, <1>5, <1>r, <2>1, <2>2
<1>6. ASSUME NEW p \in People, \/ Team!handleInvite(p)
                               \/ \E r : Team!handleRoleChange(p, r)
                               \/ \E to : Team!handleListingAccessChange(p, to)
      PROVE  TeamRowsInv'
  BY <1>5, <1>6 DEF Team!handleInvite, Team!handleRoleChange, Team!handleListingAccessChange
<1>7. CASE Team!confirmRemove
  <2>1. v8 \in People
    BY <1>0, <1>7 DEF Team!confirmRemove, Team!RemoveDialog
  <2>. QED
    BY <1>5, <1>7, <2>1 DEF Team!confirmRemove
<1>8. ASSUME NEW p \in People, Team!setRemoveTarget(p)
      PROVE  TeamRowsInv'
  <2>1. v8' \in People \cup {None} /\ UNCHANGED <<v1, v2, v3, v4, v10, v11, v14>>
    BY <1>8 DEF Team!setRemoveTarget
  <2>. QED
    BY <1>0, <1>r, <2>1
\* A change ends: it is loaded again, goes on, is patched into the page, or had no effect.
<1>d. ASSUME NEW c \in v10, Team!Done(c)
      PROVE  /\ DOMAIN v1' = People /\ DOMAIN v2' = People
             /\ \A p \in People : p # c.p => v2'[p] = v2[p]
             /\ c.step \in {"revoke", "create"} => v1' = v1
  BY <1>0, <1>d DEF Team!Done
<1>f. ASSUME NEW c \in v10, v10' = v10 \ {c}, v11' = v11 \cup {Team!NewFetch(c.n)},
             DOMAIN v1' = People, DOMAIN v2' = People, v4' = v4,
             v8' \in People \cup {None}, ~v14' => ~v14
      PROVE  TeamRowsInv'
  <2>. DEFINE g == Team!NewFetch(c.n)
  <2>1. TeamFetch(g) /\ ~g.team
    BY DEF Team!NewFetch, Team!Nothing
  <2>2. v11' = v11 \cup {g}
    BY <1>f
  <2>. HIDE DEF g
  <2>. QED
    BY <1>0, <1>f, <1>r, <2>1, <2>2
<1>a. ASSUME NEW c \in v10, NEW ok \in BOOLEAN, Team!DialogsAfter(c, ok)
      PROVE  v8' \in People \cup {None}
  BY <1>0, <1>a DEF Team!DialogsAfter
<1>9. ASSUME NEW c \in v10, Team!Succeeded(c)
      PROVE  TeamRowsInv'
  <2>1. /\ Team!Done(c) /\ Team!DialogsAfter(c, TRUE) /\ UNCHANGED <<v3, v14>>
    BY <1>9 DEF Team!Succeeded
  <2>2. v8' \in People \cup {None}
    BY <1>a, <2>1
  <2>3. CASE c.step = "revoke" /\ c.to # None
    <3>. DEFINE d == [c EXCEPT !.step = "create"]
    <3>1. v10' = (v10 \ {c}) \cup {d} /\ UNCHANGED <<v4, v11>>
      BY <1>9, <2>3 DEF Team!Succeeded
    <3>2. TeamChange(d) /\ d.step = "create" /\ d.p = c.p
      BY <1>0
    <3>. HIDE DEF d
    <3>. QED
      BY <1>0, <1>d, <1>r, <2>1, <2>2, <2>3, <3>1, <3>2
  <2>4. CASE c.step \in {"revoke", "create"} /\ ~(c.step = "revoke" /\ c.to # None)
    <3>1. /\ v10' = v10 \ {c} /\ v11' = v11 /\ v4' = [v4 EXCEPT ![c.p] = v2'[c.p]]
      BY <1>9, <2>4 DEF Team!Succeeded
    <3>. QED
      BY <1>0, <1>d, <1>r, <2>1, <2>2, <2>4, <3>1
  <2>5. CASE c.step \notin {"revoke", "create"}
    <3>1. v10' = v10 \ {c} /\ v11' = v11 \cup {Team!NewFetch(c.n)} /\ v4' = v4
      BY <1>9, <2>5 DEF Team!Succeeded, Team!fetchData
    <3>. QED
      BY <1>d, <1>f, <2>1, <2>2, <3>1
  <2>. QED
    BY <2>3, <2>4, <2>5
<1>10. ASSUME NEW c \in v10, Team!AfterFailure(c), DOMAIN v1' = People, DOMAIN v2' = People,
              ~v14' => ~v14 /\ (c.step \notin {"revoke", "create"} => UNCHANGED <<v1, v2>>)
       PROVE  TeamRowsInv'
  <2>1. v8' \in People \cup {None} /\ v10' = v10 \ {c} /\ UNCHANGED <<v3, v4>>
    BY <1>10, <1>a DEF Team!AfterFailure
  <2>2. CASE c.step \in {"revoke", "create"}
    <3>1. v11' = v11 \cup {Team!NewFetch(c.n)}
      BY <1>10, <2>2 DEF Team!AfterFailure, Team!fetchData
    <3>. QED
      BY <1>10, <1>f, <2>1, <3>1
  <2>3. CASE c.step \notin {"revoke", "create"}
    <3>1. v11' = v11
      BY <1>10, <2>3 DEF Team!AfterFailure
    <3>. QED
      BY <1>0, <1>10, <1>r, <2>1, <2>3, <3>1
  <2>. QED
    BY <2>2, <2>3
<1>11. ASSUME NEW c \in v10, Team!Refused(c) \/ Team!Lost(c)
       PROVE  TeamRowsInv'
  <2>1. /\ Team!AfterFailure(c)
        /\ DOMAIN v1' = People /\ DOMAIN v2' = People
    BY <1>0, <1>11, <1>d DEF Team!Refused, Team!Lost
  <2>2. ~v14' => ~v14 /\ (c.step \notin {"revoke", "create"} => UNCHANGED <<v1, v2>>)
    BY <1>11 DEF Team!Refused, Team!Lost
  <2>. QED
    BY <1>10, <2>1, <2>2
<1>. QED
  BY <1>1, <1>2, <1>3, <1>4, <1>6, <1>7, <1>8, <1>9, <1>11 DEF Team!Next

\* The dashboard counts as everyone does.
LEMMA DashCardinality ==
  ASSUME NEW S
  PROVE  Dash!Cardinality(S) = Cardinality(S)
BY DEF Dash!Cardinality, Cardinality

\* A listing's rank among some is a number from one to how many they are,
LEMMA RankIn ==
  ASSUME NEW S, IsFiniteSet(S), S \subseteq Nat, NEW l \in S
  PROVE  Dash!Rank(l, S) \in 1..Cardinality(S) /\ Cardinality(S) \in Nat
<1>. DEFINE T == {k \in S : k >= l}
<1>1. T \in SUBSET S /\ l \in T
  OBVIOUS
<1>. HIDE DEF T
<1>2. IsFiniteSet(T) /\ Cardinality(T) <= Cardinality(S)
  BY <1>1, FS_Subset
<1>3. Cardinality(T) \in Nat /\ Cardinality(S) \in Nat
  BY <1>2, FS_CardinalityType
<1>4. Cardinality(T) # 0
  BY <1>1, <1>2, FS_EmptySet
<1>5. Dash!Rank(l, S) = Cardinality(T)
  BY DashCardinality DEF Dash!Rank, T
<1>. QED
  BY <1>2, <1>3, <1>4, <1>5

\* an older listing ranks below a newer one,
LEMMA RankFalls ==
  ASSUME NEW S, IsFiniteSet(S), S \subseteq Nat, NEW l \in S, NEW k \in S, k < l
  PROVE  Dash!Rank(l, S) # Dash!Rank(k, S)
<1>. DEFINE T == {j \in S : j >= l}
            U == {j \in S : j >= k}
<1>1. U \in SUBSET S /\ T \in SUBSET U /\ k \in U /\ k \notin T
  <2>1. k \in Nat /\ l \in Nat /\ k >= k /\ ~(k >= l)
    OBVIOUS
  <2>2. \A j \in S : j \in Nat /\ (j >= l => j >= k)
    BY <2>1
  <2>. QED
    BY <2>1, <2>2
<1>. HIDE DEF T, U
<1>2. IsFiniteSet(U)
  BY <1>1, FS_Subset
<1>3. Cardinality(U) # Cardinality(T)
  BY <1>1, <1>2, FS_Subset
<1>. QED
  BY <1>3, DashCardinality DEF Dash!Rank, T, U

\* no two have the same,
LEMMA RankOne ==
  ASSUME NEW S, IsFiniteSet(S), S \subseteq Nat, NEW l \in S, NEW k \in S,
         Dash!Rank(l, S) = Dash!Rank(k, S)
  PROVE  l = k
<1>1. ~(l < k) /\ ~(k < l)
  BY RankFalls
<1>. QED
  BY <1>1

\* and every number is some listing's.
LEMMA RankOnto ==
  ASSUME NEW S, IsFiniteSet(S), S \subseteq Nat, NEW i \in 1..Cardinality(S)
  PROVE  \E l \in S : Dash!Rank(l, S) = i
<1>. DEFINE n == Cardinality(S)
            f == [l \in S |-> Dash!Rank(l, S)]
<1>1. n \in Nat
  BY FS_CardinalityType
<1>2. f \in [S -> 1..n]
  BY RankIn
<1>3. \A l, k \in S : f[l] = f[k] => l = k
  BY RankOne
<1>4. f \in Injection(S, 1..n)
  BY <1>2, <1>3 DEF Injection, IsInjective
<1>5. IsFiniteSet(1..n) /\ Cardinality(1..n) = n
  BY <1>1, FS_Interval
<1>6. f \in Surjection(S, 1..n)
  <2>. HIDE DEF f
  <2>. QED
    BY <1>4, <1>5, FS_Injection
<1>. QED
  BY <1>6 DEF Surjection

\* The newest listings under way, at most as many as are read, are listings of the page.
LEMMA SliceIn ==
  ASSUME NEW f, NEW n
  PROVE  LET S == {l \in Dash!Listings : f[l] \in Dash!activeStates}
         IN  /\ IsFiniteSet(S) /\ S \subseteq Nat
             /\ IsFiniteSet(Dash!slice(S, n)) /\ Dash!slice(S, n) \subseteq S
<1>. DEFINE S == {l \in Dash!Listings : f[l] \in Dash!activeStates}
<1>1. IsFiniteSet(1..MaxCards) /\ 1..MaxCards \subseteq Nat
  <2>1. 1 \in Int /\ MaxCards \in Int
    BY ShownAssumption
  <2>. QED
    BY <2>1, FS_Interval
<1>2. S \in SUBSET (1..MaxCards)
  BY DEF Dash!Listings
<1>3. Dash!slice(S, n) \in SUBSET S
  BY DEF Dash!slice
<1>. HIDE DEF S
<1>4. IsFiniteSet(S) /\ S \subseteq Nat
  BY <1>1, <1>2, FS_Subset
<1>5. IsFiniteSet(Dash!slice(S, n))
  BY <1>3, <1>4, FS_Subset
<1>. QED
  BY <1>3, <1>4, <1>5 DEF S

\* The dashboard starts before its listings are read,
LEMMA BarsInvInit ==
  ASSUME Dash!Init
  PROVE  Dash!BarsInv
BY DEF Dash!Init, Dash!BarsInv

\* and every step keeps the answers with the listings they are of.
LEMMA BarsInvStep ==
  ASSUME Dash!BarsInv, Dash!Next
  PROVE  Dash!BarsInv'
<1>. USE DEF Dash!pageVars, Dash!fetchVars, Dash!cardVars
<1>. DEFINE Of(f) == {l \in Dash!Listings : f[l] \in Dash!activeStates}
<1>0. /\ ~v5 => v6 = "done"
      /\ v6 # "first" =>
           /\ v9 = Dash!slice(Of(v2), READ) /\ DOMAIN v10 = 1..Cardinality(v9)
           /\ \A l \in v9 : v10[Dash!Rank(l, v9)] \in {None, Dash!Failed, l}
      /\ v6 = "done" =>
           \A l \in v9 : v3[l] = IF v10[Dash!Rank(l, v9)] = Dash!Failed THEN None ELSE l
  BY DashCardinality DEF Dash!BarsInv
<1>r. ASSUME ~v5' => v6' = "done",
             v6' # "first" =>
               /\ v9' = Dash!slice(Of(v2'), READ) /\ DOMAIN v10' = 1..Cardinality(v9')
               /\ \A l \in v9' : v10'[Dash!Rank(l, v9')] \in {None, Dash!Failed, l},
             v6' = "done" =>
               \A l \in v9' : v3'[l] = IF v10'[Dash!Rank(l, v9')] = Dash!Failed THEN None ELSE l
      PROVE  Dash!BarsInv'
  BY <1>r, DashCardinality DEF Dash!BarsInv
<1>s. ASSUME UNCHANGED <<v2, v3, v5, v6, v9, v10>>
      PROVE  Dash!BarsInv'
  BY <1>s DEF Dash!BarsInv, Dash!slice, Dash!Rank
\* Every answer has its listing.
<1>f. ASSUME v6 # "first"
      PROVE  IsFiniteSet(v9) /\ v9 \subseteq Nat /\ v9 \subseteq Dash!Listings
  <2>1. v9 = Dash!slice(Of(v2), READ)
    BY <1>0, <1>f
  <2>. QED
    BY <2>1, SliceIn
<1>1. ASSUME NEW ok \in BOOLEAN, \/ Dash!listingsEnd(ok)
                                 \/ \E r \in Dash!Others : Dash!otherEnds(r, ok)
      PROVE  Dash!BarsInv'
  BY <1>1, <1>s DEF Dash!listingsEnd, Dash!otherEnds
<1>2. CASE Dash!allSettled
  <2>1. /\ v6 = "first" /\ v9' = Dash!slice(Of(v2'), READ)
        /\ v10' = [i \in 1..Cardinality(v9') |-> None]
        /\ \/ v9' = {} /\ v6' = "done"
           \/ v6' = "pipelines" /\ v5' = v5
    BY <1>2, DashCardinality DEF Dash!allSettled
  <2>2. IsFiniteSet(v9') /\ v9' \subseteq Nat
    BY <2>1, SliceIn
  <2>3. \A l \in v9' : v10'[Dash!Rank(l, v9')] = None
    BY <2>1, <2>2, RankIn
  <2>. HIDE DEF Of
  <2>. QED
    BY <1>0, <1>r, <2>1, <2>3
<1>3. ASSUME NEW l \in Dash!Listings, NEW ok \in BOOLEAN, Dash!pipelineEnds(l, ok)
      PROVE  Dash!BarsInv'
  <2>1. /\ v6 = "pipelines" /\ l \in v9 /\ UNCHANGED <<v2, v3, v5, v6, v9>>
        /\ v10' = [v10 EXCEPT ![Dash!Rank(l, v9)] = IF ok THEN l ELSE Dash!Failed]
    BY <1>3 DEF Dash!pipelineEnds
  <2>2. \A k \in v9 : v10'[Dash!Rank(k, v9)] \in {None, Dash!Failed, k}
    <3>1. \A k \in v9 : k # l => Dash!Rank(k, v9) # Dash!Rank(l, v9)
      BY <1>f, <2>1, RankOne
    <3>2. Dash!Rank(l, v9) \in DOMAIN v10
      BY <1>0, <1>f, <2>1, RankIn
    <3>. QED
      BY <1>0, <2>1, <3>1, <3>2
  <2>3. Dash!Rank(l, v9)' = Dash!Rank(l, v9)
    BY <2>1
  <2>. HIDE DEF Of
  <2>. QED
    BY <1>0, <1>r, <2>1, <2>2
<1>4. CASE Dash!pipelinesSettled
  <2>1. /\ v6 = "pipelines" /\ v6' = "done" /\ UNCHANGED <<v2, v9, v10>>
        /\ v3' = Dash!BarsOfAnswers /\ \A i \in DOMAIN v10 : v10[i] # None
    BY <1>4 DEF Dash!pipelinesSettled
  <2>2. ASSUME NEW l \in v9
        PROVE  v3'[l] = IF v10[Dash!Rank(l, v9)] = Dash!Failed THEN None ELSE l
    <3>. DEFINE i == Dash!Rank(l, v9)
    <3>1. i \in DOMAIN v10 /\ v10[i] \in {Dash!Failed, l} /\ l \in Dash!Listings
      BY <1>0, <1>f, <2>1, RankIn
    <3>2. \A j \in DOMAIN v10 : Dash!Row(j) \in v9 /\ Dash!Rank(Dash!Row(j), v9) = j
      BY <1>0, <1>f, <2>1, RankOnto DEF Dash!Row
    <3>3. Dash!Row(i) = l
      BY <1>f, <2>1, <3>1, <3>2, RankOne
    <3>4. v3'[l] = IF \E j \in Dash!Fulfilled : Dash!Row(j) = l THEN v10[i] ELSE None
      BY <2>1, <3>1 DEF Dash!BarsOfAnswers
    <3>5. (\E j \in Dash!Fulfilled : Dash!Row(j) = l) <=> v10[i] # Dash!Failed
      BY <3>1, <3>2, <3>3 DEF Dash!Fulfilled
    <3>. HIDE DEF i
    <3>. QED
      BY <3>1, <3>4, <3>5 DEF i
  <2>. HIDE DEF Of
  <2>. QED
    BY <1>0, <1>r, <2>1, <2>2
<1>5. ASSUME NEW l, Dash!setConfirming(l)
      PROVE  Dash!BarsInv'
  BY <1>5, <1>s DEF Dash!setConfirming
<1>6. CASE \/ Dash!setDeleting \/ Dash!deleteListing \/ Dash!DeletionLost \/ Dash!Deleted
           \/ Dash!DeletionFailed
  BY <1>6, <1>s DEF Dash!setDeleting, Dash!deleteListing, Dash!DeletionLost, Dash!Deleted,
     Dash!DeletionFailed
<1>7. ASSUME NEW l, NEW st, Dash!Change(l, st)
      PROVE  Dash!BarsInv'
  BY <1>7, <1>s DEF Dash!Change
<1>. QED
  BY <1>1, <1>2, <1>3, <1>4, <1>5, <1>6, <1>7 DEF Dash!Next

\* The rows drawn are among those read.
LEMMA BarsAreOwn ==
  ASSUME Dash!BarsInv
  PROVE  Dash!BarsOfOwnListing
<1>. DEFINE S == {l \in Dash!Listings : v2[l] \in Dash!activeStates}
<1>1. SUFFICES ASSUME NEW l \in Dash!ActivityRows
               PROVE  /\ l \in v9
                      /\ v3[l] = IF v10[Dash!Rank(l, v9)] = Dash!Failed THEN None ELSE l
  BY DEF Dash!BarsOfOwnListing
<1>2. ~v5 /\ l \in Dash!slice(Dash!activeListings, SHOWN)
  BY DEF Dash!ActivityRows
<1>3. Dash!activeListings = S
  BY ShownAssumption DEF Dash!activeListings, Dash!Known
<1>4. v9 = Dash!slice(S, READ) /\ v6 = "done"
  BY <1>2 DEF Dash!BarsInv
<1>5. IsFiniteSet(S) /\ S \subseteq Nat
  BY SliceIn
<1>. HIDE DEF S
<1>6. l \in S /\ Dash!Rank(l, S) <= SHOWN
  BY <1>2, <1>3 DEF Dash!slice
<1>7. Dash!Rank(l, S) <= READ
  <2>1. Dash!Rank(l, S) \in Int
    <3>1. Dash!Rank(l, S) \in 1..Cardinality(S) /\ Cardinality(S) \in Nat
      BY <1>5, <1>6, RankIn
    <3>. QED
      BY <3>1
  <2>2. SHOWN \in Int /\ READ \in Int /\ SHOWN <= READ
    BY ShownAssumption
  <2>. QED
    BY <1>6, <2>1, <2>2
<1>8. l \in v9
  BY <1>4, <1>6, <1>7 DEF Dash!slice
<1>. QED
  BY <1>4, <1>8 DEF Dash!BarsInv

-----------------------------------------------------------------------------
LEMMA AuditCardinality ==
  ASSUME NEW S
  PROVE  Audit!Cardinality(S) = Cardinality(S)
BY DEF Audit!Cardinality, Cardinality

\* How many numbers of a set come up to one of them; the rows of a log that are of a filter,
\* and how many there are up to one of them.
UpTo(S, i) == Cardinality({j \in S : j <= i})
RowsOf(l, f) == {i \in DOMAIN l : Audit!Matches(l[i], f)}

\* A row's place is a number from one to how many there are,
LEMMA UpToIn ==
  ASSUME NEW S, IsFiniteSet(S), S \subseteq Nat, NEW i \in S
  PROVE  UpTo(S, i) \in 1..Cardinality(S) /\ Cardinality(S) \in Nat
<1>. DEFINE T == {j \in S : j <= i}
<1>1. T \in SUBSET S /\ i \in T
  OBVIOUS
<1>. HIDE DEF T
<1>2. IsFiniteSet(T) /\ Cardinality(T) <= Cardinality(S)
  BY <1>1, FS_Subset
<1>3. Cardinality(T) \in Nat /\ Cardinality(S) \in Nat
  BY <1>2, FS_CardinalityType
<1>4. Cardinality(T) # 0
  BY <1>1, <1>2, FS_EmptySet
<1>. QED
  BY <1>2, <1>3, <1>4 DEF UpTo, T

\* a later row has a later place,
LEMMA UpToRises ==
  ASSUME NEW S, IsFiniteSet(S), S \subseteq Nat, NEW i \in S, NEW k \in S, i < k
  PROVE  UpTo(S, i) < UpTo(S, k)
<1>. DEFINE T == {j \in S : j <= i}
            U == {j \in S : j <= k}
<1>1. T \in SUBSET U /\ U \in SUBSET S /\ k \in U /\ k \notin T
  <2>1. i \in Nat /\ k \in Nat /\ k <= k /\ ~(k <= i)
    OBVIOUS
  <2>2. \A j \in S : j \in Nat /\ (j <= i => j <= k)
    BY <2>1
  <2>. QED
    BY <2>1, <2>2
<1>. HIDE DEF T, U
<1>2. IsFiniteSet(U) /\ IsFiniteSet(T)
  BY <1>1, FS_Subset
<1>3. Cardinality(T) <= Cardinality(U) /\ Cardinality(U) # Cardinality(T)
  BY <1>1, <1>2, FS_Subset
<1>4. Cardinality(T) \in Nat /\ Cardinality(U) \in Nat
  BY <1>2, FS_CardinalityType
<1>. QED
  BY <1>3, <1>4 DEF UpTo, T, U

\* and every place is one row's.
LEMMA UpToOnto ==
  ASSUME NEW S, IsFiniteSet(S), S \subseteq Nat, NEW n \in 1..Cardinality(S)
  PROVE  \E i \in S : UpTo(S, i) = n /\ \A k \in S : UpTo(S, k) = n => k = i
<1>. DEFINE c == Cardinality(S)
            f == [i \in S |-> UpTo(S, i)]
<1>1. c \in Nat
  BY FS_CardinalityType
<1>2. f \in [S -> 1..c]
  BY UpToIn
<1>3. ASSUME NEW i \in S, NEW k \in S, UpTo(S, i) = UpTo(S, k)
      PROVE  i = k
  <2>1. i \in Nat /\ k \in Nat
    OBVIOUS
  <2>2. UpTo(S, i) \in Nat
    <3>1. UpTo(S, i) \in 1..Cardinality(S)
      BY UpToIn
    <3>. QED
      BY <3>1
  <2>3. i < k => UpTo(S, i) < UpTo(S, k)
    BY UpToRises
  <2>4. k < i => UpTo(S, k) < UpTo(S, i)
    BY UpToRises
  <2>. QED
    BY <1>3, <2>1, <2>2, <2>3, <2>4
<1>4. f \in Injection(S, 1..c)
  BY <1>2, <1>3 DEF Injection, IsInjective
<1>5. IsFiniteSet(1..c) /\ Cardinality(1..c) = c
  BY <1>1, FS_Interval
<1>6. f \in Surjection(S, 1..c)
  <2>. HIDE DEF f
  <2>. QED
    BY <1>4, <1>5, FS_Injection
<1>7. PICK i \in S : f[i] = n
  BY <1>6 DEF Surjection
<1>. QED
  BY <1>3, <1>7

\* The rows of a filter are finitely many numbers.
LEMMA RowsFinite ==
  ASSUME NEW l \in Seq(Audit!Entries), NEW f
  PROVE  IsFiniteSet(RowsOf(l, f)) /\ RowsOf(l, f) \subseteq Nat
<1>1. DOMAIN l = 1..Len(l) /\ Len(l) \in Nat
  OBVIOUS
<1>2. IsFiniteSet(1..Len(l)) /\ RowsOf(l, f) \in SUBSET (1..Len(l))
  BY <1>1, FS_Interval DEF RowsOf
<1>. QED
  BY <1>2, FS_Subset

\* A page has the rows of its filter in the places after its offset, and none beyond it.
LEMMA PageHas ==
  ASSUME v1 \in Seq(Audit!Entries), NEW f, NEW o \in Nat
  PROVE  LET p == Audit!admin_audit_log(f, o)
         IN  /\ p \in Seq(Audit!Entries) /\ Len(p) <= PAGE
             /\ \A e \in Audit!ToSet(p) : \E i \in Audit!Rows(f) :
                  e = v1[i] /\ Audit!Place(i, f) <= o + PAGE
             /\ \A i \in Audit!Rows(f) :
                  Audit!Place(i, f) \in (o + 1)..(o + PAGE) => v1[i] \in Audit!ToSet(p)
<1>. DEFINE S == Audit!Rows(f)
            left == Cardinality(S) - o
            c == IF PAGE < left THEN PAGE ELSE left
            Nth(n) == Audit!Nth(n, f)
            p == [k \in 1..c |-> v1[Nth(o + k)]]
<1>1. PAGE \in Nat
  BY ShownAssumption
<1>2. IsFiniteSet(S) /\ S \subseteq Nat /\ Cardinality(S) \in Nat
  BY RowsFinite, FS_CardinalityType DEF RowsOf, Audit!Rows
<1>3. \A i : Audit!Place(i, f) = UpTo(S, i)
  BY AuditCardinality DEF Audit!Place, UpTo
<1>4. Audit!admin_audit_log(f, o) = p
  <2>1. Audit!Cardinality(S) = Cardinality(S)
    BY AuditCardinality
  <2>. QED
    BY <2>1 DEF Audit!admin_audit_log
<1>5. S \subseteq DOMAIN v1
  BY DEF Audit!Rows
<1>n. \A n : (\E i \in S : UpTo(S, i) = n) => Nth(n) \in S /\ UpTo(S, Nth(n)) = n
  BY <1>3 DEF Audit!Nth
<1>. HIDE DEF S, Nth
<1>6. \A n \in 1..Cardinality(S) : Nth(n) \in S /\ UpTo(S, Nth(n)) = n
  <2>1. TAKE n \in 1..Cardinality(S)
  <2>2. \E i \in S : UpTo(S, i) = n /\ \A k \in S : UpTo(S, k) = n => k = i
    BY <1>2, UpToOnto
  <2>. QED
    BY <1>n, <2>2
<1>7. \A i \in S : UpTo(S, i) \in 1..Cardinality(S) /\ Nth(UpTo(S, i)) = i
  <2>1. TAKE i \in S
  <2>2. UpTo(S, i) \in 1..Cardinality(S)
    BY <1>2, UpToIn
  <2>3. PICK k \in S : UpTo(S, k) = UpTo(S, i) /\ \A q \in S : UpTo(S, q) = UpTo(S, i) => q = k
    BY <1>2, <2>2, UpToOnto
  <2>4. k = i
    BY <2>3
  <2>5. Nth(UpTo(S, i)) \in S /\ UpTo(S, Nth(UpTo(S, i))) = UpTo(S, i)
    BY <1>n
  <2>. QED
    BY <2>2, <2>3, <2>4, <2>5
<1>8. c \in Int /\ c <= PAGE /\ c <= left
  BY <1>1, <1>2
<1>9. \A k \in 1..c : o + k \in 1..Cardinality(S) /\ k <= PAGE
  BY <1>1, <1>2
<1>10. \A k \in 1..c : v1[Nth(o + k)] \in Audit!Entries
  BY <1>5, <1>6, <1>9
<1>11. p \in Seq(Audit!Entries) /\ Len(p) <= PAGE /\ DOMAIN p = 1..c
  <2>1. CASE c >= 0
    <3>1. c \in Nat
      BY <1>8, <2>1
    <3>. HIDE DEF c
    <3>. QED
      BY <1>8, <1>10, <3>1
  <2>2. CASE c < 0
    <3>1. 1..c = 1..0
      BY <1>8, <2>2
    <3>. HIDE DEF c
    <3>2. p = [k \in 1..0 |-> v1[Nth(o + k)]]
      BY <3>1
    <3>3. p \in [1..0 -> Audit!Entries]
      <4>1. \A k \in 1..0 : FALSE
        OBVIOUS
      <4>. HIDE DEF p
      <4>. QED
        BY <3>2, <4>1
    <3>4. p \in Seq(Audit!Entries) /\ Len(p) = 0 /\ DOMAIN p = 1..0
      <4>. HIDE DEF p
      <4>. QED
        BY <3>3
    <3>. HIDE DEF p
    <3>. QED
      BY <1>1, <3>1, <3>4
  <2>. HIDE DEF p
  <2>3. c >= 0 \/ c < 0
    BY <1>8
  <2>. QED
    BY <2>1, <2>2, <2>3
<1>12. ASSUME NEW e \in Audit!ToSet(p)
       PROVE  \E i \in S : e = v1[i] /\ UpTo(S, i) <= o + PAGE
  <2>1. PICK k \in 1..c : e = v1[Nth(o + k)]
    BY <1>11 DEF Audit!ToSet
  <2>2. Nth(o + k) \in S /\ UpTo(S, Nth(o + k)) = o + k /\ o + k <= o + PAGE
    BY <1>1, <1>6, <1>8, <1>9
  <2>. QED
    BY <2>1, <2>2
<1>13. ASSUME NEW i \in S, UpTo(S, i) \in (o + 1)..(o + PAGE)
       PROVE  v1[i] \in Audit!ToSet(p)
  <2>. DEFINE k == UpTo(S, i) - o
  <2>1. k \in 1..c /\ o + k = UpTo(S, i)
    BY <1>1, <1>2, <1>7, <1>13
  <2>2. p[k] = v1[i]
    BY <1>7, <2>1
  <2>. QED
    BY <1>11, <2>1, <2>2 DEF Audit!ToSet
<1>. HIDE DEF p
<1>. QED
  BY <1>3, <1>4, <1>11, <1>12, <1>13 DEF S

\* The places of a log's rows are in the order of the rows.
LEMMA Places ==
  ASSUME v1 \in Seq(Audit!Entries), NEW f
  PROVE  \A i \in Audit!Rows(f) :
           /\ Audit!Place(i, f) \in Nat \ {0}
           /\ \A k \in Audit!Rows(f) : i < k => Audit!Place(i, f) < Audit!Place(k, f)
<1>. DEFINE S == Audit!Rows(f)
<1>1. IsFiniteSet(S) /\ S \subseteq Nat
  BY RowsFinite DEF RowsOf, Audit!Rows
<1>2. \A i : Audit!Place(i, f) = UpTo(S, i)
  BY AuditCardinality DEF Audit!Place, UpTo
<1>. HIDE DEF S
<1>3. ASSUME NEW i \in S
      PROVE  UpTo(S, i) \in Nat \ {0}
  <2>1. UpTo(S, i) \in 1..Cardinality(S)
    BY <1>1, UpToIn
  <2>. QED
    BY <2>1
<1>4. ASSUME NEW i \in S, NEW k \in S, i < k
      PROVE  UpTo(S, i) < UpTo(S, k)
  BY <1>1, <1>4, UpToRises
<1>. QED
  BY <1>2, <1>3, <1>4 DEF S

\* What is put into a log keeps the rows that were there in their order, in places that
\* are not before those they had.
Moved(i, j) == IF j < i THEN j ELSE j + 1
RowsKept(l, i, e, m) ==
  /\ m \in Seq(Audit!Entries) /\ Len(m) = Len(l) + 1 /\ m[i] = e
  /\ \A k \in DOMAIN m : k = i \/ \E j \in DOMAIN l : k = Moved(i, j)
  /\ \A j \in DOMAIN l : Moved(i, j) \in DOMAIN m /\ m[Moved(i, j)] = l[j]
  /\ \A f : \A j \in RowsOf(l, f) :
       /\ Moved(i, j) \in RowsOf(m, f)
       /\ UpTo(RowsOf(l, f), j) <= UpTo(RowsOf(m, f), Moved(i, j))
LEMMA RowsMove ==
  ASSUME NEW l \in Seq(Audit!Entries), NEW i \in 1..(Len(l) + 1), NEW e \in Audit!Entries
  PROVE  RowsKept(l, i, e, Audit!InsertAt(l, i, e))
<1>. DEFINE m == Audit!InsertAt(l, i, e)
<1>1. Len(l) \in Nat /\ DOMAIN l = 1..Len(l) /\ i \in Nat
  OBVIOUS
<1>2. /\ m \in Seq(Audit!Entries) /\ Len(m) = Len(l) + 1 /\ m[i] = e
      /\ \A j \in 1..Len(l) : m[Moved(i, j)] = l[j]
  <2>. DEFINE a == SubSeq(l, 1, i - 1)
              b == SubSeq(l, i, Len(l))
  <2>a. i - 1 \in Nat
    BY <1>1
  <2>1. a \in Seq(Audit!Entries) /\ Len(a) = i - 1 /\ \A j \in 1..(i - 1) : a[j] = l[j]
    BY <1>1
  <2>2. /\ b \in Seq(Audit!Entries) /\ Len(b) = Len(l) - i + 1
        /\ \A j \in 1..(Len(l) - i + 1) : b[j] = l[i + j - 1]
    BY <1>1
  <2>3. m = a \o <<e>> \o b
    BY DEF Audit!InsertAt
  <2>. HIDE DEF m
  <2>. HIDE DEF a, b
  <2>. DEFINE c == a \o <<e>>
  <2>4. /\ c \in Seq(Audit!Entries) /\ Len(c) = i /\ c[i] = e
        /\ \A j \in 1..(i - 1) : c[j] = l[j]
    <3>. DEFINE d == <<e>>
    <3>1. d \in Seq(Audit!Entries) /\ Len(d) = 1 /\ d[1] = e
      OBVIOUS
    <3>2. c = a \o d
      OBVIOUS
    <3>. HIDE DEF c, d
    <3>3. /\ c \in Seq(Audit!Entries) /\ Len(c) = Len(a) + 1
          /\ \A j \in 1..(Len(a) + 1) : c[j] = IF j <= Len(a) THEN a[j] ELSE d[j - Len(a)]
      <4>1. a \in Seq(Audit!Entries) /\ d \in Seq(Audit!Entries)
        BY <2>1, <3>1
      <4>. HIDE DEF a
      <4>2. /\ a \o d \in Seq(Audit!Entries) /\ Len(a \o d) = Len(a) + Len(d)
            /\ \A j \in 1..(Len(a) + Len(d)) :
                 (a \o d)[j] = IF j <= Len(a) THEN a[j] ELSE d[j - Len(a)]
        BY <4>1, ConcatProperties
      <4>. QED
        BY <3>1, <3>2, <4>2
    <3>. QED
      BY <1>1, <2>a, <2>1, <3>1, <3>3
  <2>5. m = c \o b
    BY <2>3
  <2>. HIDE DEF c
  <2>6. /\ m \in Seq(Audit!Entries) /\ Len(m) = Len(l) + 1
        /\ \A k \in 1..i : m[k] = c[k]
        /\ \A k \in 1..(Len(l) - i + 1) : m[i + k] = b[k]
    <3>1. m \in Seq(Audit!Entries) /\ Len(m) = Len(c) + Len(b)
      BY <2>2, <2>4, <2>5
    <3>2. \A k \in 1..Len(c) : m[k] = c[k]
      BY <2>2, <2>4, <2>5
    <3>3. \A k \in 1..Len(b) : m[Len(c) + k] = b[k]
      BY <2>2, <2>4, <2>5
    <3>. QED
      BY <1>1, <2>2, <2>4, <3>1, <3>2, <3>3
  <2>7. \A j \in 1..Len(l) : m[Moved(i, j)] = l[j]
    <3>1. TAKE j \in 1..Len(l)
    <3>2. CASE j < i
      BY <1>1, <2>4, <2>6, <3>2 DEF Moved
    <3>3. CASE ~(j < i)
      <4>1. j - i + 1 \in 1..(Len(l) - i + 1) /\ i + (j - i + 1) = j + 1
        BY <1>1, <3>3
      <4>2. m[j + 1] = b[j - i + 1] /\ b[j - i + 1] = l[i + (j - i + 1) - 1]
        BY <2>2, <2>6, <4>1
      <4>. QED
        BY <1>1, <3>3, <4>2 DEF Moved
    <3>. QED
      BY <3>2, <3>3
  <2>. QED
    BY <1>1, <2>4, <2>6, <2>7
<1>. HIDE DEF m
<1>3. DOMAIN m = 1..(Len(l) + 1)
  BY <1>2
<1>4. \A j \in 1..Len(l) : Moved(i, j) \in 1..(Len(l) + 1)
  BY <1>1 DEF Moved
<1>5. \A k \in 1..(Len(l) + 1) : k = i \/ \E j \in 1..Len(l) : k = Moved(i, j)
  <2>1. TAKE k \in 1..(Len(l) + 1)
  <2>2. k < i => k \in 1..Len(l) /\ k = Moved(i, k)
    BY <1>1 DEF Moved
  <2>3. k > i => k - 1 \in 1..Len(l) /\ k = Moved(i, k - 1)
    BY <1>1 DEF Moved
  <2>. QED
    BY <1>1, <2>2, <2>3
<1>6. \A f : \A j \in RowsOf(l, f) : Moved(i, j) \in RowsOf(m, f)
  BY <1>1, <1>2, <1>3, <1>4 DEF RowsOf
<1>7. ASSUME NEW f, NEW j \in RowsOf(l, f)
      PROVE  UpTo(RowsOf(l, f), j) <= UpTo(RowsOf(m, f), Moved(i, j))
  <2>. DEFINE S == {k \in RowsOf(l, f) : k <= j}
              T == {k \in RowsOf(m, f) : k <= Moved(i, j)}
              g == [k \in S |-> Moved(i, k)]
  <2>0. RowsOf(l, f) \subseteq 1..Len(l)
    BY <1>1 DEF RowsOf
  <2>1. RowsOf(m, f) \subseteq Nat /\ IsFiniteSet(RowsOf(m, f))
    BY <1>2, RowsFinite
  <2>2. IsFiniteSet(T)
    <3>1. T \in SUBSET RowsOf(m, f)
      OBVIOUS
    <3>. QED
      BY <2>1, <3>1, FS_Subset
  <2>3. \A k \in S : Moved(i, k) \in T
    <3>1. TAKE k \in S
    <3>2. k \in Nat /\ j \in Nat /\ k <= j
      BY <1>1, <2>0
    <3>3. Moved(i, k) <= Moved(i, j)
      BY <1>1, <3>2 DEF Moved
    <3>. QED
      BY <1>6, <3>3
  <2>4. \A k, q \in S : Moved(i, k) = Moved(i, q) => k = q
    BY <1>1, <2>0 DEF Moved
  <2>5. g \in Injection(S, T)
    <3>. HIDE DEF S, T
    <3>. QED
      BY <2>3, <2>4 DEF Injection, IsInjective
  <2>. HIDE DEF S, T, g
  <2>. QED
    BY <2>2, <2>5, FS_Injection DEF UpTo, S, T
<1>. QED
  <2>1. RowsKept(l, i, e, m)
    BY <1>1, <1>2, <1>3, <1>4, <1>5, <1>6, <1>7 DEF RowsKept
  <2>. QED
    BY <2>1 DEF m

\* Two pages have the entries of both.
LEMMA SetOfBoth ==
  ASSUME NEW s \in Seq(Audit!Entries), NEW t \in Seq(Audit!Entries)
  PROVE  /\ s \o t \in Seq(Audit!Entries) /\ Len(s \o t) = Len(s) + Len(t)
         /\ Audit!ToSet(s \o t) = Audit!ToSet(s) \cup Audit!ToSet(t)
<1>1. /\ s \o t \in Seq(Audit!Entries) /\ Len(s \o t) = Len(s) + Len(t)
      /\ \A i \in 1..(Len(s) + Len(t)) :
           (s \o t)[i] = IF i <= Len(s) THEN s[i] ELSE t[i - Len(s)]
  BY ConcatProperties
<1>. DEFINE u == s \o t
<1>. HIDE DEF u
<1>2. /\ DOMAIN s = 1..Len(s) /\ DOMAIN t = 1..Len(t) /\ Len(s) \in Nat /\ Len(t) \in Nat
      /\ DOMAIN u = 1..(Len(s) + Len(t))
  BY <1>1 DEF u
<1>3. \A i \in DOMAIN s : i \in DOMAIN u /\ u[i] = s[i]
  BY <1>1, <1>2 DEF u
<1>4. \A i \in DOMAIN t : Len(s) + i \in DOMAIN u /\ u[Len(s) + i] = t[i]
  BY <1>1, <1>2 DEF u
<1>5. \A i \in DOMAIN u :
        \/ i \in DOMAIN s /\ u[i] = s[i]
        \/ i - Len(s) \in DOMAIN t /\ u[i] = t[i - Len(s)]
  BY <1>1, <1>2 DEF u
<1>6. Audit!ToSet(u) = Audit!ToSet(s) \cup Audit!ToSet(t)
  BY <1>3, <1>4, <1>5 DEF Audit!ToSet
<1>. QED
  BY <1>1, <1>6 DEF u

\* The log is empty at first,
LEMMA LogInvInit ==
  ASSUME Audit!Init
  PROVE  Audit!LogInv
<1>1. v1 = <<>> /\ v3 = <<>> /\ v8 = {} /\ v4 = TRUE /\ v9 = FALSE /\ v2 = None
      /\ v5 = {[n |-> 1, op |-> "fill", of |-> None, offset |-> 0]}
  BY DEF Audit!Init
<1>2. v1 \in Seq(Audit!Entries) /\ v3 \in Seq(Audit!Entries) /\ Len(v1) = 0 /\ DOMAIN v1 = {}
  BY <1>1
<1>3. Audit!ToSet(v3) = {}
  BY <1>1 DEF Audit!ToSet
<1>4. 0 <= MaxEntries
  BY ShownAssumption
<1>. QED
  BY <1>1, <1>2, <1>3, <1>4 DEF Audit!LogInv, Audit!Filters

\* The part of the invariant on the rows there are.
LogOrdered ==
  /\ \A i \in Audit!Rows(v2) :
       v1[i] \in v8 /\ Audit!Place(i, v2) <= Len(v3) => v1[i] \in Audit!ToSet(v3)
  /\ \A i \in Audit!Rows(v2), k \in DOMAIN v1 :
       i < k /\ v1[i] \in v8 /\ v1[k] \in Audit!ToSet(v3) => v1[i] \in Audit!ToSet(v3)

\* an entry that commits pushes others down and is in no list yet,
LEMMA AuditLogKeepsOrder ==
  ASSUME Audit!LogInv, NEW i \in 1..MaxEntries, NEW a \in Actions, Audit!audit_log(i, a)
  PROVE  /\ v1' \in Seq(Audit!Entries) /\ Len(v1') <= MaxEntries
         /\ \A j \in DOMAIN v1' : v1'[j].n <= Len(v1')
         /\ \A j, k \in DOMAIN v1' : v1'[j].n = v1'[k].n => j = k
         /\ Audit!ToSet(v1) \subseteq Audit!ToSet(v1')
         /\ LogOrdered => LogOrdered'
<1>. DEFINE e == [n |-> Len(v1) + 1, action |-> a]
            at(j) == Moved(i, j)
<1>1. /\ v1 \in Seq(Audit!Entries) /\ i \in 1..(Len(v1) + 1) /\ Len(v1) < MaxEntries
      /\ v1' = Audit!InsertAt(v1, i, e) /\ UNCHANGED <<v2, v3, v8>>
      /\ Len(v1) \in Nat /\ DOMAIN v1 = 1..Len(v1) /\ MaxEntries \in Nat
  BY ShownAssumption DEF Audit!audit_log, Audit!LogInv
<1>2. e \in Audit!Entries /\ e.n = Len(v1) + 1
  BY <1>1 DEF Audit!Entries
<1>3. /\ v1' \in Seq(Audit!Entries) /\ Len(v1') = Len(v1) + 1 /\ v1'[i] = e
      /\ \A k \in DOMAIN v1' : k = i \/ \E j \in DOMAIN v1 : k = at(j)
      /\ \A j \in DOMAIN v1 : at(j) \in DOMAIN v1' /\ v1'[at(j)] = v1[j]
      /\ \A f : \A j \in RowsOf(v1, f) :
           /\ at(j) \in RowsOf(v1', f)
           /\ UpTo(RowsOf(v1, f), j) <= UpTo(RowsOf(v1', f), at(j))
  <2>. HIDE DEF e
  <2>1. RowsKept(v1, i, e, v1')
    BY <1>1, <1>2, RowsMove
  <2>. QED
    BY <2>1 DEF RowsKept
<1>. HIDE DEF e
<1>m. \A j : at(j) = IF j < i THEN j ELSE j + 1
  BY DEF Moved
<1>4. /\ \A j \in DOMAIN v1 : v1[j].n <= Len(v1) /\ v1[j].n \in Nat
      /\ \A j, k \in DOMAIN v1 : v1[j].n = v1[k].n => j = k
      /\ Audit!ToSet(v3) \cup v8 \subseteq Audit!ToSet(v1)
  <2>1. \A j \in DOMAIN v1 : v1[j] \in Audit!Entries
    BY <1>1
  <2>. QED
    BY <2>1 DEF Audit!LogInv, Audit!Entries
<1>5. \A j \in DOMAIN v1' : v1'[j].n <= Len(v1')
  BY <1>1, <1>2, <1>3, <1>4
<1>6. ASSUME NEW j \in DOMAIN v1', NEW k \in DOMAIN v1', v1'[j].n = v1'[k].n
      PROVE  j = k
  <2>1. \A q \in DOMAIN v1 : v1'[at(q)].n # v1'[i].n
    BY <1>1, <1>2, <1>3, <1>4
  <2>2. CASE j = i \/ k = i
    BY <1>3, <1>6, <2>1, <2>2
  <2>3. CASE j # i /\ k # i
    <3>1. PICK p \in DOMAIN v1, q \in DOMAIN v1 : j = at(p) /\ k = at(q)
      BY <1>3, <2>3
    <3>2. p = q
      BY <1>3, <1>4, <1>6, <3>1
    <3>. QED
      BY <3>1, <3>2
  <2>. QED
    BY <2>2, <2>3
<1>7. Audit!ToSet(v1) \subseteq Audit!ToSet(v1')
  BY <1>3 DEF Audit!ToSet
<1>8. v1'[i] \notin Audit!ToSet(v1)
  BY <1>1, <1>2, <1>3, <1>4 DEF Audit!ToSet
<1>9. Audit!Rows(v2) = RowsOf(v1, v2) /\ Audit!Rows(v2)' = RowsOf(v1', v2)
  BY <1>1 DEF Audit!Rows, RowsOf
<1>10. /\ \A j : Audit!Place(j, v2) = UpTo(RowsOf(v1, v2), j)
       /\ \A j : Audit!Place(j, v2)' = UpTo(RowsOf(v1', v2), j)
  <2>1. \A j : Audit!Place(j, v2) = UpTo(Audit!Rows(v2), j)
    BY AuditCardinality DEF Audit!Place, UpTo
  <2>2. \A j : Audit!Place(j, v2)' = UpTo(Audit!Rows(v2)', j)
    BY AuditCardinality DEF Audit!Place, UpTo
  <2>. QED
    BY <1>9, <2>1, <2>2
<1>11. ASSUME NEW f, NEW k \in RowsOf(v1', f), v1'[k] \in v8
       PROVE  \E j \in RowsOf(v1, f) :
                /\ k = at(j) /\ v1'[k] = v1[j]
                /\ UpTo(RowsOf(v1, f), j) <= UpTo(RowsOf(v1', f), k)
  <2>1. k # i /\ k \in DOMAIN v1'
    BY <1>4, <1>8, <1>11 DEF RowsOf
  <2>2. PICK j \in DOMAIN v1 : k = at(j)
    BY <1>3, <2>1
  <2>3. v1'[k] = v1[j] /\ j \in RowsOf(v1, f)
    BY <1>3, <1>11, <2>2 DEF RowsOf
  <2>. QED
    BY <1>3, <2>2, <2>3
<1>12. ASSUME LogOrdered
       PROVE  LogOrdered'
  <2>1. ASSUME NEW k \in Audit!Rows(v2)', v1'[k] \in v8, Audit!Place(k, v2)' <= Len(v3)
        PROVE  v1'[k] \in Audit!ToSet(v3)
    <3>1. k \in RowsOf(v1', v2) /\ UpTo(RowsOf(v1', v2), k) <= Len(v3)
      BY <1>9, <1>10, <2>1
    <3>2. PICK j \in RowsOf(v1, v2) : /\ k = at(j) /\ v1'[k] = v1[j]
                 /\ UpTo(RowsOf(v1, v2), j) <= UpTo(RowsOf(v1', v2), k)
      BY <1>11, <2>1, <3>1
    <3>3. UpTo(RowsOf(v1, v2), j) \in Int /\ UpTo(RowsOf(v1', v2), k) \in Int /\ Len(v3) \in Int
      <4>1. UpTo(RowsOf(v1, v2), j) \in 1..Cardinality(RowsOf(v1, v2))
        BY <1>1, RowsFinite, UpToIn
      <4>2. UpTo(RowsOf(v1', v2), k) \in 1..Cardinality(RowsOf(v1', v2))
        BY <1>3, <3>1, RowsFinite, UpToIn
      <4>3. Len(v3) \in Int
        BY DEF Audit!LogInv
      <4>. QED
        BY <4>1, <4>2, <4>3
    <3>4. j \in Audit!Rows(v2) /\ Audit!Place(j, v2) <= Len(v3)
      BY <1>9, <1>10, <3>1, <3>2, <3>3
    <3>. QED
      BY <1>12, <2>1, <3>2, <3>4 DEF LogOrdered
  <2>2. ASSUME NEW j \in Audit!Rows(v2)', NEW k \in DOMAIN v1', j < k, v1'[j] \in v8,
               v1'[k] \in Audit!ToSet(v3)
        PROVE  v1'[j] \in Audit!ToSet(v3)
    <3>1. PICK p \in RowsOf(v1, v2) : j = at(p) /\ v1'[j] = v1[p]
      BY <1>9, <1>11, <2>2
    <3>2. k # i
      BY <1>4, <1>8, <2>2
    <3>3. PICK q \in DOMAIN v1 : k = at(q)
      BY <1>3, <3>2
    <3>4. p < q /\ v1'[k] = v1[q]
      <4>1. p \in 1..Len(v1)
        BY <1>1 DEF RowsOf
      <4>. QED
        BY <1>1, <1>3, <1>m, <2>2, <3>1, <3>3, <4>1
    <3>. QED
      BY <1>9, <1>12, <2>2, <3>1, <3>3, <3>4 DEF LogOrdered
  <2>. QED
    BY <1>1, <2>1, <2>2 DEF LogOrdered, Audit!ToSet
<1>. QED
  BY <1>1, <1>3, <1>5, <1>6, <1>7, <1>12

\* The invariant in two parts: what is on the page and in the log, and what is on its way.
LogKept ==
  /\ v1 \in Seq(Audit!Entries) /\ Len(v1) <= MaxEntries /\ v3 \in Seq(Audit!Entries)
  /\ \A i \in DOMAIN v1 : v1[i].n <= Len(v1)
  /\ \A i, j \in DOMAIN v1 : v1[i].n = v1[j].n => i = j
  /\ Audit!ToSet(v3) \cup v8 \subseteq Audit!ToSet(v1)
LogAsked ==
  /\ v2 \in Audit!Filters
  /\ \A r \in v5 : r.of \in Audit!Filters /\ r.offset \in Nat /\ r.op \in {"fill", "more"}
LogWaiting ==
  /\ \A r, q \in v5 : r = q
  /\ \A r \in v5 : v4 /\ r.of = v2 /\ (r.op = "fill" => r.offset = 0)
LogGoesOn ==
  (\A r \in v5 : r.op = "more") =>
    /\ \A r \in v5 : r.offset = Len(v3)
    /\ \A e \in Audit!ToSet(v3) : Audit!Matches(e, v2)
    /\ LogOrdered

LEMMA LogInvParts == Audit!LogInv <=> LogKept /\ LogAsked /\ (~v9 => LogWaiting /\ LogGoesOn)
BY DEF Audit!LogInv, LogKept, LogAsked, LogWaiting, LogGoesOn, LogOrdered

\* a page that follows the list keeps the order,
LEMMA PageInOrder ==
  ASSUME LogKept, NEW s, NEW w, NEW o \in Nat, NEW p, p = Audit!admin_audit_log(v2, o),
         \A i \in Audit!Rows(v2) : v1[i] \in w /\ Audit!Place(i, v2) <= o => v1[i] \in s,
         \A i \in Audit!Rows(v2), k \in DOMAIN v1 :
           i < k /\ v1[i] \in w /\ v1[k] \in s => v1[i] \in s
  PROVE  /\ \A i \in Audit!Rows(v2) :
              v1[i] \in w /\ Audit!Place(i, v2) <= o + Len(p) => v1[i] \in s \cup Audit!ToSet(p)
         /\ \A i \in Audit!Rows(v2), k \in DOMAIN v1 :
              i < k /\ v1[i] \in w /\ v1[k] \in s \cup Audit!ToSet(p)
                => v1[i] \in s \cup Audit!ToSet(p)
<1>1. /\ v1 \in Seq(Audit!Entries) /\ DOMAIN v1 \subseteq Nat
      /\ \A j, k \in DOMAIN v1 : v1[j] = v1[k] => j = k
      /\ Audit!Rows(v2) \subseteq DOMAIN v1
  BY DEF LogKept, Audit!Rows
<1>2. /\ Len(p) \in Nat /\ Len(p) <= PAGE /\ PAGE \in Nat
      /\ \A e \in Audit!ToSet(p) : \E i \in Audit!Rows(v2) :
           e = v1[i] /\ Audit!Place(i, v2) <= o + PAGE
      /\ \A i \in Audit!Rows(v2) :
           Audit!Place(i, v2) \in (o + 1)..(o + PAGE) => v1[i] \in Audit!ToSet(p)
  <2>1. /\ p \in Seq(Audit!Entries) /\ Len(p) <= PAGE
        /\ \A e \in Audit!ToSet(p) : \E i \in Audit!Rows(v2) :
             e = v1[i] /\ Audit!Place(i, v2) <= o + PAGE
        /\ \A i \in Audit!Rows(v2) :
             Audit!Place(i, v2) \in (o + 1)..(o + PAGE) => v1[i] \in Audit!ToSet(p)
    BY <1>1, PageHas
  <2>. QED
    BY <2>1, ShownAssumption
<1>3. \A i \in Audit!Rows(v2) :
        /\ Audit!Place(i, v2) \in Nat
        /\ \A k \in Audit!Rows(v2) : i < k => Audit!Place(i, v2) < Audit!Place(k, v2)
  BY <1>1, Places
<1>4. ASSUME NEW i \in Audit!Rows(v2), v1[i] \in w, Audit!Place(i, v2) <= o + PAGE
      PROVE  v1[i] \in s \cup Audit!ToSet(p)
  <2>1. CASE Audit!Place(i, v2) <= o
    BY <1>4, <2>1
  <2>2. CASE ~(Audit!Place(i, v2) <= o)
    <3>1. Audit!Place(i, v2) \in (o + 1)..(o + PAGE)
      BY <1>2, <1>3, <1>4, <2>2
    <3>. QED
      BY <1>2, <3>1
  <2>. QED
    BY <2>1, <2>2
<1>5. ASSUME NEW i \in Audit!Rows(v2), v1[i] \in w, Audit!Place(i, v2) <= o + Len(p)
      PROVE  v1[i] \in s \cup Audit!ToSet(p)
  BY <1>2, <1>3, <1>4, <1>5
<1>6. ASSUME NEW i \in Audit!Rows(v2), NEW k \in DOMAIN v1, i < k, v1[i] \in w,
             v1[k] \in Audit!ToSet(p)
      PROVE  v1[i] \in s \cup Audit!ToSet(p)
  <2>1. PICK j \in Audit!Rows(v2) : v1[k] = v1[j] /\ Audit!Place(j, v2) <= o + PAGE
    BY <1>2, <1>6
  <2>2. j = k
    BY <1>1, <2>1
  <2>3. Audit!Place(i, v2) <= o + PAGE
    BY <1>2, <1>3, <1>6, <2>1, <2>2
  <2>. QED
    BY <1>4, <1>6, <2>3
<1>. QED
  BY <1>5, <1>6

\* and every other step keeps the list in order.
LEMMA LogInvStep ==
  ASSUME Audit!LogInv, Audit!Next
  PROVE  Audit!LogInv'
<1>0. LogKept /\ LogAsked /\ (~v9 => LogWaiting /\ LogGoesOn)
  BY LogInvParts
<1>q. ASSUME LogKept', LogAsked', ~v9' => LogWaiting' /\ LogGoesOn'
      PROVE  Audit!LogInv'
  BY <1>q DEF Audit!LogInv, LogKept, LogAsked, LogWaiting, LogGoesOn, LogOrdered
<1>k. UNCHANGED <<v1, v3, v8>> => LogKept'
  BY <1>0 DEF LogKept, Audit!ToSet
<1>o. ASSUME UNCHANGED <<v1, v2, v3, v8>>
      PROVE  LogOrdered => LogOrdered'
  BY <1>o DEF LogOrdered, Audit!ToSet, Audit!Rows, Audit!Place
<1>1. ASSUME NEW i \in 1..MaxEntries, NEW a \in Actions, Audit!audit_log(i, a)
      PROVE  Audit!LogInv'
  <2>1. UNCHANGED <<v2, v3, v4, v5, v8, v9>>
    BY <1>1 DEF Audit!audit_log
  <2>2. LogKept' /\ (LogOrdered => LogOrdered')
    BY <1>0, <1>1, <2>1, AuditLogKeepsOrder DEF LogKept, Audit!ToSet
  <2>3. LogAsked' /\ (LogWaiting => LogWaiting')
    BY <1>0, <2>1 DEF LogAsked, LogWaiting
  <2>4. LogGoesOn => LogGoesOn'
    BY <2>1, <2>2 DEF LogGoesOn, Audit!ToSet, Audit!Matches
  <2>. QED
    BY <1>0, <1>q, <2>1, <2>2, <2>3, <2>4
<1>2. ASSUME NEW f \in Audit!Filters, Audit!setActionFilter(f)
      PROVE  Audit!LogInv'
  <2>. DEFINE r == [n |-> v6 + 1, op |-> "fill", of |-> f, offset |-> 0]
  <2>1. /\ v2' = f /\ v5' = v5 \cup {r} /\ v4' = TRUE /\ v9' = (v9 \/ v5 # {})
        /\ UNCHANGED <<v1, v3, v8>>
    BY <1>2 DEF Audit!setActionFilter, Audit!Ask
  <2>2. r.op = "fill" /\ r.of = f /\ r.offset = 0
    OBVIOUS
  <2>. HIDE DEF r
  <2>3. LogAsked'
    BY <1>0, <1>2, <2>1, <2>2 DEF LogAsked
  <2>4. ~v9' => v5' = {r}
    BY <2>1
  <2>5. ~v9' => LogWaiting' /\ LogGoesOn'
    BY <2>1, <2>2, <2>4 DEF LogWaiting, LogGoesOn
  <2>. QED
    BY <1>k, <1>q, <2>1, <2>3, <2>5
<1>3. ASSUME NEW r \in v5, Audit!Filled(r)
      PROVE  Audit!LogInv'
  <2>. DEFINE p == Audit!admin_audit_log(r.of, 0)
  <2>1. /\ r.op = "fill" /\ v3' = p /\ v8' = Audit!ToSet(v1) /\ v4' = FALSE /\ v5' = v5 \ {r}
        /\ UNCHANGED <<v1, v2, v9>>
    BY <1>3 DEF Audit!Filled
  <2>2. /\ p \in Seq(Audit!Entries) /\ Len(p) <= PAGE
        /\ \A e \in Audit!ToSet(p) : \E i \in Audit!Rows(r.of) :
             e = v1[i] /\ Audit!Place(i, r.of) <= PAGE
        /\ \A i \in Audit!Rows(r.of) :
             Audit!Place(i, r.of) \in 1..PAGE => v1[i] \in Audit!ToSet(p)
    <3>1. PAGE \in Nat /\ 0 + PAGE = PAGE /\ 0 + 1 = 1 /\ v1 \in Seq(Audit!Entries)
      BY <1>0, ShownAssumption DEF LogKept
    <3>. QED
      BY <3>1, PageHas
  <2>p. p = Audit!admin_audit_log(r.of, 0)
    OBVIOUS
  <2>. HIDE DEF p
  <2>3. Audit!Rows(r.of) \subseteq DOMAIN v1
    BY DEF Audit!Rows
  <2>4. Audit!ToSet(p) \subseteq Audit!ToSet(v1)
    BY <2>2, <2>3 DEF Audit!ToSet
  <2>5. LogKept'
    <3>1. Audit!ToSet(v1)' = Audit!ToSet(v1) /\ Audit!ToSet(v3)' = Audit!ToSet(p)
      BY <2>1 DEF Audit!ToSet
    <3>2. (Audit!ToSet(v3) \cup v8 \subseteq Audit!ToSet(v1))'
      BY <2>1, <2>4, <3>1
    <3>. QED
      BY <1>0, <2>1, <2>2, <3>2 DEF LogKept
  <2>6. LogAsked'
    BY <1>0, <2>1 DEF LogAsked
  <2>7. ASSUME ~v9'
        PROVE  LogWaiting' /\ LogGoesOn'
    <3>1. r.of = v2 /\ v5' = {}
      BY <1>0, <2>1, <2>7 DEF LogWaiting
    <3>2. \A e \in Audit!ToSet(p) : Audit!Matches(e, v2)
      BY <2>2, <3>1 DEF Audit!Rows
    <3>3. LogOrdered'
      <4>1. \A i \in Audit!Rows(v2) : ~(Audit!Place(i, v2) <= 0)
        <5>1. \A i \in Audit!Rows(v2) : Audit!Place(i, v2) \in Nat \ {0}
          BY <1>0, Places DEF LogKept
        <5>. QED
          BY <5>1
      <4>2. /\ \A i \in Audit!Rows(v2) :
                 v1[i] \in Audit!ToSet(v1) /\ Audit!Place(i, v2) <= Len(p)
                   => v1[i] \in Audit!ToSet(p)
            /\ \A i \in Audit!Rows(v2), k \in DOMAIN v1 :
                 i < k /\ v1[i] \in Audit!ToSet(v1) /\ v1[k] \in Audit!ToSet(p)
                   => v1[i] \in Audit!ToSet(p)
        <5>1. \A i \in Audit!Rows(v2) :
                v1[i] \in Audit!ToSet(v1) /\ Audit!Place(i, v2) <= 0 => v1[i] \in {}
          BY <4>1
        <5>2. \A i \in Audit!Rows(v2), k \in DOMAIN v1 :
                i < k /\ v1[i] \in Audit!ToSet(v1) /\ v1[k] \in {} => v1[i] \in {}
          OBVIOUS
        <5>3. p = Audit!admin_audit_log(v2, 0) /\ 0 \in Nat /\ 0 + Len(p) = Len(p)
          BY <2>2, <2>p, <3>1
        <5>4. /\ \A i \in Audit!Rows(v2) :
                   v1[i] \in Audit!ToSet(v1) /\ Audit!Place(i, v2) <= 0 + Len(p)
                     => v1[i] \in {} \cup Audit!ToSet(p)
              /\ \A i \in Audit!Rows(v2), k \in DOMAIN v1 :
                   i < k /\ v1[i] \in Audit!ToSet(v1) /\ v1[k] \in {} \cup Audit!ToSet(p)
                     => v1[i] \in {} \cup Audit!ToSet(p)
          BY <1>0, <5>1, <5>2, <5>3, PageInOrder
        <5>. QED
          BY <5>3, <5>4
      <4>. QED
        BY <2>1, <4>2 DEF LogOrdered, Audit!Rows, Audit!Place, Audit!ToSet
    <3>. QED
      BY <2>1, <3>1, <3>2, <3>3 DEF LogWaiting, LogGoesOn, Audit!Matches, Audit!ToSet
  <2>. QED
    BY <1>q, <2>5, <2>6, <2>7
<1>4. ASSUME Audit!loadMore
      PROVE  Audit!LogInv'
  <2>. DEFINE r == [n |-> v6 + 1, op |-> "more", of |-> v2, offset |-> Len(v3)]
  <2>1. ~v4 /\ v5' = v5 \cup {r} /\ v4' = TRUE /\ UNCHANGED <<v1, v2, v3, v8, v9>>
    BY <1>4 DEF Audit!loadMore, Audit!LoadMoreButton, Audit!Ask
  <2>2. r.op = "more" /\ r.of = v2 /\ r.offset = Len(v3)
    OBVIOUS
  <2>. HIDE DEF r
  <2>3. LogAsked'
    BY <1>0, <2>1, <2>2 DEF LogAsked, LogKept
  <2>4. ~v9 => v5 = {} /\ v5' = {r}
    BY <1>0, <2>1 DEF LogWaiting
  <2>5. ~v9' => LogWaiting' /\ LogGoesOn'
    BY <1>0, <1>o, <2>1, <2>2, <2>4 DEF LogWaiting, LogGoesOn, Audit!ToSet, Audit!Matches
  <2>. QED
    BY <1>k, <1>q, <2>1, <2>3, <2>5
<1>5. ASSUME NEW r \in v5, Audit!More(r)
      PROVE  Audit!LogInv'
  <2>. DEFINE p == Audit!admin_audit_log(r.of, r.offset)
  <2>1. /\ r.op = "more" /\ v3' = v3 \o p /\ v4' = FALSE /\ v5' = v5 \ {r}
        /\ UNCHANGED <<v1, v2, v8, v9>>
    BY <1>5 DEF Audit!More
  <2>2. /\ p \in Seq(Audit!Entries)
        /\ \A e \in Audit!ToSet(p) : \E i \in Audit!Rows(r.of) : e = v1[i]
    <3>1. r.offset \in Nat /\ v1 \in Seq(Audit!Entries)
      BY <1>0 DEF LogKept, LogAsked
    <3>. QED
      BY <3>1, PageHas
  <2>3. Audit!Rows(r.of) \subseteq DOMAIN v1 /\ v3 \in Seq(Audit!Entries)
    BY <1>0 DEF Audit!Rows, LogKept
  <2>p. p = Audit!admin_audit_log(r.of, r.offset)
    OBVIOUS
  <2>. HIDE DEF p
  <2>4. /\ v3' \in Seq(Audit!Entries) /\ Len(v3') = Len(v3) + Len(p)
        /\ Audit!ToSet(v3') = Audit!ToSet(v3) \cup Audit!ToSet(p)
    BY <2>1, <2>2, <2>3, SetOfBoth
  <2>5. Audit!ToSet(p) \subseteq Audit!ToSet(v1)
    BY <2>2, <2>3 DEF Audit!ToSet
  <2>6. LogKept'
    <3>1. Audit!ToSet(v1)' = Audit!ToSet(v1)
      BY <2>1 DEF Audit!ToSet
    <3>2. Audit!ToSet(v3)' = Audit!ToSet(v3')
      BY DEF Audit!ToSet
    <3>3. (Audit!ToSet(v3) \cup v8 \subseteq Audit!ToSet(v1))'
      BY <1>0, <2>1, <2>4, <2>5, <3>1, <3>2 DEF LogKept
    <3>. QED
      BY <1>0, <2>1, <2>4, <3>3 DEF LogKept
  <2>7. LogAsked'
    BY <1>0, <2>1 DEF LogAsked
  <2>8. ASSUME ~v9'
        PROVE  LogWaiting' /\ LogGoesOn'
    <3>1. v5' = {} /\ r.of = v2 /\ r.offset = Len(v3) /\ LogGoesOn /\ \A q \in v5 : q.op = "more"
      BY <1>0, <2>1, <2>8 DEF LogWaiting, LogGoesOn
    <3>2. \A e \in Audit!ToSet(v3') : Audit!Matches(e, v2)
      BY <2>2, <2>4, <3>1 DEF LogGoesOn, Audit!Rows
    <3>3. /\ \A i \in Audit!Rows(v2) :
               v1[i] \in v8 /\ Audit!Place(i, v2) <= Len(v3') => v1[i] \in Audit!ToSet(v3')
          /\ \A i \in Audit!Rows(v2), k \in DOMAIN v1 :
               i < k /\ v1[i] \in v8 /\ v1[k] \in Audit!ToSet(v3')
                 => v1[i] \in Audit!ToSet(v3')
      <4>1. LogOrdered /\ Len(v3) \in Nat
        BY <2>3, <3>1 DEF LogGoesOn
      <4>. QED
        <5>1. LogKept /\ p = Audit!admin_audit_log(v2, Len(v3)) /\ Len(v3') = Len(v3) + Len(p)
          BY <1>0, <2>4, <2>p, <3>1
        <5>2. /\ \A i \in Audit!Rows(v2) :
                   v1[i] \in v8 /\ Audit!Place(i, v2) <= Len(v3) => v1[i] \in Audit!ToSet(v3)
              /\ \A i \in Audit!Rows(v2), k \in DOMAIN v1 :
                   i < k /\ v1[i] \in v8 /\ v1[k] \in Audit!ToSet(v3)
                     => v1[i] \in Audit!ToSet(v3)
          BY <4>1 DEF LogOrdered
        <5>3. /\ \A i \in Audit!Rows(v2) :
                   v1[i] \in v8 /\ Audit!Place(i, v2) <= Len(v3) + Len(p)
                     => v1[i] \in Audit!ToSet(v3) \cup Audit!ToSet(p)
              /\ \A i \in Audit!Rows(v2), k \in DOMAIN v1 :
                   i < k /\ v1[i] \in v8 /\ v1[k] \in Audit!ToSet(v3) \cup Audit!ToSet(p)
                     => v1[i] \in Audit!ToSet(v3) \cup Audit!ToSet(p)
          BY <4>1, <5>1, <5>2, PageInOrder
        <5>. QED
          BY <2>4, <5>1, <5>3
    <3>4. LogOrdered'
      BY <2>1, <3>3 DEF LogOrdered, Audit!Rows, Audit!Place, Audit!ToSet
    <3>. QED
      BY <2>1, <3>1, <3>2, <3>4 DEF LogWaiting, LogGoesOn, Audit!Matches, Audit!ToSet
  <2>. QED
    BY <1>q, <2>6, <2>7, <2>8
<1>6. ASSUME NEW r \in v5, Audit!ReadFailed(r)
      PROVE  Audit!LogInv'
  <2>1. /\ v5' = v5 \ {r} /\ v9' = (v9 \/ r.op = "fill") /\ v4' = FALSE
        /\ UNCHANGED <<v1, v2, v3, v8>>
    BY <1>6 DEF Audit!ReadFailed
  <2>2. LogAsked'
    BY <1>0, <2>1 DEF LogAsked
  <2>3. ~v9' => ~v9 /\ v5' = {} /\ r.op = "more" /\ \A q \in v5 : q.op = "more"
    BY <1>0, <2>1 DEF LogWaiting, LogAsked
  <2>4. ~v9' => LogWaiting' /\ LogGoesOn'
    BY <1>0, <1>o, <2>1, <2>3 DEF LogWaiting, LogGoesOn, Audit!ToSet, Audit!Matches
  <2>. QED
    BY <1>k, <1>q, <2>1, <2>2, <2>4
<1>. QED
  BY <1>1, <1>2, <1>3, <1>4, <1>5, <1>6 DEF Audit!Next

\* What leaves the page and the log alone keeps it,
LEMMA LogInvUnchanged ==
  ASSUME Audit!LogInv, UNCHANGED <<v1, v2, v3, v4, v5, v8, v9>>
  PROVE  Audit!LogInv'
<1>0. LogKept /\ LogAsked /\ (~v9 => LogWaiting /\ LogGoesOn)
  BY LogInvParts
<1>1. LogKept' /\ LogAsked' /\ (LogWaiting => LogWaiting')
  <2>1. LogKept'
    BY <1>0 DEF LogKept
  <2>2. LogAsked'
    BY <1>0 DEF LogAsked
  <2>3. LogWaiting => LogWaiting'
    BY DEF LogWaiting
  <2>. QED
    BY <2>1, <2>2, <2>3
<1>2. LogOrdered => LogOrdered'
  BY DEF LogOrdered, Audit!ToSet, Audit!Rows, Audit!Place
<1>3. LogGoesOn => LogGoesOn'
  BY <1>2 DEF LogGoesOn, Audit!ToSet, Audit!Matches
<1>. QED
  BY <1>0, <1>1, <1>3 DEF Audit!LogInv, LogKept, LogAsked, LogWaiting, LogGoesOn, LogOrdered

\* and the list has no gap.
LEMMA LogHasNoGaps ==
  ASSUME Audit!LogInv
  PROVE  Audit!AuditHasNoGaps
BY DEF Audit!LogInv, Audit!AuditHasNoGaps, Audit!Rows

-----------------------------------------------------------------------------
\* The invariant of the forms at rest: that of the one on screen, beside FormsInv.
RestInv ==
  /\ screen = "team" => TeamRowsInv
  /\ screen = "share" => Share!AccessInv
  /\ screen = "index" => IndexInv
  /\ screen = "tenants" => BalancesInv
  /\ screen = "brand" => Brand!SavedInv
  /\ screen = "accounts" => Accounts!ShownInv
  /\ screen = "audit" => Audit!LogInv
  /\ screen = "dashboard" => Dash!BarsInv

\* Every initial state has it,
LEMMA RestInvInit == Init => RestInv
<1>1. TeamInit => RestInv
  BY TeamRowsInvInit DEF TeamInit, RestInv
<1>2. ShareInit => RestInv
  BY AccessInvInit DEF ShareInit, RestInv
<1>3. IndexInit => RestInv
  BY IndexInvInit DEF IndexInit, RestInv
<1>4. AdminInit => RestInv
  BY BalancesInvInit DEF AdminInit, RestInv
<1>5. BrandInit => RestInv
  BY SavedInvInit DEF BrandInit, RestInv
<1>6. AccountsInit => RestInv
  BY ShownInvInit DEF AccountsInit, RestInv
<1>7. DashInit => RestInv
  BY BarsInvInit DEF DashInit, RestInv
<1>8. AuditInit => RestInv
  BY LogInvInit DEF AuditInit, RestInv
<1>9. UploadInit \/ WizInit \/ DemoInit \/ AddonsInit \/ SocialInit \/ SupportInit => RestInv
  BY DEF UploadInit, WizInit, DemoInit, AddonsInit, SocialInit, SupportInit, RestInv
<1>. QED
  BY <1>1, <1>2, <1>3, <1>4, <1>5, <1>6, <1>7, <1>8, <1>9 DEF Init

\* every step keeps it,
LEMMA RestInvStep == FormsInv /\ RestInv /\ [Next]_vars => RestInv'
<1>1. RestInv /\ TeamNext => RestInv'
  BY TeamRowsInvStep DEF TeamNext, RestInv
<1>2. RestInv /\ ShareNext => RestInv'
  BY AccessInvStep DEF ShareNext, RestInv
<1>3. RestInv /\ IndexNext => RestInv'
  BY IndexInvStep DEF IndexNext, RestInv
<1>4. FormsInv /\ RestInv /\ AdminNext => RestInv'
  BY BalancesInvStep DEF AdminNext, FormsInv, RestInv
<1>5. RestInv /\ BrandNext => RestInv'
  BY SavedInvStep DEF BrandNext, RestInv
<1>6. FormsInv /\ RestInv /\ AccountsNext => RestInv'
  BY ShownInvStep DEF AccountsNext, FormsInv, RestInv
<1>7. RestInv /\ DashNext => RestInv'
  BY BarsInvStep DEF DashNext, RestInv
<1>8. RestInv /\ AuditNext => RestInv'
  BY LogInvStep DEF AuditNext, RestInv
<1>9. UploadNext \/ WizNext \/ DemoNext \/ AddonsNext \/ SocialNext \/ SupportNext => RestInv'
  BY DEF UploadNext, WizNext, DemoNext, AddonsNext, SocialNext, SupportNext, RestInv
<1>10. ASSUME RestInv, UNCHANGED vars
      PROVE  RestInv'
  <2>0. screen' = screen
    BY <1>10 DEF vars
  <2>1. TeamRowsInv => TeamRowsInv'
    BY <1>10 DEF vars, TeamRowsInv, Team!TeamInv, Team!Listed
  <2>2. Share!AccessInv => Share!AccessInv'
    BY <1>10 DEF vars, Share!AccessInv
  <2>3. IndexInv => IndexInv'
    BY <1>10 DEF vars, IndexInv, Index!VisitInv, Index!CardInv
  <2>4. BalancesInv => BalancesInv'
    BY <1>10 DEF vars, BalancesInv, Admin!BalanceInv
  <2>5. Brand!SavedInv => Brand!SavedInv'
    BY <1>10 DEF vars, Brand!SavedInv, Brand!SavedIsShown
  <2>6. Accounts!ShownInv => Accounts!ShownInv'
    BY <1>10 DEF vars, Accounts!ShownInv, Accounts!AccountsShown
  <2>7. Dash!BarsInv => Dash!BarsInv'
    BY <1>10 DEF vars, Dash!BarsInv, Dash!slice, Dash!Rank
  <2>8. Audit!LogInv => Audit!LogInv'
    BY <1>10, LogInvUnchanged DEF vars
  <2>. QED
    BY <1>10, <2>0, <2>1, <2>2, <2>3, <2>4, <2>5, <2>6, <2>7, <2>8 DEF RestInv
<1>. QED
  BY <1>1, <1>2, <1>3, <1>4, <1>5, <1>6, <1>7, <1>8, <1>9, <1>10 DEF Next

\* and so it holds for ever.
LEMMA RestInvariant == Spec => []RestInv
BY RestInvInit, RestInvStep, FormsInvariant, PTL DEF Spec

(* A form that has come to rest shows what the server has: each page, once *)
(* it waits for nothing and nothing overlapped or was lost, for any number *)
(* of people, tenants, listings, accounts, log entries and changes; and    *)
(* the dashboard's bars are those of the listing they are drawn for,       *)
(* whichever requests fail (dashboard/page.tsx).                           *)
THEOREM RestIsShown == Spec => []ShownIsStored
<1>1. TeamRowsInv => Team!TeamShown
  BY DEF TeamRowsInv, Team!TeamInv, Team!TeamShown, Team!Busy, Team!Listed
<1>2. Share!AccessInv => Share!AccessShown
  BY DEF Share!AccessInv, Share!AccessShown, Share!Busy
<1>3. IndexInv => Index!SharedIsFresh /\ Index!CardsAreListings
  <2>1. None # "ok"
    BY ToldAssumption
  <2>. QED
    BY <2>1 DEF IndexInv, Index!VisitInv, Index!CardInv, Index!SharedIsFresh,
       Index!CardsAreListings
<1>4. BalancesInv => Admin!BalanceShown
  BY DEF BalancesInv, Admin!BalanceInv, Admin!BalanceShown
<1>5. Brand!SavedInv => Brand!SavedIsShown
  BY DEF Brand!SavedInv
<1>6. Accounts!ShownInv => Accounts!AccountsShown
  BY DEF Accounts!ShownInv, Accounts!AccountsShown
<1>7. RestInv => ShownIsStored
  BY <1>1, <1>2, <1>3, <1>4, <1>5, <1>6, LogHasNoGaps, BarsAreOwn DEF RestInv, ShownIsStored
<1>. QED
  BY <1>7, RestInvariant, PTL

-----------------------------------------------------------------------------
(***************************************************************************)
(* The types of the forms whose counts rest on what they are known to ask  *)
(* for and to show.                                                        *)
(***************************************************************************)
-----------------------------------------------------------------------------
\* The page saves at most as often as it is asked to, and it knows of one other key.
SavesCounted ==
  /\ v11 + (IF v8 THEN 1 ELSE 0) <= v14
  /\ v8 => v10 \in Brand!Kits /\ v10["extras"] \in {0, 1}
  /\ v1 # None => v1["extras"] \in {0, 1}
BrandTypes == Brand!TypeOK /\ SavesCounted

\* There is a value for each time the user types or uploads a picture.
LEMMA BrandValues ==
  /\ \A n \in 0..MaxTyped : n < MaxTyped => 1 + (n + 1) \in Brand!Values
  /\ \A n \in 0..MaxPictures : n < MaxPictures => 1 + MaxTyped + (n + 1) \in Brand!Values
  /\ 0 \in Brand!Values /\ 1 \in Brand!Values
BY BoundsAssumption DEF Brand!Values

\* The brand kit starts well typed,
LEMMA BrandTypesInit ==
  ASSUME Brand!Init
  PROVE  BrandTypes
<1>0. /\ MaxTyped \in Nat /\ MaxPictures \in Nat /\ MaxSaves \in Nat /\ MaxLost \in Nat
  BY BoundsAssumption
<1>1. {v2, v8, v9, v18, v19} \subseteq BOOLEAN /\ ~v8
  BY DEF Brand!Init
<1>2. /\ Brand!NoKit \in Brand!Kits /\ [f \in Brand!FormKeys \cup {"extras"} |-> 1] \in Brand!Kits
      /\ Brand!Default \in Brand!Forms /\ [k \in Kinds |-> 0] \in [Kinds -> Brand!Values]
  BY BrandValues DEF Brand!NoKit, Brand!Kits, Brand!Default, Brand!Forms
<1>3. v1 \in Brand!Kits \cup {None} /\ v16 \in Brand!Kits /\ v3 \in Brand!Forms
      /\ v5 \in [Kinds -> Brand!Values] /\ v4 \in {0, 1}
  BY <1>2 DEF Brand!Init
<1>4. v6 \in [Kinds -> BOOLEAN]
  <2>1. v6 = [k \in Kinds |-> FALSE]
    BY DEF Brand!Init
  <2>. QED
    BY <2>1
<1>5. v11 = 0 /\ v12 = 0 /\ v13 = 0 /\ v14 = 0 /\ v15 = 0 /\ v7 = {} /\ v17 = {} /\ v10 = None
  BY DEF Brand!Init
<1>6. Brand!TypeOK
  <2>1. /\ v11 \in 0..MaxSaves /\ v12 \in 0..MaxTyped /\ v13 \in 0..MaxPictures
        /\ v14 \in 0..MaxSaves /\ v15 \in 0..MaxLost
    BY <1>0, <1>5
  <2>. QED
    BY <1>1, <1>3, <1>4, <1>5, <2>1 DEF Brand!TypeOK
<1>7. v1 # None => v1["extras"] \in {0, 1}
  BY DEF Brand!Init
<1>. QED
  BY <1>1, <1>5, <1>6, <1>7 DEF BrandTypes, SavesCounted

\* and stays so: there is a timer at most for every save that was answered.
LEMMA BrandTypesStep ==
  ASSUME BrandTypes, Brand!Next
  PROVE  BrandTypes'
<1>. USE DEF Brand!formVars, Brand!pictureVars, Brand!saveVars, Brand!history
<1>0. /\ MaxTyped \in Nat /\ MaxPictures \in Nat /\ MaxSaves \in Nat /\ MaxLost \in Nat
  BY BoundsAssumption
<1>t. /\ v1 \in Brand!Kits \cup {None} /\ v16 \in Brand!Kits
      /\ v3 \in Brand!Forms /\ v4 \in {0, 1}
      /\ {v2, v8, v9, v18, v19} \subseteq BOOLEAN
      /\ v5 \in [Kinds -> Brand!Values] /\ v6 \in [Kinds -> BOOLEAN]
      /\ \A u \in v7 : u.of \in Kinds /\ u.n \in Brand!Values
      /\ v10 \in Brand!Kits \cup {None} /\ v11 \in 0..MaxSaves /\ v17 \subseteq Brand!FormKeys
      /\ v12 \in 0..MaxTyped /\ v13 \in 0..MaxPictures /\ v14 \in 0..MaxSaves /\ v15 \in 0..MaxLost
  BY DEF BrandTypes, Brand!TypeOK
<1>n. /\ v11 + (IF v8 THEN 1 ELSE 0) <= v14
      /\ v8 => v10 \in Brand!Kits /\ v10["extras"] \in {0, 1}
      /\ v1 # None => v1["extras"] \in {0, 1}
  BY DEF BrandTypes, SavesCounted
<1>q. ASSUME v1' \in Brand!Kits \cup {None}, v16' \in Brand!Kits,
             v3' \in Brand!Forms, v4' \in {0, 1},
             ({v2, v8, v9, v18, v19} \subseteq BOOLEAN)',
             v5' \in [Kinds -> Brand!Values], v6' \in [Kinds -> BOOLEAN],
             \A u \in v7' : u.of \in Kinds /\ u.n \in Brand!Values,
             v10' \in Brand!Kits \cup {None}, v11' \in 0..MaxSaves, v17' \subseteq Brand!FormKeys,
             v12' \in 0..MaxTyped, v13' \in 0..MaxPictures, v14' \in 0..MaxSaves, v15' \in 0..MaxLost,
             v11' + (IF v8' THEN 1 ELSE 0) <= v14',
             v8' => v10' \in Brand!Kits /\ v10'["extras"] \in {0, 1},
             v1' # None => v1'["extras"] \in {0, 1}
      PROVE  BrandTypes'
  BY <1>q DEF BrandTypes, Brand!TypeOK, SavesCounted
<1>k. Brand!get_brand_kit \in Brand!Kits /\ Brand!get_brand_kit["extras"] \in {0, 1}
  <2>1. Brand!NoKit \in Brand!Kits /\ Brand!NoKit["extras"] = 0
    BY BrandValues DEF Brand!NoKit, Brand!Kits
  <2>. QED
    BY <1>n, <1>t, <2>1 DEF Brand!get_brand_kit
<1>f. ASSUME NEW f \in Brand!FormKeys, NEW x \in Brand!Values, Brand!setForm(f, x)
      PROVE  v3' \in Brand!Forms /\ v17' \subseteq Brand!FormKeys /\ v19' = TRUE
  BY <1>f, <1>t DEF Brand!setForm, Brand!Forms
<1>1. CASE Brand!Loaded
  <2>1. v3' = [f \in Brand!FormKeys |-> Brand!get_brand_kit[f]] /\ v4' = Brand!get_brand_kit["extras"]
    BY <1>1 DEF Brand!Loaded
  <2>2. v3' \in Brand!Forms /\ v4' \in {0, 1}
    BY <1>k, <2>1 DEF Brand!Forms, Brand!Kits
  <2>3. ({v2, v8, v9, v18, v19} \subseteq BOOLEAN)'
    BY <1>1, <1>t DEF Brand!Loaded
  <2>4. UNCHANGED <<v1, v5, v6, v7, v8, v10, v11, v12, v13, v14, v15, v16, v17>>
    BY <1>1 DEF Brand!Loaded
  <2>. QED
    BY <1>n, <1>q, <1>t, <2>2, <2>3, <2>4
<1>2. CASE Brand!NotLoaded
  <2>1. v15' \in 0..MaxLost
    BY <1>0, <1>2, <1>t DEF Brand!NotLoaded
  <2>2. ({v2, v8, v9, v18, v19} \subseteq BOOLEAN)'
    BY <1>2, <1>t DEF Brand!NotLoaded
  <2>3. UNCHANGED <<v1, v3, v4, v5, v6, v7, v8, v10, v11, v12, v13, v14, v16, v17>>
    BY <1>2 DEF Brand!NotLoaded
  <2>. QED
    BY <1>n, <1>q, <1>t, <2>1, <2>2, <2>3
<1>3. ASSUME NEW f \in Brand!Texts, Brand!type(f)
      PROVE  BrandTypes'
  <2>1. /\ v12 < MaxTyped /\ v12' = v12 + 1 /\ Brand!setForm(f, 1 + v12')
        /\ UNCHANGED <<v1, v2, v4, v5, v6, v7, v8, v9, v10, v11, v13, v14, v15, v16, v18>>
    BY <1>3 DEF Brand!type
  <2>2. v12' \in 0..MaxTyped /\ 1 + v12' \in Brand!Values
    BY <1>0, <1>t, <2>1, BrandValues
  <2>3. v3' \in Brand!Forms /\ v17' \subseteq Brand!FormKeys /\ v19' = TRUE
    BY <1>f, <2>1, <2>2 DEF Brand!FormKeys
  <2>4. ({v2, v8, v9, v18, v19} \subseteq BOOLEAN)'
    BY <1>t, <2>1, <2>3
  <2>. QED
    BY <1>n, <1>q, <1>t, <2>1, <2>2, <2>3, <2>4
<1>4. ASSUME NEW k \in Kinds, Brand!upload(k)
      PROVE  BrandTypes'
  <2>. DEFINE u == [of |-> k, n |-> 1 + MaxTyped + v13']
  <2>1. /\ v13 < MaxPictures /\ v13' = v13 + 1 /\ v5' = [v5 EXCEPT ![k] = 1 + MaxTyped + v13']
        /\ v6' = [v6 EXCEPT ![k] = TRUE] /\ v7' = v7 \cup {u}
        /\ UNCHANGED <<v1, v2, v3, v4, v8, v9, v10, v11, v12, v14, v15, v16, v17, v18, v19>>
    BY <1>4 DEF Brand!upload
  <2>2. v13' \in 0..MaxPictures /\ 1 + MaxTyped + v13' \in Brand!Values
    <3>1. v13 \in 0..MaxPictures /\ v13 < MaxPictures /\ v13' = v13 + 1
      BY <1>t, <2>1
    <3>. HIDE DEF u
    <3>2. 1 + MaxTyped + v13' \in Brand!Values
      BY <3>1, BrandValues, Zenon
    <3>. QED
      BY <1>0, <3>1, <3>2
  <2>3. u.of = k /\ u.n \in Brand!Values /\ v5' \in [Kinds -> Brand!Values]
    BY <1>t, <2>1, <2>2
  <2>4. v6' \in [Kinds -> BOOLEAN]
    BY <1>t, <2>1
  <2>5. ({v2, v8, v9, v18, v19} \subseteq BOOLEAN)'
    BY <1>t, <2>1
  <2>. HIDE DEF u
  <2>6. \A x \in v7' : x.of \in Kinds /\ x.n \in Brand!Values
    BY <1>t, <2>1, <2>3
  <2>7. v11' + (IF v8' THEN 1 ELSE 0) <= v14'
    BY <1>n, <2>1
  <2>8. UNCHANGED <<v1, v3, v4, v8, v10, v11, v12, v14, v15, v16, v17>>
    BY <2>1
  <2>. QED
    BY <1>n, <1>q, <1>t, <2>2, <2>3, <2>4, <2>5, <2>6, <2>7, <2>8
<1>5. ASSUME NEW u \in v7, Brand!uploadToS3(u)
      PROVE  BrandTypes'
  <2>1. /\ Brand!setForm(u.of, u.n) /\ v6' = [v6 EXCEPT ![u.of] = FALSE] /\ v7' = v7 \ {u}
        /\ UNCHANGED <<v1, v2, v4, v5, v8, v9, v10, v11, v12, v13, v14, v15, v16, v18>>
    BY <1>5 DEF Brand!uploadToS3
  <2>2. u.of \in Brand!FormKeys /\ u.n \in Brand!Values
    BY <1>t DEF Brand!FormKeys
  <2>3. v3' \in Brand!Forms /\ v17' \subseteq Brand!FormKeys /\ v19' = TRUE
    BY <1>f, <2>1, <2>2
  <2>4. v6' \in [Kinds -> BOOLEAN]
    BY <1>t, <2>1
  <2>5. ({v2, v8, v9, v18, v19} \subseteq BOOLEAN)'
    BY <1>t, <2>1, <2>3
  <2>. QED
    BY <1>n, <1>q, <1>t, <2>1, <2>3, <2>4, <2>5
<1>6. ASSUME NEW u \in v7, Brand!NotUploaded(u)
      PROVE  BrandTypes'
  <2>1. /\ v6' = [v6 EXCEPT ![u.of] = FALSE] /\ v7' = v7 \ {u} /\ v15 < MaxLost /\ v15' = v15 + 1
        /\ UNCHANGED <<v1, v2, v3, v4, v5, v8, v9, v10, v11, v12, v13, v14, v16, v17, v18, v19>>
    BY <1>6 DEF Brand!NotUploaded
  <2>2. v15' \in 0..MaxLost
    BY <1>0, <1>t, <2>1
  <2>3. v6' \in [Kinds -> BOOLEAN]
    BY <1>t, <2>1
  <2>4. ({v2, v8, v9, v18, v19} \subseteq BOOLEAN)'
    BY <1>t, <2>1
  <2>. QED
    BY <1>n, <1>q, <1>t, <2>1, <2>2, <2>3, <2>4
<1>7. ASSUME NEW k \in Kinds, Brand!remove(k)
      PROVE  BrandTypes'
  <2>1. /\ Brand!setForm(k, 0)
        /\ UNCHANGED <<v1, v2, v4, v5, v6, v7, v8, v9, v10, v11, v12, v13, v14, v15, v16, v18>>
    BY <1>7 DEF Brand!remove
  <2>2. v3' \in Brand!Forms /\ v17' \subseteq Brand!FormKeys /\ v19' = TRUE
    BY <1>f, <2>1, BrandValues DEF Brand!FormKeys
  <2>3. ({v2, v8, v9, v18, v19} \subseteq BOOLEAN)'
    BY <1>t, <2>1, <2>2
  <2>. QED
    BY <1>n, <1>q, <1>t, <2>1, <2>2, <2>3
<1>8. CASE Brand!handleSave
  <2>1. /\ ~v8 /\ v14 < MaxSaves /\ v14' = v14 + 1 /\ v10' = Brand!Body /\ v8' = TRUE
        /\ UNCHANGED <<v1, v2, v3, v4, v5, v6, v7, v11, v12, v13, v15, v16, v17, v18>>
    BY <1>8 DEF Brand!handleSave, Brand!SaveButton
  <2>2. v10' \in Brand!Kits /\ v10'["extras"] \in {0, 1}
    <3>1. v4 \in Brand!Values
      BY <1>t, BrandValues
    <3>. QED
      BY <1>t, <2>1, <3>1 DEF Brand!Body, Brand!Kits, Brand!Forms
  <2>3. v14' \in 0..MaxSaves /\ v11' + 1 <= v14'
    BY <1>0, <1>n, <1>t, <2>1
  <2>4. ({v2, v8, v9, v18, v19} \subseteq BOOLEAN)'
    BY <1>8, <1>t DEF Brand!handleSave
  <2>. QED
    BY <1>n, <1>q, <1>t, <2>1, <2>2, <2>3, <2>4
<1>u. ASSUME v8
      PROVE  /\ Brand!upsert_brand_kit(v10) \in Brand!Kits
             /\ Brand!upsert_brand_kit(v10)["extras"] \in {0, 1}
  BY <1>k, <1>n, <1>u, ShownAssumption DEF Brand!upsert_brand_kit, Brand!Kits
<1>9. CASE Brand!Saved
  <2>1. /\ v8 /\ v1' = Brand!upsert_brand_kit(v10) /\ ~v8' /\ v10' = None /\ v11' = v11 + 1
        /\ UNCHANGED <<v2, v3, v4, v5, v6, v7, v12, v13, v14, v15, v16, v17, v18, v19>>
    BY <1>9 DEF Brand!Saved
  <2>2. v1' \in Brand!Kits /\ v1'["extras"] \in {0, 1}
    BY <1>u, <2>1
  <2>3. v11' \in 0..MaxSaves /\ v11' <= v14' /\ v11' + 0 = v11'
    BY <1>0, <1>n, <1>t, <2>1
  <2>4. ({v2, v8, v9, v18, v19} \subseteq BOOLEAN)'
    BY <1>9, <1>t DEF Brand!Saved
  <2>. QED
    BY <1>q, <1>t, <2>1, <2>2, <2>3, <2>4
<1>10. ASSUME NEW b \in BOOLEAN, Brand!NotSaved(b)
       PROVE  BrandTypes'
  <2>1. /\ v8 /\ v1' \in {v1, Brand!upsert_brand_kit(v10)} /\ ~v8' /\ v10' = None
        /\ v15 < MaxLost /\ v15' = v15 + 1
        /\ UNCHANGED <<v2, v3, v4, v5, v6, v7, v9, v11, v12, v13, v14, v16, v17, v18, v19>>
    BY <1>10 DEF Brand!NotSaved
  <2>2. v1' \in Brand!Kits \cup {None} /\ (v1' # None => v1'["extras"] \in {0, 1})
    BY <1>n, <1>t, <1>u, <2>1
  <2>3. v15' \in 0..MaxLost /\ v11' <= v14' /\ v11' + 0 = v11'
    BY <1>0, <1>n, <1>t, <2>1
  <2>4. ({v2, v8, v9, v18, v19} \subseteq BOOLEAN)'
    BY <1>10, <1>t DEF Brand!NotSaved
  <2>. QED
    BY <1>q, <1>t, <2>1, <2>2, <2>3, <2>4
<1>11. CASE Brand!SavedFades
  <2>1. /\ v11 > 0 /\ v11' = v11 - 1
        /\ UNCHANGED <<v1, v2, v3, v4, v5, v6, v7, v8, v10, v12, v13, v14, v15, v16, v17, v18, v19>>
    BY <1>11 DEF Brand!SavedFades
  <2>2. v11' \in 0..MaxSaves
    BY <1>0, <1>t, <2>1
  <2>3. v11' + (IF v8 THEN 1 ELSE 0) <= v14
    <3>1. v11' + 1 = v11 /\ v11' + 0 <= v14 /\ v11' + 1 <= v14
      BY <1>0, <1>n, <1>t, <2>1
    <3>. QED
      BY <3>1
  <2>4. ({v2, v8, v9, v18, v19} \subseteq BOOLEAN)'
    BY <1>11, <1>t DEF Brand!SavedFades
  <2>. QED
    BY <1>n, <1>q, <1>t, <2>1, <2>2, <2>3, <2>4
<1>. QED
  BY <1>1, <1>2, <1>3, <1>4, <1>5, <1>6, <1>7, <1>8, <1>9, <1>10, <1>11 DEF Brand!Next

-----------------------------------------------------------------------------
\* The dashboard starts well typed,
LEMMA DashTypesInit ==
  ASSUME Dash!Init
  PROVE  Dash!TypeOK
<1>1. {v5, v12} \subseteq BOOLEAN
  BY DEF Dash!Init
<1>2. v10 = <<>> /\ v9 = {} /\ Dash!Cardinality(v9) = 0 /\ DOMAIN v10 = {}
  <2>1. v10 = <<>> /\ v9 = {}
    BY DEF Dash!Init
  <2>2. DOMAIN v10 = {}
    BY <2>1
  <2>. QED
    BY <2>1, <2>2, DashCardinality, FS_EmptySet
<1>3. DOMAIN v10 = 1..Dash!Cardinality(v9)
  BY <1>2
<1>4. MaxChanged \in Nat
  BY BoundsAssumption
<1>5. /\ v1 \in [Dash!Listings -> Dash!States \cup {None}] /\ v2 = Dash!NoListings
      /\ v3 = Dash!NoListings /\ v4 = {} /\ v6 = "first" /\ v7 = None /\ v8 = Dash!NotAsked
      /\ v11 = None /\ v13 = None /\ v14 = 0
  BY DEF Dash!Init
<1>6. /\ Dash!NoListings \in [Dash!Listings -> Dash!States \cup {None}]
      /\ Dash!NoListings \in [Dash!Listings -> Dash!Listings \cup {None}]
      /\ Dash!NotAsked \in [Dash!Others -> {None, "ok", "failed"}]
  BY DEF Dash!NoListings, Dash!NotAsked
<1>. QED
  BY <1>1, <1>2, <1>3, <1>4, <1>5, <1>6 DEF Dash!TypeOK

\* and stays so: the bars asked for are those of a listing in the list.
LEMMA DashTypesStep ==
  ASSUME Dash!TypeOK, Dash!BarsInv, Dash!Next
  PROVE  Dash!TypeOK'
<1>. USE DEF Dash!pageVars, Dash!fetchVars, Dash!cardVars
<1>. DEFINE Fun == [Dash!Listings -> Dash!States \cup {None}]
<1>0. MaxChanged \in Nat
  BY BoundsAssumption
<1>t. /\ v1 \in Fun /\ v2 \in Fun
      /\ v3 \in [Dash!Listings -> Dash!Listings \cup {None}] /\ v4 \subseteq Dash!Others
      /\ {v5, v12} \subseteq BOOLEAN /\ v6 \in {"first", "pipelines", "done"}
      /\ v7 \in {None} \cup Fun
      /\ v8 \in [Dash!Others -> {None, "ok", "failed"}]
      /\ v9 \subseteq Dash!Listings /\ DOMAIN v10 = 1..Dash!Cardinality(v9)
      /\ \A i \in DOMAIN v10 : v10[i] \in v9 \cup {None, Dash!Failed}
      /\ v11 \in Dash!Listings \cup {None} /\ v13 \in {None, "pending", "ok", "error"}
      /\ v14 \in 0..MaxChanged
  BY DEF Dash!TypeOK
<1>q. ASSUME v1' \in Fun, v2' \in Fun,
             v3' \in [Dash!Listings -> Dash!Listings \cup {None}], v4' \subseteq Dash!Others,
             ({v5, v12} \subseteq BOOLEAN)', v6' \in {"first", "pipelines", "done"},
             v7' \in {None} \cup Fun,
             v8' \in [Dash!Others -> {None, "ok", "failed"}],
             v9' \subseteq Dash!Listings, DOMAIN v10' = 1..Dash!Cardinality(v9'),
             \A i \in DOMAIN v10' : v10'[i] \in v9' \cup {None, Dash!Failed},
             v11' \in Dash!Listings \cup {None}, v13' \in {None, "pending", "ok", "error"},
             v14' \in 0..MaxChanged
      PROVE  Dash!TypeOK'
  BY <1>q DEF Dash!TypeOK
<1>l. Dash!NoListings \in Fun
  BY DEF Dash!NoListings
<1>. HIDE DEF Fun
<1>1. ASSUME NEW ok \in BOOLEAN, Dash!listingsEnd(ok)
      PROVE  Dash!TypeOK'
  <2>1. v7' \in {None} \cup Fun
    BY <1>1, <1>l, <1>t DEF Dash!listingsEnd
  <2>2. UNCHANGED <<v1, v2, v3, v4, v5, v6, v8, v9, v10, v11, v12, v13, v14>>
    BY <1>1 DEF Dash!listingsEnd
  <2>. QED
    BY <1>q, <1>t, <2>1, <2>2
<1>2. ASSUME NEW r \in Dash!Others, NEW ok \in BOOLEAN, Dash!otherEnds(r, ok)
      PROVE  Dash!TypeOK'
  <2>1. v8' \in [Dash!Others -> {None, "ok", "failed"}]
    BY <1>2, <1>t DEF Dash!otherEnds
  <2>2. UNCHANGED <<v1, v2, v3, v4, v5, v6, v7, v9, v10, v11, v12, v13, v14>>
    BY <1>2 DEF Dash!otherEnds
  <2>. QED
    BY <1>q, <1>t, <2>1, <2>2
<1>3. CASE Dash!allSettled
  <2>1. /\ v4' \subseteq Dash!Others /\ v2' = v7 /\ v7 # None
        /\ v9' = Dash!slice({l \in Dash!Listings : v2'[l] \in Dash!activeStates}, READ)
        /\ v10' = [i \in 1..Dash!Cardinality(v9') |-> None]
        /\ UNCHANGED <<v1, v3, v7, v8, v11, v12, v13, v14>>
    BY <1>3 DEF Dash!allSettled
  <2>2. v9' \subseteq Dash!Listings
    BY <2>1, SliceIn
  <2>3. v6' \in {"first", "pipelines", "done"}
    BY <1>3 DEF Dash!allSettled
  <2>4. ({v5, v12} \subseteq BOOLEAN)'
    BY <1>3, <1>t DEF Dash!allSettled
  <2>5. DOMAIN v10' = 1..Dash!Cardinality(v9') /\ \A i \in DOMAIN v10' : v10'[i] = None
    BY <2>1
  <2>6. v2' \in Fun
    BY <1>t, <2>1
  <2>. QED
    BY <1>q, <1>t, <2>1, <2>2, <2>3, <2>4, <2>5, <2>6
<1>4. ASSUME NEW l \in Dash!Listings, NEW ok \in BOOLEAN, Dash!pipelineEnds(l, ok)
      PROVE  Dash!TypeOK'
  <2>1. /\ l \in v9 /\ v10' = [v10 EXCEPT ![Dash!Rank(l, v9)] = IF ok THEN l ELSE Dash!Failed]
        /\ UNCHANGED <<v1, v2, v3, v4, v5, v6, v7, v8, v9, v11, v12, v13, v14>>
    BY <1>4 DEF Dash!pipelineEnds
  <2>2. DOMAIN v10' = DOMAIN v10 /\ \A i \in DOMAIN v10' : v10'[i] \in v9 \cup {None, Dash!Failed}
    BY <1>t, <2>1
  <2>3. Dash!Cardinality(v9') = Dash!Cardinality(v9)
    BY <2>1
  <2>. QED
    BY <1>q, <1>t, <2>1, <2>2, <2>3
<1>5. CASE Dash!pipelinesSettled
  <2>1. /\ v6 = "pipelines" /\ v6' = "done" /\ v3' = Dash!BarsOfAnswers
        /\ \A i \in DOMAIN v10 : v10[i] # None
        /\ UNCHANGED <<v1, v2, v4, v7, v8, v9, v10, v11, v12, v13, v14>>
    BY <1>5 DEF Dash!pipelinesSettled
  <2>2. IsFiniteSet(v9) /\ v9 \subseteq Nat /\ DOMAIN v10 = 1..Cardinality(v9)
    <3>1. v9 = Dash!slice({l \in Dash!Listings : v2[l] \in Dash!activeStates}, READ)
      BY <2>1 DEF Dash!BarsInv
    <3>2. IsFiniteSet(v9) /\ v9 \subseteq Nat
      BY <3>1, SliceIn
    <3>. QED
      BY <1>t, <3>2, DashCardinality
  <2>3. \A j \in DOMAIN v10 : Dash!Row(j) \in v9 /\ Dash!Rank(Dash!Row(j), v9) = j
    BY <2>2, RankOnto DEF Dash!Row
  <2>4. ASSUME NEW l \in Dash!Listings
        PROVE  (IF \E i \in Dash!Fulfilled : Dash!Row(i) = l THEN v10[Dash!Rank(l, v9)]
                                                             ELSE None) \in Dash!Listings \cup {None}
    BY <1>t, <2>1, <2>3 DEF Dash!Fulfilled
  <2>5. v3' \in [Dash!Listings -> Dash!Listings \cup {None}]
    BY <2>1, <2>4 DEF Dash!BarsOfAnswers
  <2>6. ({v5, v12} \subseteq BOOLEAN)'
    BY <1>5, <1>t DEF Dash!pipelinesSettled
  <2>7. Dash!Cardinality(v9') = Dash!Cardinality(v9)
    BY <2>1
  <2>. QED
    BY <1>q, <1>t, <2>1, <2>5, <2>6, <2>7
<1>s. ASSUME UNCHANGED <<v2, v3, v4, v5, v6, v7, v8, v9, v10>>, v1' \in Fun,
             v11' \in Dash!Listings \cup {None}, v12' \in BOOLEAN,
             v13' \in {None, "pending", "ok", "error"}, v14' \in 0..MaxChanged
      PROVE  Dash!TypeOK'
  <2>1. ({v5, v12} \subseteq BOOLEAN)'
    BY <1>s, <1>t
  <2>2. Dash!Cardinality(v9') = Dash!Cardinality(v9)
    BY <1>s
  <2>. QED
    BY <1>q, <1>s, <1>t, <2>1, <2>2
<1>6. ASSUME NEW l \in Dash!Listings, Dash!setConfirming(l)
      PROVE  Dash!TypeOK'
  <2>1. v12' \in BOOLEAN
    BY <1>6, <1>t DEF Dash!setConfirming
  <2>. QED
    BY <1>6, <1>s, <1>t, <2>1 DEF Dash!setConfirming
<1>7. CASE Dash!setDeleting
  <2>1. v12' \in BOOLEAN
    BY <1>7 DEF Dash!setDeleting
  <2>. QED
    BY <1>7, <1>s, <1>t, <2>1 DEF Dash!setDeleting
<1>8. CASE Dash!deleteListing
  <2>1. v12' \in BOOLEAN
    BY <1>8, <1>t DEF Dash!deleteListing
  <2>2. v1' \in Fun
    BY <1>8, <1>t DEF Dash!deleteListing, Fun
  <2>. QED
    BY <1>8, <1>s, <1>t, <2>1, <2>2 DEF Dash!deleteListing
<1>9. CASE Dash!DeletionLost \/ Dash!Deleted
  <2>1. v12' \in BOOLEAN
    BY <1>9, <1>t DEF Dash!DeletionLost, Dash!Deleted
  <2>. QED
    BY <1>9, <1>s, <1>t, <2>1 DEF Dash!DeletionLost, Dash!Deleted
<1>10. CASE Dash!DeletionFailed
  <2>1. v12' \in BOOLEAN
    BY <1>10 DEF Dash!DeletionFailed
  <2>. QED
    BY <1>10, <1>s, <1>t, <2>1 DEF Dash!DeletionFailed
<1>11. ASSUME NEW l \in Dash!Listings, NEW st \in Dash!States \cup {None}, Dash!Change(l, st)
       PROVE  Dash!TypeOK'
  <2>1. v12' \in BOOLEAN
    BY <1>11, <1>t DEF Dash!Change
  <2>2. v1' \in Fun /\ v14' \in 0..MaxChanged
    BY <1>0, <1>11, <1>t DEF Dash!Change, Fun
  <2>. QED
    BY <1>11, <1>s, <1>t, <2>1, <2>2 DEF Dash!Change
<1>. QED
  BY <1>1, <1>2, <1>3, <1>4, <1>5, <1>6, <1>7, <1>8, <1>9, <1>10, <1>11 DEF Dash!Next

-----------------------------------------------------------------------------
\* A photo that has its key is one of the batch.
KeysInBatch == v3 # None => v3.keys \subseteq DOMAIN v3.photos
DemoTypes == Demo!TypeOK /\ KeysInBatch

\* The demo starts well typed,
LEMMA DemoTypesInit ==
  ASSUME Demo!Init
  PROVE  DemoTypes
<1>1. v1 \in Demo!BoundedSeq(Demo!Rows, MAX_FILES)
  BY DemoInvInit DEF DemoInv
<1>2. {v2, v7, v12} \subseteq BOOLEAN
  BY DEF Demo!Init
<1>3. MaxLost \in Nat
  BY BoundsAssumption
<1>4. Demo!TypeOK
  BY <1>1, <1>2, <1>3 DEF Demo!Init, Demo!TypeOK
<1>. QED
  BY <1>4 DEF DemoTypes, KeysInBatch, Demo!Init

\* and a run over its rows stays so: a key that comes back is of a photo it uploaded.
LEMMA DemoTypesStep ==
  ASSUME DemoTypes, DemoInv, DemoInv', ClaimsInv, Demo!Next
  PROVE  DemoTypes'
<1>. USE DEF Demo!formVars, Demo!serverVars, Demo!visitVars
<1>0. MaxLost \in Nat /\ MAX_FILES \in Nat
  BY BoundsAssumption, FormsAssumption
<1>t. /\ {v2, v7, v12} \subseteq BOOLEAN /\ v3 \in Demo!Batches \cup {None}
      /\ v4 \subseteq People /\ v5 \subseteq DemoFiles
      /\ v6 \in Demo!Demos \cup {None}
      /\ v8 \in [People -> {"none", "asked", "checked", "ok", "error"}]
      /\ v9 \in [People -> {"demo", "results", "register", "listing", "onboarding"}]
      /\ v10 \in [People -> {0, 1}] /\ v11 \in 0..MaxLost
      /\ v3 # None => v3.keys \subseteq DOMAIN v3.photos
  BY DEF DemoTypes, Demo!TypeOK, KeysInBatch
<1>f. /\ v1' \in Demo!BoundedSeq(Demo!Rows, MAX_FILES)
      /\ v3' \in Demo!Batches \cup {None}
  BY DEF DemoInv
<1>q. ASSUME ({v2, v7, v12} \subseteq BOOLEAN)',
             v4' \subseteq People, v5' \subseteq DemoFiles,
             v6' \in Demo!Demos \cup {None},
             v8' \in [People -> {"none", "asked", "checked", "ok", "error"}],
             v9' \in [People -> {"demo", "results", "register", "listing", "onboarding"}],
             v10' \in [People -> {0, 1}], v11' \in 0..MaxLost,
             v3' # None => v3'.keys \subseteq DOMAIN v3'.photos
      PROVE  DemoTypes'
  BY <1>f, <1>q DEF DemoTypes, Demo!TypeOK, KeysInBatch
\* The photos of a batch are files that were chosen.
<1>b. ASSUME v3 # None
      PROVE  /\ v3 \in Demo!Batches /\ v3.keys \subseteq DOMAIN v3.photos
             /\ DOMAIN v3.photos = 1..Len(v3.photos)
             /\ \A i \in DOMAIN v3.photos : v3.photos[i] \in DemoFiles
  <2>1. v3 \in Demo!Batches
    BY <1>b, <1>t
  <2>2. v3.photos \in Demo!BoundedSeq(DemoFiles, MAX_FILES)
    BY <2>1 DEF Demo!Batches
  <2>3. /\ v3.photos \in Seq(DemoFiles) /\ DOMAIN v3.photos = 1..Len(v3.photos)
    BY <1>0, <2>2, DemoBounded
  <2>. QED
    BY <1>b, <1>t, <2>1, <2>3, ElementOfSeq
<1>1. ASSUME \/ \E f \in DemoFiles : Demo!addFiles(f)
             \/ \E i \in DOMAIN v1 : Demo!removeFile(i)
             \/ Demo!ClearAll
      PROVE  DemoTypes'
  <2>1. UNCHANGED <<v2, v3, v4, v5, v6, v7, v8, v9, v10, v11, v12>>
    BY <1>1 DEF Demo!addFiles, Demo!removeFile, Demo!ClearAll
  <2>2. ({v2, v7, v12} \subseteq BOOLEAN)'
    BY <1>t, <2>1
  <2>. QED
    BY <1>q, <1>t, <2>1, <2>2
<1>2. CASE Demo!handleUpload
  <2>1. /\ v2' = TRUE
        /\ v3' = [photos |-> [i \in DOMAIN v1 |-> v1[i].file], next |-> 0, keys |-> {}]
        /\ UNCHANGED <<v4, v5, v6, v7, v8, v9, v10, v11, v12>>
    BY <1>2 DEF Demo!handleUpload
  <2>2. v3'.keys \subseteq DOMAIN v3'.photos
    BY <2>1
  <2>3. ({v2, v7, v12} \subseteq BOOLEAN)'
    BY <1>t, <2>1
  <2>. QED
    BY <1>q, <1>t, <2>1, <2>2, <2>3
<1>c. ASSUME Demo!Created
      PROVE  v6' \in Demo!Demos
  BY <1>c DEF Demo!Created, Demo!Demos
<1>3. CASE Demo!demo_create
  <2>1. /\ v3 # None /\ v3' = [v3 EXCEPT !.next = 1] /\ Demo!Created
        /\ UNCHANGED <<v1, v2, v4, v5, v7, v8, v9, v10, v11, v12>>
    BY <1>3 DEF Demo!demo_create, Demo!Creates
  <2>2. v3'.keys \subseteq DOMAIN v3'.photos
    BY <1>b, <2>1 DEF Demo!Batches
  <2>3. ({v2, v7, v12} \subseteq BOOLEAN)'
    BY <1>t, <2>1
  <2>. QED
    BY <1>c, <1>q, <1>t, <2>1, <2>2, <2>3
\* The run ends without a result.
<1>e. ASSUME Demo!UploadFailed, v6' \in Demo!Demos \cup {None}, v11' \in {v11, v11 + 1},
             v11' > v11 => v11 < MaxLost, UNCHANGED <<v4, v5, v7, v8, v9, v10, v12>>
      PROVE  DemoTypes'
  <2>1. v2' = FALSE /\ v3' = None
    BY <1>e DEF Demo!UploadFailed
  <2>2. v11' \in 0..MaxLost
    BY <1>0, <1>e, <1>t
  <2>3. ({v2, v7, v12} \subseteq BOOLEAN)'
    BY <1>e, <1>t, <2>1
  <2>. QED
    BY <1>e, <1>q, <1>t, <2>1, <2>2, <2>3
<1>i. v11 \in Nat /\ ~(v11 > v11) /\ v11 + 1 \in Nat
  BY <1>0, <1>t
<1>4. CASE Demo!Refused \/ Demo!TooFew
  <2>1. Demo!UploadFailed /\ UNCHANGED <<v4, v5, v6, v7, v8, v9, v10, v11, v12>>
    BY <1>4 DEF Demo!Refused, Demo!TooFew
  <2>. QED
    BY <1>e, <1>i, <1>t, <2>1
<1>5. CASE Demo!CreateLost
  <2>1. /\ Demo!UploadFailed /\ v11 < MaxLost /\ v11' = v11 + 1 /\ (Demo!Created \/ v6' = v6)
        /\ UNCHANGED <<v4, v5, v7, v8, v9, v10, v12>>
    BY <1>5 DEF Demo!CreateLost
  <2>. QED
    BY <1>c, <1>e, <1>t, <2>1
<1>6. CASE Demo!Uploaded
  <2>1. /\ v3 # None /\ v3.next \in 1..Len(v3.photos)
        /\ v5' = v5 \cup {v3.photos[v3.next]}
        /\ v3' = [v3 EXCEPT !.next = @ + 1, !.keys = @ \cup {v3.next}]
        /\ UNCHANGED <<v2, v4, v6, v7, v8, v9, v10, v11, v12>>
    BY <1>6 DEF Demo!Uploaded
  <2>2. v3.next \in DOMAIN v3.photos /\ v3.photos[v3.next] \in DemoFiles
    BY <1>b, <2>1
  <2>3. v3'.keys \subseteq DOMAIN v3'.photos
    BY <1>b, <2>1, <2>2 DEF Demo!Batches
  <2>4. ({v2, v7, v12} \subseteq BOOLEAN)'
    BY <1>t, <2>1
  <2>. QED
    BY <1>q, <1>t, <2>1, <2>2, <2>3, <2>4
<1>7. CASE Demo!NotUploaded
  <2>1. /\ v3 # None /\ v3' = [v3 EXCEPT !.next = @ + 1] /\ v11 < MaxLost /\ v11' = v11 + 1
        /\ UNCHANGED <<v2, v4, v5, v6, v7, v8, v9, v10, v12>>
    BY <1>7 DEF Demo!NotUploaded
  <2>2. v3'.keys \subseteq DOMAIN v3'.photos
    BY <1>b, <2>1 DEF Demo!Batches
  <2>3. ({v2, v7, v12} \subseteq BOOLEAN)'
    BY <1>t, <2>1
  <2>4. v11' \in 0..MaxLost
    BY <1>0, <1>t, <2>1
  <2>. QED
    BY <1>q, <1>t, <2>1, <2>2, <2>3, <2>4
<1>8. CASE Demo!demo_finalize
  <2>1. /\ v3 # None /\ v6 # None /\ v6' = [v6 EXCEPT !.photos = {v3.photos[i] : i \in v3.keys}]
        /\ v9' = [v9 EXCEPT ![Demo!Maker] = "results"] /\ v3' = None
        /\ UNCHANGED <<v2, v4, v5, v7, v8, v10, v11, v12>>
    BY <1>8 DEF Demo!demo_finalize, Demo!AllTried, Demo!Open, Demo!There
  <2>2. {v3.photos[i] : i \in v3.keys} \subseteq DemoFiles
    BY <1>b, <2>1
  <2>3. v6' \in Demo!Demos
    BY <1>t, <2>1, <2>2 DEF Demo!Demos
  <2>4. ({v2, v7, v12} \subseteq BOOLEAN)'
    BY <1>t, <2>1
  <2>5. v9' \in [People -> {"demo", "results", "register", "listing", "onboarding"}]
    BY <1>t, <2>1
  <2>. QED
    BY <1>q, <1>t, <2>1, <2>3, <2>4, <2>5
<1>9. CASE Demo!NotFinalized
  <2>1. /\ Demo!UploadFailed /\ UNCHANGED <<v4, v5, v6, v7, v8, v9, v10, v12>>
        /\ v11' = v11 \/ (v11 < MaxLost /\ v11' = v11 + 1)
    BY <1>9 DEF Demo!NotFinalized
  <2>. QED
    BY <1>e, <1>i, <1>t, <2>1
\* The visitors.
<1>s. ASSUME UNCHANGED <<v2, v3, v5, v7, v11>>, v12' \in BOOLEAN, v4' \subseteq People,
             v6' \in Demo!Demos \cup {None},
             v8' \in [People -> {"none", "asked", "checked", "ok", "error"}],
             v9' \in [People -> {"demo", "results", "register", "listing", "onboarding"}],
             v10' \in [People -> {0, 1}]
      PROVE  DemoTypes'
  <2>1. ({v2, v7, v12} \subseteq BOOLEAN)'
    BY <1>s, <1>t
  <2>. QED
    BY <1>q, <1>s, <1>t, <2>1
<1>10. ASSUME NEW v \in People, Demo!demo_view(v) \/ Demo!ToRegister(v) \/ Demo!Arrived(v)
       PROVE  DemoTypes'
  <2>1. /\ v9' \in [People -> {"demo", "results", "register", "listing", "onboarding"}]
        /\ UNCHANGED <<v2, v3, v4, v5, v6, v7, v8, v10, v11, v12>>
    BY <1>10, <1>t DEF Demo!demo_view, Demo!ToRegister, Demo!Arrived
  <2>2. v12' \in BOOLEAN
    BY <1>t, <2>1
  <2>. QED
    BY <1>s, <1>t, <2>1, <2>2
<1>11. ASSUME NEW v \in People, Demo!handleClaim(v)
       PROVE  DemoTypes'
  <2>1. /\ v8' \in [People -> {"none", "asked", "checked", "ok", "error"}]
        /\ UNCHANGED <<v2, v3, v4, v5, v6, v7, v9, v10, v11, v12>>
    BY <1>11, <1>t DEF Demo!handleClaim
  <2>2. v12' \in BOOLEAN
    BY <1>t, <2>1
  <2>. QED
    BY <1>s, <1>t, <2>1, <2>2
<1>12. ASSUME NEW v \in People, Demo!CheckClaim(v)
       PROVE  DemoTypes'
  <2>1. /\ v8' \in [People -> {"none", "asked", "checked", "ok", "error"}]
        /\ UNCHANGED <<v2, v3, v4, v5, v6, v7, v9, v10, v11>>
    BY <1>12, <1>t DEF Demo!CheckClaim, Demo!Claiming
  <2>2. v12' \in BOOLEAN
    BY <1>12, <1>t DEF Demo!CheckClaim
  <2>. QED
    BY <1>s, <1>t, <2>1, <2>2
<1>13. ASSUME NEW v \in People, Demo!demo_claim(v)
       PROVE  DemoTypes'
  <2>1. /\ v8' \in [People -> {"none", "asked", "checked", "ok", "error"}]
        /\ UNCHANGED <<v2, v3, v4, v5, v7, v9, v10, v11>>
    BY <1>13, <1>t DEF Demo!demo_claim, Demo!Claiming
  <2>2. v12' \in BOOLEAN
    BY <1>13, <1>t DEF Demo!demo_claim
  <2>3. v6' \in Demo!Demos \cup {None}
    <3>1. <<v, v10[v]>> \in Demo!Accounts
      BY <1>t DEF Demo!Accounts
    <3>. QED
      BY <1>13, <1>t, <3>1 DEF Demo!demo_claim, Demo!There, Demo!Demos
  <2>. QED
    BY <1>s, <1>t, <2>1, <2>2, <2>3
<1>14. ASSUME NEW v \in People, Demo!Registered(v)
       PROVE  DemoTypes'
  <2>1. /\ v8' \in [People -> {"none", "asked", "checked", "ok", "error"}]
        /\ v10' \in [People -> {0, 1}] /\ v4' \subseteq People
        /\ UNCHANGED <<v2, v3, v5, v6, v7, v9, v11, v12>>
    BY <1>14, <1>t DEF Demo!Registered, Demo!Claiming
  <2>2. v12' \in BOOLEAN
    BY <1>t, <2>1
  <2>. QED
    BY <1>s, <1>t, <2>1, <2>2
\* The demo expires and is cleaned up.
<1>15. CASE Demo!Expire
  <2>1. /\ v6 # None /\ v6' = [v6 EXCEPT !.expired = TRUE]
        /\ UNCHANGED <<v2, v3, v4, v5, v7, v8, v9, v10, v11, v12>>
    BY <1>15 DEF Demo!Expire, Demo!Open, Demo!There
  <2>2. v6' \in Demo!Demos /\ v12' \in BOOLEAN
    <3>1. v6' \in Demo!Demos
      BY <1>t, <2>1 DEF Demo!Demos
    <3>2. v12' \in BOOLEAN
      BY <1>t, <2>1
    <3>. QED
      BY <3>1, <3>2
  <2>. QED
    BY <1>s, <1>t, <2>1, <2>2
<1>16. CASE Demo!SelectExpired
  <2>1. v5' \subseteq DemoFiles /\ v7' = TRUE
        /\ UNCHANGED <<v2, v3, v4, v6, v8, v9, v10, v11, v12>>
    BY <1>16, <1>t DEF Demo!SelectExpired
  <2>2. ({v2, v7, v12} \subseteq BOOLEAN)'
    BY <1>t, <2>1
  <2>. QED
    BY <1>q, <1>t, <2>1, <2>2
<1>17. CASE Demo!cleanup_expired_demos
  <2>1. /\ v7 /\ v7' = FALSE /\ v6' = [v6 EXCEPT !.deleted = TRUE]
        /\ UNCHANGED <<v2, v3, v4, v5, v8, v9, v10, v11, v12>>
    BY <1>17 DEF Demo!cleanup_expired_demos
  <2>2. v6 \in Demo!Demos
    BY <1>t, <2>1 DEF ClaimsInv, Demo!ClaimInv, Demo!There
  <2>3. v6' \in Demo!Demos
    BY <2>1, <2>2 DEF Demo!Demos
  <2>4. ({v2, v7, v12} \subseteq BOOLEAN)'
    BY <1>t, <2>1
  <2>. QED
    BY <1>q, <1>t, <2>1, <2>3, <2>4
<1>. QED
  BY <1>1, <1>2, <1>3, <1>4, <1>5, <1>6, <1>7, <1>8, <1>9, <1>10, <1>11, <1>12, <1>13, <1>14,
     <1>15, <1>16, <1>17 DEF Demo!Next

-----------------------------------------------------------------------------
\* Every answer adds a page at most to the list, and every request has one answer.
PagesCounted ==
  /\ IsFiniteSet(v5) /\ Cardinality(v5) <= v6
  /\ Len(v3) <= PAGE * (v6 - Cardinality(v5))
AuditTypes == Audit!TypeOK /\ PagesCounted

\* The audit log starts well typed,
LEMMA AuditTypesInit ==
  ASSUME Audit!Init
  PROVE  AuditTypes
<1>0. MaxPages \in Nat \ {0} /\ MaxLost \in Nat /\ PAGE \in Nat
  BY BoundsAssumption, ShownAssumption
<1>1. /\ v1 = <<>> /\ v3 = <<>> /\ v2 = None /\ v6 = 1 /\ v7 = 0 /\ v8 = {}
      /\ v5 = {[n |-> 1, op |-> "fill", of |-> None, offset |-> 0]}
  BY DEF Audit!Init
<1>2. {v4, v9} \subseteq BOOLEAN
  BY DEF Audit!Init
<1>3. v3 \in Seq(Audit!Entries) /\ v1 \in Seq(Audit!Entries) /\ Len(v3) = 0
  BY <1>1, EmptySeq
<1>4. IsFiniteSet(v5) /\ Cardinality(v5) = 1
  BY <1>1, FS_Singleton
<1>5. v5 \subseteq [n : 1..MaxPages, op : {"fill", "more"}, of : Audit!Filters, offset : Nat]
  <2>1. 1 \in 1..MaxPages /\ None \in Audit!Filters /\ 0 \in Nat
    BY <1>0 DEF Audit!Filters
  <2>. QED
    BY <1>1, <2>1
<1>6. PAGE * 0 = 0 /\ 0 <= PAGE * MaxPages
  BY <1>0
<1>7. Audit!TypeOK
  BY <1>0, <1>1, <1>2, <1>3, <1>5, <1>6 DEF Audit!TypeOK, Audit!Filters
<1>8. PagesCounted
  BY <1>1, <1>3, <1>4, <1>6 DEF PagesCounted
<1>. QED
  BY <1>7, <1>8 DEF AuditTypes

\* and stays so: no answer is shown twice, so the list is no longer than its pages.
LEMMA AuditTypesStep ==
  ASSUME AuditTypes, Audit!LogInv, Audit!LogInv', Audit!Next
  PROVE  AuditTypes'
<1>. DEFINE Requests == [n : 1..MaxPages, op : {"fill", "more"}, of : Audit!Filters, offset : Nat]
            c == Cardinality(v5)
<1>0. MaxPages \in Nat \ {0} /\ MaxLost \in Nat /\ PAGE \in Nat
  BY BoundsAssumption, ShownAssumption
<1>t. /\ {v4, v9} \subseteq BOOLEAN /\ v5 \subseteq Requests
      /\ v6 \in 1..MaxPages /\ v7 \in 0..MaxLost
      /\ IsFiniteSet(v5) /\ c <= v6 /\ Len(v3) <= PAGE * (v6 - c)
  BY DEF AuditTypes, Audit!TypeOK, PagesCounted
<1>l. /\ v1 \in Seq(Audit!Entries) /\ v3 \in Seq(Audit!Entries) /\ Len(v3) \in Nat
      /\ v2 \in Audit!Filters /\ \A r \in v5 : r.of \in Audit!Filters /\ r.offset \in Nat
  BY LenProperties DEF Audit!LogInv
<1>m. /\ v1' \in Seq(Audit!Entries) /\ v3' \in Seq(Audit!Entries) /\ Len(v3') \in Nat
      /\ v2' \in Audit!Filters /\ v8' \subseteq Audit!Entries
  <2>1. /\ v1' \in Seq(Audit!Entries) /\ v3' \in Seq(Audit!Entries)
        /\ v2' \in Audit!Filters /\ v8' \subseteq Audit!ToSet(v1)'
    BY DEF Audit!LogInv
  <2>2. Audit!ToSet(v1)' \subseteq Audit!Entries
    BY <2>1, ElementOfSeq, LenProperties DEF Audit!ToSet
  <2>. QED
    BY <2>1, <2>2, LenProperties
<1>c. c \in Nat
  BY <1>t, FS_CardinalityType
\* The list is within the pages that may be asked for.
<1>p. \A a, b \in Nat : a <= b => PAGE * a <= PAGE * b
  BY <1>0
<1>q. ASSUME ({v4, v9} \subseteq BOOLEAN)', v5' \subseteq Requests,
             v6' \in 1..MaxPages, v7' \in 0..MaxLost,
             IsFiniteSet(v5'), Cardinality(v5') <= v6', NEW a \in Nat, a = v6' - Cardinality(v5'),
             Len(v3') <= PAGE * a
      PROVE  AuditTypes'
  <2>1. Cardinality(v5') \in Nat
    BY <1>q, FS_CardinalityType
  <2>2. a <= MaxPages /\ MaxPages \in Nat
    BY <1>0, <1>q, <2>1
  <2>3. PAGE * a <= PAGE * MaxPages /\ PAGE * a \in Nat /\ PAGE * MaxPages \in Nat
    BY <1>0, <1>p, <1>q, <2>2
  <2>4. Len(v3') <= PAGE * MaxPages
    BY <1>m, <1>q, <2>3
  <2>5. Audit!TypeOK'
    BY <1>m, <1>q, <2>4 DEF Audit!TypeOK
  <2>6. PagesCounted'
    BY <1>q DEF PagesCounted
  <2>. QED
    BY <2>5, <2>6 DEF AuditTypes
<1>a. v6 - c \in Nat /\ v6 \in Nat
  BY <1>c, <1>t, <1>0
<1>1. ASSUME NEW i \in 1..MaxEntries, NEW x \in Actions, Audit!audit_log(i, x)
      PROVE  AuditTypes'
  <2>1. UNCHANGED <<v3, v4, v5, v6, v7, v9>>
    BY <1>1 DEF Audit!audit_log
  <2>2. ({v4, v9} \subseteq BOOLEAN)'
    BY <1>t, <2>1
  <2>. HIDE DEF Requests
  <2>. QED
    BY <1>a, <1>q, <1>t, <2>1, <2>2
\* A request more.
<1>2. ASSUME NEW op \in {"fill", "more"}, NEW f \in Audit!Filters, NEW o \in Nat,
             Audit!Ask(op, f, o), v3' = v3, v7' = v7, v9' \in BOOLEAN
      PROVE  AuditTypes'
  <2>. DEFINE r == [n |-> v6 + 1, op |-> op, of |-> f, offset |-> o]
  <2>1. v6 < MaxPages /\ v6' = v6 + 1 /\ v5' = v5 \cup {r} /\ v4' = TRUE
    BY <1>2 DEF Audit!Ask
  <2>2. v6' \in 1..MaxPages
    BY <1>0, <1>t, <2>1
  <2>3. r \in Requests
    BY <2>1, <2>2
  <2>. HIDE DEF Requests, r
  <2>4. ({v4, v9} \subseteq BOOLEAN)'
    BY <1>2, <1>t, <2>1
  <2>5. IsFiniteSet(v5') /\ Cardinality(v5') \in {c, c + 1}
    BY <1>t, <2>1, FS_AddElement
  <2>6. Cardinality(v5') <= v6' /\ v6' - Cardinality(v5') \in Nat /\ v6 - c <= v6' - Cardinality(v5')
    BY <1>a, <1>c, <1>t, <2>1, <2>5
  <2>7. Len(v3') <= PAGE * (v6' - Cardinality(v5'))
    <3>1. PAGE * (v6 - c) <= PAGE * (v6' - Cardinality(v5'))
      BY <1>a, <1>p, <2>6
    <3>2. PAGE * (v6 - c) \in Int /\ PAGE * (v6' - Cardinality(v5')) \in Int
      BY <1>0, <1>a, <2>6
    <3>. QED
      BY <1>2, <1>l, <1>t, <3>1, <3>2
  <2>. QED
    BY <1>2, <1>q, <1>t, <2>1, <2>2, <2>3, <2>4, <2>5, <2>6, <2>7
<1>3. ASSUME NEW f \in Audit!Filters, Audit!setActionFilter(f)
      PROVE  AuditTypes'
  <2>1. Audit!Ask("fill", f, 0) /\ v3' = v3 /\ v7' = v7
    BY <1>3 DEF Audit!setActionFilter
  <2>2. v9' \in BOOLEAN
    BY <1>3, <1>t DEF Audit!setActionFilter
  <2>. QED
    BY <1>2, <2>1, <2>2
<1>4. CASE Audit!loadMore
  <2>1. Audit!Ask("more", v2, Len(v3)) /\ v3' = v3 /\ v7' = v7
    BY <1>4 DEF Audit!loadMore
  <2>2. v9' \in BOOLEAN
    BY <1>4, <1>t DEF Audit!loadMore
  <2>. QED
    BY <1>2, <1>l, <2>1, <2>2
\* An answer, a page at most longer than the list was.
<1>5. ASSUME NEW r \in v5, v5' = v5 \ {r}, v6' = v6, v7' \in 0..MaxLost, v4' = FALSE,
             v9' \in BOOLEAN, Len(v3') <= Len(v3) + PAGE
      PROVE  AuditTypes'
  <2>1. IsFiniteSet(v5') /\ Cardinality(v5') = c - 1
    BY <1>5, <1>t, FS_RemoveElement
  <2>. HIDE DEF Requests, c
  <2>2. ({v4, v9} \subseteq BOOLEAN)'
    BY <1>5, <1>t
  <2>3. v6' - Cardinality(v5') \in Nat /\ v6' - Cardinality(v5') = (v6 - c) + 1
        /\ Cardinality(v5') <= v6'
    BY <1>5, <1>a, <1>c, <1>t, <2>1
  <2>4. \A k \in Nat : PAGE * (k + 1) = PAGE * k + PAGE /\ PAGE * k \in Nat
    BY <1>0
  <2>5. PAGE * (v6' - Cardinality(v5')) = PAGE * (v6 - c) + PAGE /\ PAGE * (v6 - c) \in Nat
    BY <1>a, <2>3, <2>4
  <2>6. Len(v3') <= PAGE * (v6' - Cardinality(v5'))
    BY <1>0, <1>5, <1>l, <1>m, <1>t, <2>5
  <2>. QED
    BY <1>5, <1>q, <1>t, <2>1, <2>2, <2>3, <2>6
<1>6. ASSUME NEW r \in v5, Audit!Filled(r)
      PROVE  AuditTypes'
  <2>1. /\ v5' = v5 \ {r} /\ v6' = v6 /\ v7' = v7 /\ v4' = FALSE /\ v9' = v9
        /\ v3' = Audit!admin_audit_log(r.of, 0)
    BY <1>6 DEF Audit!Filled
  <2>2. Len(v3') <= PAGE
    BY <1>l, <2>1, PageHas
  <2>3. v9' \in BOOLEAN
    BY <1>t, <2>1
  <2>4. Len(v3') <= Len(v3) + PAGE
    BY <1>0, <1>l, <1>m, <2>2
  <2>. QED
    BY <1>5, <1>t, <2>1, <2>3, <2>4
<1>7. ASSUME NEW r \in v5, Audit!More(r)
      PROVE  AuditTypes'
  <2>. DEFINE p == Audit!admin_audit_log(r.of, r.offset)
  <2>1. /\ v5' = v5 \ {r} /\ v6' = v6 /\ v7' = v7 /\ v4' = FALSE /\ v9' = v9 /\ v3' = v3 \o p
    BY <1>7 DEF Audit!More
  <2>2. p \in Seq(Audit!Entries) /\ Len(p) <= PAGE
    BY <1>l, PageHas
  <2>. HIDE DEF p
  <2>3. Len(v3') = Len(v3) + Len(p) /\ Len(p) \in Nat
    <3>1. v3 \in Seq(Audit!Entries)
      BY <1>l
    <3>. QED
      BY <2>1, <2>2, <3>1, ConcatProperties, LenProperties
  <2>4. v9' \in BOOLEAN
    BY <1>t, <2>1
  <2>5. Len(v3') <= Len(v3) + PAGE
    BY <1>0, <1>l, <2>2, <2>3
  <2>. QED
    BY <1>5, <1>t, <2>1, <2>4, <2>5
<1>8. ASSUME NEW r \in v5, Audit!ReadFailed(r)
      PROVE  AuditTypes'
  <2>1. /\ v5' = v5 \ {r} /\ v6' = v6 /\ v7 < MaxLost /\ v7' = v7 + 1 /\ v4' = FALSE /\ v3' = v3
    BY <1>8 DEF Audit!ReadFailed
  <2>2. v9' \in BOOLEAN
    BY <1>8, <1>t DEF Audit!ReadFailed
  <2>3. v7' \in 0..MaxLost /\ Len(v3') <= Len(v3) + PAGE
    BY <1>0, <1>l, <1>t, <2>1
  <2>. QED
    BY <1>5, <2>1, <2>2, <2>3
<1>. QED
  BY <1>1, <1>3, <1>4, <1>6, <1>7, <1>8 DEF Audit!Next

-----------------------------------------------------------------------------
\* The invariant of the types: that of the form on screen, beside FormsInv and RestInv.
TypesInv ==
  /\ screen = "addons" => Addons!TypeOK
  /\ screen = "team" => TeamTypes
  /\ screen = "share" => ShareTypes
  /\ screen = "index" => IndexTypes
  /\ screen = "support" => SupportTypes
  /\ screen = "demo" => DemoTypes
  /\ screen = "tenants" => AdminTypes
  /\ screen = "brand" => BrandTypes
  /\ screen = "accounts" => AccountsTypes
  /\ screen = "social" => SocialTypes
  /\ screen = "audit" => AuditTypes
  /\ screen = "dashboard" => Dash!TypeOK

\* Every initial state has it,
LEMMA TypesInvInit == Init => TypesInv
<1>1. AddonsInit => TypesInv
  BY AddonsTypesInit DEF AddonsInit, TypesInv
<1>2. TeamInit => TypesInv
  BY TeamTypesInit DEF TeamInit, TypesInv
<1>3. ShareInit => TypesInv
  BY ShareTypesInit DEF ShareInit, TypesInv
<1>4. IndexInit => TypesInv
  BY IndexTypesInit DEF IndexInit, TypesInv
<1>5. SupportInit => TypesInv
  BY SupportTypesInit DEF SupportInit, TypesInv
<1>6. DemoInit => TypesInv
  BY DemoTypesInit DEF DemoInit, TypesInv
<1>7. AdminInit => TypesInv
  BY AdminTypesInit DEF AdminInit, TypesInv
<1>8. BrandInit => TypesInv
  BY BrandTypesInit DEF BrandInit, TypesInv
<1>9. AccountsInit => TypesInv
  BY AccountsTypesInit DEF AccountsInit, TypesInv
<1>10. SocialInit => TypesInv
  BY SocialTypesInit DEF SocialInit, TypesInv
<1>11. AuditInit => TypesInv
  BY AuditTypesInit DEF AuditInit, TypesInv
<1>12. DashInit => TypesInv
  BY DashTypesInit DEF DashInit, TypesInv
<1>13. UploadInit \/ WizInit => TypesInv
  BY DEF UploadInit, WizInit, TypesInv
<1>. QED
  BY <1>1, <1>2, <1>3, <1>4, <1>5, <1>6, <1>7, <1>8, <1>9, <1>10, <1>11, <1>12, <1>13 DEF Init

\* every step keeps it, the other invariants before and after it given,
LEMMA TypesInvStep ==
  FormsInv /\ FormsInv' /\ RestInv /\ RestInv' /\ TypesInv /\ [Next]_vars => TypesInv'
<1>1. TypesInv /\ AddonsNext => TypesInv'
  BY AddonsTypesStep DEF AddonsNext, TypesInv
<1>2. TypesInv /\ TeamNext => TypesInv'
  BY TeamTypesStep DEF TeamNext, TypesInv
<1>3. TypesInv /\ ShareNext => TypesInv'
  BY ShareTypesStep DEF ShareNext, TypesInv
<1>4. TypesInv /\ IndexNext => TypesInv'
  BY IndexTypesStep DEF IndexNext, TypesInv
<1>5. TypesInv /\ SupportNext => TypesInv'
  BY SupportTypesStep DEF SupportNext, TypesInv
<1>6. FormsInv /\ FormsInv' /\ TypesInv /\ DemoNext => TypesInv'
  BY DemoTypesStep DEF DemoNext, FormsInv, TypesInv
<1>7. TypesInv /\ AdminNext => TypesInv'
  BY AdminTypesStep DEF AdminNext, TypesInv
<1>8. TypesInv /\ BrandNext => TypesInv'
  BY BrandTypesStep DEF BrandNext, TypesInv
<1>9. TypesInv /\ AccountsNext => TypesInv'
  BY AccountsTypesStep DEF AccountsNext, TypesInv
<1>10. TypesInv /\ SocialNext => TypesInv'
  BY SocialTypesStep DEF SocialNext, TypesInv
<1>11. RestInv /\ RestInv' /\ TypesInv /\ AuditNext => TypesInv'
  BY AuditTypesStep DEF AuditNext, RestInv, TypesInv
<1>12. RestInv /\ TypesInv /\ DashNext => TypesInv'
  BY DashTypesStep DEF DashNext, RestInv, TypesInv
<1>13. UploadNext \/ WizNext => TypesInv'
  BY DEF UploadNext, WizNext, TypesInv
<1>14. ASSUME TypesInv, UNCHANGED vars
       PROVE  TypesInv'
  <2>0. /\ screen' = screen
        /\ UNCHANGED <<v1, v2, v3, v4, v5, v6, v7, v8, v9, v10, v11, v12, v13, v14, v15, v16, v17,
                       v18, v19, v20>>
    BY <1>14 DEF vars
  <2>1. Addons!TypeOK => Addons!TypeOK'
    BY <2>0 DEF Addons!TypeOK
  <2>2. TeamTypes => TeamTypes'
    BY <2>0 DEF TeamTypes, Team!TypeOK, TeamChanges
  <2>3. ShareTypes => ShareTypes'
    BY <2>0 DEF ShareTypes, Share!TypeOK, ShareRequests, ShareAsked
  <2>4. IndexTypes => IndexTypes'
    BY <2>0 DEF IndexTypes, Index!TypeOK, IndexDialog
  <2>5. SupportTypes => SupportTypes'
    BY <2>0 DEF SupportTypes, Support!TypeOK, TicketsNamed
  <2>6. DemoTypes => DemoTypes'
    BY <2>0 DEF DemoTypes, Demo!TypeOK, KeysInBatch
  <2>7. AdminTypes => AdminTypes'
    BY <2>0 DEF AdminTypes, Admin!TypeOK, AdminCalls, AdminAsked, AdminSent
  <2>8. BrandTypes => BrandTypes'
    BY <2>0 DEF BrandTypes, Brand!TypeOK, SavesCounted
  <2>9. AccountsTypes => AccountsTypes'
    BY <2>0 DEF AccountsTypes, Accounts!TypeOK, AccountsNumbered
  <2>10. SocialTypes => SocialTypes'
    BY <2>0 DEF SocialTypes, Social!TypeOK, EventsOnce
  <2>11. AuditTypes => AuditTypes'
    BY <2>0 DEF AuditTypes, Audit!TypeOK, PagesCounted
  <2>12. Dash!TypeOK => Dash!TypeOK'
    BY <2>0 DEF Dash!TypeOK
  <2>. QED
    BY <1>14, <2>0, <2>1, <2>2, <2>3, <2>4, <2>5, <2>6, <2>7, <2>8, <2>9, <2>10, <2>11, <2>12
       DEF TypesInv
<1>. QED
  BY <1>1, <1>2, <1>3, <1>4, <1>5, <1>6, <1>7, <1>8, <1>9, <1>10, <1>11, <1>12, <1>13, <1>14
     DEF Next

\* and so it holds for ever.
LEMMA TypesInvariant == Spec => []TypesInv
BY TypesInvInit, TypesInvStep, FormsInvariant, RestInvariant, PTL DEF Spec

(* Every form keeps its variables in their types, for any bounds: no page  *)
(* asks more often, shows a longer list or names another thing than its    *)
(* handlers allow, whatever is under way when the next click comes.        *)
THEOREM FormsWellTyped == Spec => []TypeOK
<1>1. FormsInv /\ TypesInv => TypeOK
  BY DEF FormsInv, UploadInv, WizInv, TypesInv, TypeOK, TeamTypes, ShareTypes, IndexTypes,
     SupportTypes, DemoTypes, AdminTypes, BrandTypes, AccountsTypes, SocialTypes, AuditTypes
<1>. QED
  BY <1>1, FormsInvariant, TypesInvariant, PTL
=============================================================================
