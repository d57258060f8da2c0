---------------------------- MODULE Types_proofs ----------------------------
(***************************************************************************)
(* The types of the pages that list and change what a server keeps: access *)
(* lists, listings, the team, tickets, tenants, accounts, posts and what   *)
(* the wizard sells.  The types bound what a page has asked for, so most   *)
(* of them are not inductive: a request under way may still ask for        *)
(* another one, or use up another id.  Each component therefore has an     *)
(* invariant beside its type that counts what is under way.                *)
(***************************************************************************)
EXTENDS MC_Forms, TLAPS, FiniteSetTheorems, SequenceTheorems

-----------------------------------------------------------------------------
\* A request names what it carries; and the list was loaded no more often than the panel
\* may be opened and a share be answered.
ShareRequests ==
  /\ IsFiniteSet(v7)
  /\ \A r \in v7 : r.op = "share" => r.who \in Invitees
  /\ \A r \in v7 : r.op \in {"share", "update"} => r.level \in Levels
ShareAsked ==
  LET c == Cardinality({r \in v7 : r.op = "share"})
  IN c <= v8 /\ v10 + c <= MaxOpened + v8
ShareTypes == Share!TypeOK /\ ShareRequests /\ ShareAsked

\* The panel starts well typed,
LEMMA ShareTypesInit ==
  ASSUME Share!Init
  PROVE  ShareTypes
<1>1. {MaxShares, MaxChanges, MaxOpened, MaxLost} \subseteq Nat
  BY BoundsAssumption
<1>2. Cardinality({}) = 0 /\ {r \in {} : r.op = "share"} = {} /\ IsFiniteSet({})
  BY FS_EmptySet
<1>3. v7 = {} /\ v8 = 0 /\ v10 = 0
  BY DEF Share!Init
<1>b. {v2, v4, v5, v12} \subseteq BOOLEAN
  BY DEF Share!Init
<1>4. Share!TypeOK
  BY <1>1, <1>b DEF Share!Init, Share!TypeOK
<1>5. ShareRequests /\ ShareAsked
  BY <1>1, <1>2, <1>3 DEF ShareRequests, ShareAsked
<1>. QED
  BY <1>4, <1>5 DEF ShareTypes

\* What an answer makes of the list is a list,
LEMMA SharePatched ==
  ASSUME NEW ps \in SUBSET Share!Permissions, NEW r \in Share!Requests,
         r.op = "share" => r.who \in Invitees,
         r.op \in {"share", "update"} => r.level \in Levels
  PROVE  Share!Patched(ps, r) \in SUBSET Share!Permissions
<1>1. CASE r.op = "revoke"
  BY <1>1 DEF Share!Patched
<1>2. CASE r.op = "update"
  BY <1>2 DEF Share!Patched, Share!Permissions
<1>3. CASE r.op = "share"
  BY <1>3 DEF Share!Patched, Share!Permissions, Share!Requests
<1>. QED
  BY <1>1, <1>2, <1>3 DEF Share!Requests

\* and every step leaves it well typed.
LEMMA ShareTypesStep ==
  ASSUME ShareTypes, Share!Next
  PROVE  ShareTypes'
<1>. USE DEF Share!panelVars, Share!historyVars
<1>. DEFINE S == {r \in v7 : r.op = "share"}
<1>0. /\ MaxShares \in Nat /\ MaxChanges \in Nat /\ MaxOpened \in Nat /\ MaxLost \in Nat
      /\ Share!TypeOK /\ ShareRequests
  BY BoundsAssumption DEF ShareTypes
<1>s. IsFiniteSet(S) /\ Cardinality(S) \in Nat
  BY <1>0, FS_Subset, FS_CardinalityType DEF ShareRequests
<1>c. Cardinality(S) <= v8 /\ v10 + Cardinality(S) <= MaxOpened + v8
  BY DEF ShareTypes, ShareAsked
<1>t. v8 \in 0..MaxShares /\ v9 \in 0..MaxChanges /\ v10 \in 0..(MaxOpened + MaxShares)
      /\ v13 = v13
  BY <1>0 DEF Share!TypeOK
<1>q. ASSUME Share!TypeOK', UNCHANGED <<v7, v8, v10>>
      PROVE  ShareTypes'
  BY <1>0, <1>q, <1>c DEF ShareTypes, ShareRequests, ShareAsked
<1>1. CASE Share!Open
  <2>1. Share!TypeOK'
    BY <1>0, <1>t, <1>1 DEF Share!Open, Share!loadPermissions, Share!TypeOK
  <2>2. UNCHANGED <<v7, v8>> /\ v10' = v10 + 1 /\ v10 < MaxOpened
    BY <1>1 DEF Share!Open, Share!loadPermissions
  <2>. QED
    BY <1>0, <1>s, <1>c, <1>t, <2>1, <2>2 DEF ShareTypes, ShareRequests, ShareAsked
<1>2. CASE Share!onClose
  BY <1>0, <1>2, <1>q DEF Share!onClose, Share!TypeOK
<1>3. ASSUME NEW l \in v6, Share!Loaded(l)
      PROVE  ShareTypes'
  BY <1>0, <1>3, <1>q DEF Share!Loaded, Share!TypeOK
<1>4. ASSUME NEW l \in v6, Share!LoadFailed(l)
      PROVE  ShareTypes'
  <2>b. ({v2, v4, v5, v12} \subseteq BOOLEAN)'
    BY <1>0, <1>4 DEF Share!LoadFailed, Share!TypeOK
  <2>1. Share!TypeOK'
    BY <1>0, <1>4, <2>b DEF Share!LoadFailed, Share!TypeOK
  <2>2. UNCHANGED <<v7, v8, v10>>
    BY <1>4 DEF Share!LoadFailed
  <2>. QED
    BY <1>q, <2>1, <2>2
<1>5. ASSUME NEW r, v7' = v7 \cup {r}, r \in Share!Requests,
             r.op = "share" => r.who \in Invitees /\ v8' = v8 + 1 /\ v8 < MaxShares,
             r.op # "share" => v8' = v8,
             r.op \in {"share", "update"} => r.level \in Levels,
             UNCHANGED v10, Share!TypeOK'
      PROVE  ShareTypes'
  <2>. DEFINE T == {q \in v7' : q.op = "share"}
  <2>1. IsFiniteSet(v7')
    BY <1>0, <1>5, FS_AddElement DEF ShareRequests
  <2>2. T = IF r.op = "share" THEN S \cup {r} ELSE S
    BY <1>5
  <2>. HIDE DEF T, S
  <2>3. Cardinality(T) \in Nat /\
        Cardinality(T) <= (IF r.op = "share" THEN Cardinality(S) + 1 ELSE Cardinality(S))
    BY <1>s, <2>2, FS_AddElement
  <2>4. v10 + Cardinality(T) <= MaxOpened + v8' /\ Cardinality(T) <= v8'
    BY <1>5, <1>0, <1>s, <1>c, <1>t, <2>3
  <2>5. ShareRequests'
    BY <1>0, <1>5, <2>1 DEF ShareRequests
  <2>. QED
    BY <1>5, <2>4, <2>5 DEF ShareTypes, ShareAsked, T
<1>6. ASSUME NEW who \in Invitees, NEW level \in Levels, Share!handleShare(who, level)
      PROVE  ShareTypes'
  <2>. DEFINE r == [n |-> v8 + v9 + 1, op |-> "share", id |-> v8 + 1, who |-> who, level |-> level]
  <2>1. r \in Share!Requests
    BY <1>0, <1>t, <1>6 DEF Share!handleShare, Share!Requests, Share!Ids
  <2>2. v7' = v7 \cup {r} /\ v8' = v8 + 1 /\ v8 < MaxShares /\ UNCHANGED v10
    BY <1>6 DEF Share!handleShare, Share!Request
  <2>3. Share!TypeOK'
    BY <1>0, <1>t, <1>6, <2>1, <2>2 DEF Share!handleShare, Share!Request, Share!TypeOK
  <2>. QED
    BY <1>5, <1>6, <2>1, <2>2, <2>3
<1>7. ASSUME NEW p \in v3, Share!handleRevoke(p)
      PROVE  ShareTypes'
  <2>. DEFINE r == [n |-> v8 + v9 + 1, op |-> "revoke", id |-> p.id, who |-> None, level |-> None]
  <2>1. r \in Share!Requests
    BY <1>0, <1>t, <1>7 DEF Share!handleRevoke, Share!Requests, Share!Permissions, Share!TypeOK
  <2>2. v7' = v7 \cup {r} /\ UNCHANGED <<v8, v10>>
    BY <1>7 DEF Share!handleRevoke, Share!Request
  <2>3. Share!TypeOK'
    BY <1>0, <1>t, <1>7, <2>1, <2>2 DEF Share!handleRevoke, Share!Request, Share!TypeOK
  <2>. QED
    BY <1>5, <1>7, <2>1, <2>2, <2>3
<1>8. ASSUME NEW p \in v3, NEW level \in Levels, Share!handleUpdatePermission(p, level)
      PROVE  ShareTypes'
  <2>. DEFINE r == [n |-> v8 + v9 + 1, op |-> "update", id |-> p.id, who |-> None, level |-> level]
  <2>1. r \in Share!Requests
    BY <1>0, <1>t, <1>8 DEF Share!handleUpdatePermission, Share!Requests, Share!Permissions,
       Share!TypeOK
  <2>2. v7' = v7 \cup {r} /\ UNCHANGED <<v8, v10>>
    BY <1>8 DEF Share!handleUpdatePermission, Share!Request
  <2>3. Share!TypeOK'
    BY <1>0, <1>t, <1>8, <2>1, <2>2 DEF Share!handleUpdatePermission, Share!Request, Share!TypeOK
  <2>. QED
    BY <1>5, <1>8, <2>1, <2>2, <2>3
<1>9. ASSUME NEW r \in v7, v7' = v7 \ {r}, UNCHANGED v8,
             v10' \in {v10, IF r.op = "share" THEN v10 + 1 ELSE v10},
             Share!TypeOK'
      PROVE  ShareTypes'
  <2>. DEFINE T == {q \in v7' : q.op = "share"}
  <2>1. IsFiniteSet(v7')
    BY <1>0, <1>9, FS_RemoveElement DEF ShareRequests
  <2>2. T = IF r.op = "share" THEN S \ {r} ELSE S
    BY <1>9
  <2>2a. r.op = "share" => r \in S
    OBVIOUS
  <2>. HIDE DEF T, S
  <2>3. Cardinality(T) = IF r.op = "share" THEN Cardinality(S) - 1 ELSE Cardinality(S)
    BY <1>s, <2>2, <2>2a, FS_RemoveElement
  <2>4. v10' + Cardinality(T) <= MaxOpened + v8' /\ Cardinality(T) <= v8'
    BY <1>9, <1>0, <1>s, <1>c, <1>t, <2>3
  <2>5. ShareRequests'
    BY <1>0, <1>9, <2>1 DEF ShareRequests
  <2>. QED
    BY <1>9, <2>4, <2>5 DEF ShareTypes, ShareAsked, T
<1>p. ASSUME NEW r \in v7
      PROVE  /\ Share!Patched(v1, r) \in SUBSET Share!Permissions
             /\ Share!Patched(v3, r) \in SUBSET Share!Permissions
             /\ r.op = "share" => v10 < MaxOpened + MaxShares
  <2>1. r.op = "share" => Cardinality(S) # 0
    BY <1>s, FS_EmptySet
  <2>2. r \in Share!Requests /\ v1 \in SUBSET Share!Permissions /\ v3 \in SUBSET Share!Permissions
    BY <1>0 DEF Share!TypeOK
  <2>. HIDE DEF S
  <2>3. r.op = "share" => v10 < MaxOpened + MaxShares
    BY <1>0, <1>s, <1>c, <1>t, <2>1
  <2>. QED
    BY <1>0, <2>2, <2>3, SharePatched DEF ShareRequests
<1>10. ASSUME NEW r \in v7, Share!Succeeded(r)
       PROVE  ShareTypes'
  <2>1. v7' = v7 \ {r} /\ UNCHANGED v8 /\ v10' \in {v10, IF r.op = "share" THEN v10 + 1 ELSE v10}
    BY <1>10 DEF Share!Succeeded
  <2>2. v1' \in SUBSET Share!Permissions /\ v3' \in SUBSET Share!Permissions
        /\ v10' \in 0..(MaxOpened + MaxShares)
    BY <1>0, <1>p, <1>t, <1>10 DEF Share!Succeeded, Share!TypeOK
  <2>3. v6' \subseteq [n : 1..(MaxOpened + MaxShares), got : SUBSET Share!Permissions]
    BY <1>0, <1>p, <1>t, <1>10, <2>2 DEF Share!Succeeded, Share!TypeOK
  <2>4. Share!TypeOK'
    BY <1>0, <1>10, <2>1, <2>2, <2>3 DEF Share!Succeeded, Share!TypeOK
  <2>. QED
    BY <1>9, <1>10, <2>1, <2>4
<1>11. ASSUME NEW r \in v7, NEW b \in BOOLEAN, Share!Failed(r, b)
       PROVE  ShareTypes'
  <2>1. v7' = v7 \ {r} /\ UNCHANGED <<v8, v10>>
    BY <1>11 DEF Share!Failed
  <2>2. v1' \in SUBSET Share!Permissions
    BY <1>0, <1>p, <1>11 DEF Share!Failed, Share!TypeOK
  <2>3. Share!TypeOK'
    BY <1>0, <1>11, <2>1, <2>2 DEF Share!Failed, Share!TypeOK
  <2>. QED
    BY <1>9, <1>11, <2>1, <2>3
<1>. QED
  BY <1>1, <1>2, <1>3, <1>4, <1>6, <1>7, <1>8, <1>10, <1>11 DEF Share!Next

-----------------------------------------------------------------------------
\* A dialog is open only over cards that are there.
IndexDialog == /\ v12 <=> v4
               /\ v4 \/ v5 => v7 = None
IndexTypes == Index!TypeOK /\ IndexDialog

\* The list of listings starts well typed,
LEMMA IndexTypesInit ==
  ASSUME Index!Init
  PROVE  IndexTypes
<1>1. MaxOpened \in Nat /\ MaxShared \in Nat /\ MaxLost \in Nat
  BY BoundsAssumption
<1>2. {v4, v5, v6, v8, v11, v12, v18} \subseteq BOOLEAN
  BY DEF Index!Init
<1>3. Index!TypeOK
  BY <1>1, <1>2 DEF Index!Init, Index!TypeOK
<1>4. IndexDialog
  BY DEF Index!Init, IndexDialog
<1>. QED
  BY <1>3, <1>4 DEF IndexTypes

\* and stays so.
LEMMA IndexTypesStep ==
  ASSUME IndexTypes, Index!Next
  PROVE  IndexTypes'
<1>0. /\ MaxOpened \in Nat /\ MaxShared \in Nat /\ MaxLost \in Nat
      /\ Index!TypeOK /\ IndexDialog
  BY BoundsAssumption DEF IndexTypes
<1>1. ASSUME NEW kit \in BOOLEAN, Index!Loaded(kit)
      PROVE  IndexTypes'
  <2>b. ({v4, v5, v6, v8, v11, v12, v18} \subseteq BOOLEAN)'
    BY <1>0, <1>1 DEF Index!Loaded, Index!serverVars, Index!cardVars, Index!secondTab,
       Index!historyVars, Index!TypeOK
  <2>1. Index!TypeOK'
    BY <1>0, <1>1, <2>b DEF Index!Loaded, Index!serverVars, Index!cardVars, Index!secondTab,
       Index!historyVars, Index!TypeOK, IndexDialog
  <2>2. IndexDialog'
    BY <1>0, <1>1 DEF Index!Loaded, Index!serverVars, Index!cardVars, Index!secondTab,
       Index!historyVars, Index!TypeOK, IndexDialog
  <2>. QED
    BY <2>1, <2>2 DEF IndexTypes
<1>2. CASE Index!LoadFailed
  <2>b. ({v4, v5, v6, v8, v11, v12, v18} \subseteq BOOLEAN)'
    BY <1>0, <1>2 DEF Index!LoadFailed, Index!serverVars, Index!cardVars, Index!secondTab,
       Index!TypeOK
  <2>1. Index!TypeOK'
    BY <1>0, <1>2, <2>b DEF Index!LoadFailed, Index!serverVars, Index!cardVars, Index!secondTab,
       Index!TypeOK
  <2>2. IndexDialog'
    BY <1>0, <1>2 DEF Index!LoadFailed, Index!serverVars, Index!cardVars, Index!secondTab,
       Index!TypeOK, IndexDialog
  <2>. QED
    BY <2>1, <2>2 DEF IndexTypes
<1>3. CASE Index!Retry
  <2>b. ({v4, v5, v6, v8, v11, v12, v18} \subseteq BOOLEAN)'
    BY <1>0, <1>3 DEF Index!Retry, Index!ErrorPanel, Index!serverVars, Index!cardVars,
       Index!TypeOK
  <2>1. Index!TypeOK'
    BY <1>0, <1>3, <2>b DEF Index!Retry, Index!ErrorPanel, Index!serverVars, Index!cardVars,
       Index!TypeOK
  <2>2. IndexDialog'
    BY <1>0, <1>3 DEF Index!Retry, Index!ErrorPanel, Index!serverVars, Index!cardVars,
       Index!TypeOK, IndexDialog
  <2>. QED
    BY <2>1, <2>2 DEF IndexTypes
<1>4. ASSUME NEW tab \in {"my", "shared"}, Index!setActiveTab(tab)
      PROVE  IndexTypes'
  <2>b. ({v4, v5, v6, v8, v11, v12, v18} \subseteq BOOLEAN)'
    BY <1>0, <1>4 DEF Index!setActiveTab, Index!Tabs, Index!serverVars, Index!firstTab,
       Index!cardVars, Index!TypeOK
  <2>. DEFINE l == [n |-> v15 + 1, open |-> TRUE, got |-> 0]
  <2>l. v13 \subseteq Index!Loads /\ (v15 < MaxOpened => l \in Index!Loads)
    BY <1>0 DEF Index!TypeOK, Index!Loads
  <2>m. v13' = v13 \/ (v13' = v13 \cup {l} /\ v15 < MaxOpened)
    BY <1>4 DEF Index!setActiveTab
  <2>n. v13' \subseteq Index!Loads
    BY <2>l, <2>m
  <2>1. Index!TypeOK'
    BY <1>0, <1>4, <2>b, <2>n DEF Index!setActiveTab, Index!serverVars, Index!firstTab,
       Index!cardVars, Index!TypeOK
  <2>2. IndexDialog'
    BY <1>0, <1>4 DEF Index!setActiveTab, Index!Tabs, Index!serverVars, Index!firstTab,
       Index!cardVars, Index!TypeOK, IndexDialog
  <2>. QED
    BY <2>1, <2>2 DEF IndexTypes
<1>5. ASSUME NEW r \in v13, Index!getSharedWithMe(r)
      PROVE  IndexTypes'
  <2>b. ({v4, v5, v6, v8, v11, v12, v18} \subseteq BOOLEAN)'
    BY <1>0, <1>5 DEF Index!getSharedWithMe, Index!serverVars, Index!firstTab, Index!cardVars,
       Index!historyVars, Index!TypeOK
  <2>1. Index!TypeOK'
    BY <1>0, <1>5, <2>b DEF Index!getSharedWithMe, Index!serverVars, Index!firstTab,
       Index!cardVars, Index!historyVars, Index!TypeOK, Index!Loads
  <2>2. IndexDialog'
    BY <1>0, <1>5 DEF Index!getSharedWithMe, Index!serverVars, Index!firstTab, Index!cardVars,
       Index!historyVars, Index!TypeOK, IndexDialog
  <2>. QED
    BY <2>1, <2>2 DEF IndexTypes
<1>6. ASSUME NEW r \in v13, Index!setSharedListings(r)
      PROVE  IndexTypes'
  <2>b. ({v4, v5, v6, v8, v11, v12, v18} \subseteq BOOLEAN)'
    BY <1>0, <1>6 DEF Index!setSharedListings, Index!serverVars, Index!firstTab, Index!cardVars,
       Index!historyVars, Index!TypeOK
  <2>1. Index!TypeOK'
    BY <1>0, <1>6, <2>b DEF Index!setSharedListings, Index!serverVars, Index!firstTab,
       Index!cardVars, Index!historyVars, Index!TypeOK, Index!Loads
  <2>2. IndexDialog'
    BY <1>0, <1>6 DEF Index!setSharedListings, Index!serverVars, Index!firstTab, Index!cardVars,
       Index!historyVars, Index!TypeOK, IndexDialog
  <2>. QED
    BY <2>1, <2>2 DEF IndexTypes
<1>7. ASSUME NEW r \in v13, Index!SharedFailed(r)
      PROVE  IndexTypes'
  <2>b. ({v4, v5, v6, v8, v11, v12, v18} \subseteq BOOLEAN)'
    BY <1>0, <1>7 DEF Index!SharedFailed, Index!serverVars, Index!firstTab, Index!cardVars,
       Index!TypeOK
  <2>1. Index!TypeOK'
    BY <1>0, <1>7, <2>b DEF Index!SharedFailed, Index!serverVars, Index!firstTab,
       Index!cardVars, Index!TypeOK
  <2>2. IndexDialog'
    BY <1>0, <1>7 DEF Index!SharedFailed, Index!serverVars, Index!firstTab, Index!cardVars,
       Index!TypeOK, IndexDialog
  <2>. QED
    BY <2>1, <2>2 DEF IndexTypes
<1>8. CASE Index!Colleague
  <2>b. ({v4, v5, v6, v8, v11, v12, v18} \subseteq BOOLEAN)'
    BY <1>0, <1>8 DEF Index!Colleague, Index!firstTab, Index!cardVars, Index!secondTab,
       Index!historyVars, Index!TypeOK
  <2>1. Index!TypeOK'
    BY <1>0, <1>8, <2>b DEF Index!Colleague, Index!firstTab, Index!cardVars, Index!secondTab,
       Index!historyVars, Index!TypeOK
  <2>2. IndexDialog'
    BY <1>0, <1>8 DEF Index!Colleague, Index!firstTab, Index!cardVars, Index!secondTab,
       Index!historyVars, Index!TypeOK, IndexDialog
  <2>. QED
    BY <2>1, <2>2 DEF IndexTypes
<1>9. ASSUME NEW l \in v3, Index!setConfirming(l)
      PROVE  IndexTypes'
  <2>b. ({v4, v5, v6, v8, v11, v12, v18} \subseteq BOOLEAN)'
    BY <1>0, <1>9 DEF Index!setConfirming, Index!Bin, Index!DeleteDialog, Index!serverVars,
       Index!firstTab, Index!secondTab, Index!historyVars, Index!CardShown, Index!TypeOK
  <2>1. Index!TypeOK'
    BY <1>0, <1>9, <2>b DEF Index!setConfirming, Index!Bin, Index!DeleteDialog,
       Index!serverVars, Index!firstTab, Index!secondTab, Index!historyVars, Index!CardShown,
       Index!TypeOK
  <2>2. IndexDialog'
    BY <1>0, <1>9 DEF Index!setConfirming, Index!Bin, Index!DeleteDialog, Index!serverVars,
       Index!firstTab, Index!secondTab, Index!historyVars, Index!CardShown, Index!TypeOK,
       IndexDialog
  <2>. QED
    BY <2>1, <2>2 DEF IndexTypes
<1>10. ASSUME NEW l \in v3, Index!setDeleting(l)
      PROVE  IndexTypes'
  <2>b. ({v4, v5, v6, v8, v11, v12, v18} \subseteq BOOLEAN)'
    BY <1>0, <1>10 DEF Index!setDeleting, Index!DeleteDialog, Index!serverVars, Index!firstTab,
       Index!secondTab, Index!historyVars, Index!CardShown, Index!TypeOK
  <2>1. Index!TypeOK'
    BY <1>0, <1>10, <2>b DEF Index!setDeleting, Index!DeleteDialog, Index!serverVars,
       Index!firstTab, Index!secondTab, Index!historyVars, Index!CardShown, Index!TypeOK
  <2>2. IndexDialog'
    BY <1>0, <1>10 DEF Index!setDeleting, Index!DeleteDialog, Index!serverVars, Index!firstTab,
       Index!secondTab, Index!historyVars, Index!CardShown, Index!TypeOK, IndexDialog
  <2>. QED
    BY <2>1, <2>2 DEF IndexTypes
<1>11. CASE Index!deleteListing
  <2>b. ({v4, v5, v6, v8, v11, v12, v18} \subseteq BOOLEAN)'
    BY <1>0, <1>11 DEF Index!deleteListing, Index!firstTab, Index!secondTab, Index!historyVars,
       Index!TypeOK
  <2>1. Index!TypeOK'
    BY <1>0, <1>11, <2>b DEF Index!deleteListing, Index!firstTab, Index!secondTab,
       Index!historyVars, Index!TypeOK
  <2>2. IndexDialog'
    BY <1>0, <1>11 DEF Index!deleteListing, Index!firstTab, Index!secondTab, Index!historyVars,
       Index!TypeOK, IndexDialog
  <2>. QED
    BY <2>1, <2>2 DEF IndexTypes
<1>12. CASE Index!DeletionLost
  <2>b. ({v4, v5, v6, v8, v11, v12, v18} \subseteq BOOLEAN)'
    BY <1>0, <1>12 DEF Index!DeletionLost, Index!serverVars, Index!firstTab, Index!secondTab,
       Index!TypeOK
  <2>1. Index!TypeOK'
    BY <1>0, <1>12, <2>b DEF Index!DeletionLost, Index!serverVars, Index!firstTab,
       Index!secondTab, Index!TypeOK
  <2>2. IndexDialog'
    BY <1>0, <1>12 DEF Index!DeletionLost, Index!serverVars, Index!firstTab, Index!secondTab,
       Index!TypeOK, IndexDialog
  <2>. QED
    BY <2>1, <2>2 DEF IndexTypes
<1>13. CASE Index!onDeleted
  <2>b. ({v4, v5, v6, v8, v11, v12, v18} \subseteq BOOLEAN)'
    BY <1>0, <1>13 DEF Index!onDeleted, Index!serverVars, Index!secondTab, Index!historyVars,
       Index!TypeOK
  <2>1. Index!TypeOK'
    BY <1>0, <1>13, <2>b DEF Index!onDeleted, Index!serverVars, Index!secondTab,
       Index!historyVars, Index!TypeOK
  <2>2. IndexDialog'
    BY <1>0, <1>13 DEF Index!onDeleted, Index!serverVars, Index!secondTab, Index!historyVars,
       Index!TypeOK, IndexDialog
  <2>. QED
    BY <2>1, <2>2 DEF IndexTypes
<1>14. CASE Index!DeletionFailed
  <2>b. ({v4, v5, v6, v8, v11, v12, v18} \subseteq BOOLEAN)'
    BY <1>0, <1>14 DEF Index!DeletionFailed, Index!serverVars, Index!firstTab, Index!secondTab,
       Index!historyVars, Index!TypeOK
  <2>1. Index!TypeOK'
    BY <1>0, <1>14, <2>b DEF Index!DeletionFailed, Index!serverVars, Index!firstTab,
       Index!secondTab, Index!historyVars, Index!TypeOK
  <2>2. IndexDialog'
    BY <1>0, <1>14 DEF Index!DeletionFailed, Index!serverVars, Index!firstTab, Index!secondTab,
       Index!historyVars, Index!TypeOK, IndexDialog
  <2>. QED
    BY <2>1, <2>2 DEF IndexTypes
<1>. QED
  BY <1>1, <1>2, <1>3, <1>4, <1>5, <1>6, <1>7, <1>8, <1>9, <1>10, <1>11, <1>12, <1>13, <1>14 DEF
     Index!Next

-----------------------------------------------------------------------------
\* What a change says fits its step.
TeamChanges ==
  \A c \in v10 :
    /\ c.step = "invite" => c.to = "agent"
    /\ c.step = "role" => c.to \in Team!Roles
    /\ c.step = "remove" => c.to = None
    /\ c.step = "revoke" => c.to \in Team!Permissions \cup {None}
    /\ c.step = "create" => c.to \in Team!Permissions
TeamTypes == Team!TypeOK /\ TeamChanges

\* The team's page starts well typed,
LEMMA TeamTypesInit ==
  ASSUME Team!Init
  PROVE  TeamTypes
<1>1. MaxChanges \in Nat /\ MaxLost \in Nat
  BY BoundsAssumption
<1>2. {v5, v6, v7, v9, v14} \subseteq BOOLEAN
  BY DEF Team!Init
<1>3. Team!Nothing \in Team!Teams /\ Team!Nothing \in Team!Granted
  BY DEF Team!Nothing, Team!Teams, Team!Granted
<1>4. v2 \in Team!Granted
  BY <1>1 DEF Team!Init, Team!Granted, Team!Grants, Team!Permissions
<1>5. Team!NewFetch(0) \in Team!Fetches
  BY <1>1, <1>3 DEF Team!NewFetch, Team!Fetches
<1>6. Team!TypeOK
  BY <1>1, <1>2, <1>3, <1>4, <1>5 DEF Team!Init, Team!TypeOK
<1>7. TeamChanges
  BY DEF Team!Init, TeamChanges
<1>. QED
  BY <1>6, <1>7 DEF TeamTypes

\* and stays so.
LEMMA TeamTypesStep ==
  ASSUME TeamTypes, Team!Next
  PROVE  TeamTypes'
<1>. USE DEF Team!serverVars, Team!modalVars, Team!historyVars
<1>0. /\ MaxChanges \in Nat /\ MaxLost \in Nat
      /\ Team!TypeOK /\ TeamChanges
  BY BoundsAssumption DEF TeamTypes
<1>t. /\ v1 \in Team!Teams /\ v2 \in Team!Granted /\ v3 \in Team!Teams /\ v4 \in Team!Granted
      /\ {v5, v6, v7, v9, v14} \subseteq BOOLEAN /\ v8 \in People \cup {None}
      /\ v10 \subseteq Team!Changes /\ v11 \subseteq Team!Fetches
      /\ v12 \in 0..MaxChanges /\ v13 \in 0..MaxLost
  BY <1>0 DEF Team!TypeOK
<1>q. ASSUME v1' \in Team!Teams, v2' \in Team!Granted, v3' \in Team!Teams, v4' \in Team!Granted,
             ({v5, v6, v7, v9, v14} \subseteq BOOLEAN)', v8' \in People \cup {None},
             v10' \subseteq Team!Changes, v11' \subseteq Team!Fetches,
             v12' \in 0..MaxChanges, v13' \in 0..MaxLost, TeamChanges'
      PROVE  TeamTypes'
  BY <1>q DEF TeamTypes, Team!TypeOK
<1>k. UNCHANGED v10 => TeamChanges'
  BY <1>0 DEF TeamChanges
<1>n. Team!Nothing \in Team!Teams /\ Team!Nothing \in Team!Granted
  BY DEF Team!Nothing, Team!Teams, Team!Granted
<1>f. ASSUME NEW n \in 0..MaxChanges
      PROVE  Team!NewFetch(n) \in Team!Fetches
  BY <1>n DEF Team!NewFetch, Team!Fetches
\* The fetches.
<1>1. ASSUME NEW f \in v11, Team!TeamRead(f)
      PROVE  TeamTypes'
  <2>a. Team!Listed \in SUBSET People /\ f \in Team!Fetches
    BY <1>t DEF Team!Listed
  <2>1. [f EXCEPT !.team = TRUE, !.unread = Team!Listed] \in Team!Fetches
    BY <2>a DEF Team!Fetches
  <2>2. v11' \subseteq Team!Fetches
    BY <1>1, <1>t, <2>1 DEF Team!TeamRead
  <2>. QED
    BY <1>1, <1>t, <1>q, <1>k, <2>2 DEF Team!TeamRead
<1>2. ASSUME NEW f \in v11, NEW b \in BOOLEAN, Team!TeamUnread(f, b)
      PROVE  TeamTypes'
  <2>1. [f EXCEPT !.team = TRUE] \in Team!Fetches
    BY <1>t DEF Team!Fetches
  <2>2. v11' \subseteq Team!Fetches /\ v3' \in Team!Teams
    BY <1>2, <1>t, <1>n, <2>1 DEF Team!TeamUnread
  <2>3. ({v5, v6, v7, v9, v14} \subseteq BOOLEAN)'
    BY <1>2, <1>t DEF Team!TeamUnread
  <2>4. v13' \in 0..MaxLost
    BY <1>0, <1>2, <1>t DEF Team!TeamUnread
  <2>. QED
    BY <1>2, <1>t, <1>q, <1>k, <2>2, <2>3, <2>4 DEF Team!TeamUnread
<1>3. ASSUME NEW f \in v11, NEW p \in People, NEW ok \in BOOLEAN, Team!GrantsRead(f, p, ok)
      PROVE  TeamTypes'
  <2>. DEFINE g == IF ok THEN v2[p] ELSE None
              h == [f EXCEPT !.unread = @ \ {p}, !.read[p] = g]
  <2>1. g \in Team!Grants \cup {None} /\ f \in Team!Fetches
    BY <1>t DEF Team!Granted
  <2>. HIDE DEF g
  <2>2. h \in Team!Fetches
    <3>1. [f.read EXCEPT ![p] = g] \in Team!Granted
      BY <2>1 DEF Team!Fetches, Team!Granted
    <3>. QED
      BY <2>1, <3>1 DEF Team!Fetches
  <2>3. v11' = (v11 \ {f}) \cup {h}
    BY <1>3 DEF Team!GrantsRead, g
  <2>. HIDE DEF h
  <2>4. v11' \subseteq Team!Fetches
    BY <1>t, <2>2, <2>3
  <2>5. ({v5, v6, v7, v9, v14} \subseteq BOOLEAN)'
    BY <1>3, <1>t DEF Team!GrantsRead
  <2>6. v13' \in 0..MaxLost
    BY <1>0, <1>3, <1>t DEF Team!GrantsRead
  <2>. QED
    BY <1>3, <1>t, <1>q, <1>k, <2>4, <2>5, <2>6 DEF Team!GrantsRead
<1>4. ASSUME NEW f \in v11, Team!Fetched(f)
      PROVE  TeamTypes'
  <2>1. v4' \in Team!Granted
    BY <1>4, <1>t DEF Team!Fetched, Team!Fetches
  <2>2. ({v5, v6, v7, v9, v14} \subseteq BOOLEAN)'
    BY <1>4, <1>t DEF Team!Fetched
  <2>. QED
    BY <1>4, <1>t, <1>q, <1>k, <2>1, <2>2 DEF Team!Fetched
\* The changes.
<1>c. ASSUME NEW p \in People, NEW step \in {"invite", "role", "remove", "revoke", "create"},
             NEW to \in Team!Roles \cup Team!Permissions \cup {None},
             NEW old \in Team!Grants \cup {None}, Team!Change(p, step, to, old),
             /\ step = "invite" => to = "agent"
             /\ step = "role" => to \in Team!Roles
             /\ step = "remove" => to = None
             /\ step = "revoke" => to \in Team!Permissions \cup {None}
             /\ step = "create" => to \in Team!Permissions,
             ({v7, v9} \subseteq BOOLEAN)', v8' \in People \cup {None}
      PROVE  TeamTypes'
  <2>. DEFINE c == [n |-> v12 + 1, p |-> p, to |-> to, step |-> step, old |-> old]
  <2>1. v12 < MaxChanges /\ v12' = v12 + 1 /\ v10' = v10 \cup {c}
    BY <1>c DEF Team!Change
  <2>2. v12' \in 0..MaxChanges /\ v12 + 1 \in 1..MaxChanges
    BY <1>0, <1>t, <2>1
  <2>3. c \in Team!Changes
    BY <2>2 DEF Team!Changes
  <2>4. c.step = step /\ c.to = to
    OBVIOUS
  <2>. HIDE DEF c
  <2>5. v10' \subseteq Team!Changes /\ TeamChanges'
    BY <1>0, <1>c, <1>t, <2>1, <2>3, <2>4 DEF TeamChanges
  <2>6. ({v5, v6, v7, v9, v14} \subseteq BOOLEAN)'
    BY <1>c, <1>t DEF Team!Change
  <2>. QED
    BY <1>c, <1>t, <1>q, <2>2, <2>5, <2>6 DEF Team!Change
<1>5. ASSUME NEW p \in People, Team!handleInvite(p)
      PROVE  TeamTypes'
  <2>1. Team!Change(p, "invite", "agent", None) /\ "agent" \in Team!Roles
    BY <1>5 DEF Team!handleInvite, Team!Roles
  <2>2. ({v7, v9} \subseteq BOOLEAN)' /\ v8' \in People \cup {None}
    BY <1>5, <1>t DEF Team!handleInvite
  <2>. QED
    BY <1>c, <2>1, <2>2
<1>6. ASSUME NEW p \in People, NEW r \in Team!Roles, Team!handleRoleChange(p, r)
      PROVE  TeamTypes'
  <2>1. Team!Change(p, "role", r, None)
    BY <1>6 DEF Team!handleRoleChange
  <2>2. ({v7, v9} \subseteq BOOLEAN)' /\ v8' \in People \cup {None}
    BY <1>6, <1>t DEF Team!handleRoleChange
  <2>. QED
    BY <1>c, <2>1, <2>2
<1>7. ASSUME NEW p \in People, NEW to \in Team!Permissions \cup {None},
             Team!handleListingAccessChange(p, to)
      PROVE  TeamTypes'
  <2>1. /\ Team!Change(p, IF v4[p] # None THEN "revoke" ELSE "create", to, v4[p])
        /\ v4[p] = None => to # None
    BY <1>7 DEF Team!handleListingAccessChange
  <2>2. ({v7, v9} \subseteq BOOLEAN)' /\ v8' \in People \cup {None}
    BY <1>7, <1>t DEF Team!handleListingAccessChange
  <2>3. v4[p] \in Team!Grants \cup {None}
    BY <1>t DEF Team!Granted
  <2>4. CASE v4[p] = None
    BY <1>c, <2>1, <2>2, <2>3, <2>4
  <2>5. CASE v4[p] # None
    BY <1>c, <2>1, <2>2, <2>3, <2>5
  <2>. QED
    BY <2>4, <2>5
<1>8. ASSUME NEW p \in People, Team!setRemoveTarget(p)
      PROVE  TeamTypes'
  BY <1>8, <1>t, <1>q, <1>k DEF Team!setRemoveTarget
<1>9. CASE Team!confirmRemove
  <2>1. Team!Change(v8, "remove", None, None) /\ v8 \in People
    BY <1>9, <1>t DEF Team!confirmRemove, Team!RemoveDialog
  <2>2. ({v7, v9} \subseteq BOOLEAN)' /\ v8' \in People \cup {None}
    BY <1>9, <1>t DEF Team!confirmRemove
  <2>. QED
    BY <1>c, <2>1, <2>2
\* The answers.
<1>d. ASSUME NEW c \in v10, Team!Done(c)
      PROVE  v1' \in Team!Teams /\ v2' \in Team!Granted
  <2>1. c \in Team!Changes /\ c.p \in People /\ c.n \in 0..MaxChanges
    BY <1>0, <1>t DEF Team!Changes
  <2>2. c.step \in {"invite", "role", "remove"} => c.to \in Team!Roles \cup {None}
    BY <1>0 DEF TeamChanges, Team!Roles
  <2>3. v1' \in Team!Teams
    BY <1>d, <1>t, <2>1, <2>2 DEF Team!Done, Team!Teams
  <2>4. c.step = "create" => [n |-> c.n, permission |-> c.to] \in Team!Grants
    BY <1>0, <2>1 DEF TeamChanges, Team!Grants
  <2>5. v2' \in Team!Granted
    <3>. DEFINE g == [n |-> c.n, permission |-> c.to]
    <3>1. \/ v2' = [v2 EXCEPT ![c.p] = None] \/ v2' = v2
          \/ c.step = "create" /\ v2' = [v2 EXCEPT ![c.p] = g]
      BY <1>d DEF Team!Done
    <3>. HIDE DEF g
    <3>2. c.step = "create" => g \in Team!Grants
      BY <2>4 DEF g
    <3>. QED
      BY <1>t, <2>1, <3>1, <3>2 DEF Team!Granted
  <2>. QED
    BY <2>3, <2>5
<1>l. ASSUME NEW c \in v10, Team!fetchData(c.n)
      PROVE  /\ v11' \subseteq Team!Fetches /\ v5' = TRUE /\ v6' = FALSE
  <2>1. c.n \in 0..MaxChanges
    BY <1>0, <1>t DEF Team!Changes
  <2>. QED
    BY <1>f, <1>l, <1>t, <2>1 DEF Team!fetchData
<1>g. ASSUME NEW c \in v10, NEW ok \in BOOLEAN, Team!DialogsAfter(c, ok)
      PROVE  ({v7, v9} \subseteq BOOLEAN)' /\ v8' \in People \cup {None}
  <2>1. ({v7, v9} \subseteq BOOLEAN)'
    BY <1>g DEF Team!DialogsAfter
  <2>2. v8' \in People \cup {None}
    BY <1>g, <1>t DEF Team!DialogsAfter
  <2>. QED
    BY <2>1, <2>2
<1>10. ASSUME NEW c \in v10, Team!Succeeded(c)
       PROVE  TeamTypes'
  <2>1. v1' \in Team!Teams /\ v2' \in Team!Granted
    BY <1>10, <1>d DEF Team!Succeeded
  <2>2. ({v7, v9} \subseteq BOOLEAN)' /\ v8' \in People \cup {None}
    BY <1>10, <1>g DEF Team!Succeeded
  <2>3. UNCHANGED <<v3, v12, v13, v14>>
    BY <1>10 DEF Team!Succeeded
  <2>4. v10' \subseteq Team!Changes /\ TeamChanges'
    <3>. DEFINE d == [c EXCEPT !.step = "create"]
    <3>1. c \in Team!Changes /\ d \in Team!Changes /\ d.step = "create" /\ d.to = c.to
      BY <1>t DEF Team!Changes
    <3>2. v10' = v10 \ {c} \/ (c.step = "revoke" /\ c.to # None /\ v10' = (v10 \ {c}) \cup {d})
      BY <1>10 DEF Team!Succeeded
    <3>. HIDE DEF d
    <3>3. c.step = "revoke" /\ c.to # None => d.to \in Team!Permissions
      BY <1>0, <3>1 DEF TeamChanges
    <3>. QED
      BY <1>0, <1>t, <3>1, <3>2, <3>3 DEF TeamChanges
  <2>5. v11' \subseteq Team!Fetches /\ (UNCHANGED <<v5, v6>> \/ (v5' = TRUE /\ v6' = FALSE))
    BY <1>10, <1>l, <1>t DEF Team!Succeeded
  <2>6. v4' \in Team!Granted
    <3>1. c.p \in People
      BY <1>t DEF Team!Changes
    <3>2. v4' = v4 \/ v4' = [v4 EXCEPT ![c.p] = v2'[c.p]]
      BY <1>10 DEF Team!Succeeded
    <3>. QED
      BY <1>t, <2>1, <3>1, <3>2 DEF Team!Granted
  <2>7. ({v5, v6, v7, v9, v14} \subseteq BOOLEAN)'
    BY <1>t, <2>2, <2>3, <2>5
  <2>. QED
    BY <1>t, <1>q, <2>1, <2>2, <2>3, <2>4, <2>5, <2>6, <2>7
<1>a. ASSUME NEW c \in v10, Team!AfterFailure(c), v1' \in Team!Teams, v2' \in Team!Granted,
             v13' \in 0..MaxLost, v14' \in BOOLEAN
      PROVE  TeamTypes'
  <2>1. v10' = v10 \ {c} /\ UNCHANGED <<v3, v4, v12>>
    BY <1>a DEF Team!AfterFailure
  <2>2. ({v7, v9} \subseteq BOOLEAN)' /\ v8' \in People \cup {None}
    BY <1>a, <1>g DEF Team!AfterFailure
  <2>3. v11' \subseteq Team!Fetches /\ (UNCHANGED <<v5, v6>> \/ (v5' = TRUE /\ v6' = FALSE))
    BY <1>a, <1>l, <1>t DEF Team!AfterFailure
  <2>4. ({v5, v6, v7, v9, v14} \subseteq BOOLEAN)'
    BY <1>a, <1>t, <2>2, <2>3
  <2>5. v10' \subseteq Team!Changes /\ TeamChanges'
    BY <1>0, <1>t, <2>1 DEF TeamChanges
  <2>. QED
    BY <1>a, <1>t, <1>q, <2>1, <2>2, <2>3, <2>4, <2>5
<1>11. ASSUME NEW c \in v10, Team!Refused(c)
       PROVE  TeamTypes'
  <2>1. Team!AfterFailure(c) /\ UNCHANGED <<v1, v2, v13, v14>>
    BY <1>11 DEF Team!Refused
  <2>. QED
    BY <1>a, <1>t, <2>1
<1>12. ASSUME NEW c \in v10, Team!Lost(c)
       PROVE  TeamTypes'
  <2>1. Team!AfterFailure(c) /\ v13 < MaxLost /\ v13' = v13 + 1
    BY <1>12 DEF Team!Lost
  <2>2. v1' \in Team!Teams /\ v2' \in Team!Granted
    BY <1>12, <1>d, <1>t DEF Team!Lost
  <2>3. v14' \in BOOLEAN
    BY <1>12, <1>t DEF Team!Lost
  <2>4. v13' \in 0..MaxLost
    BY <1>0, <1>t, <2>1
  <2>. QED
    BY <1>a, <2>1, <2>2, <2>3, <2>4
<1>. QED
  BY <1>1, <1>2, <1>3, <1>4, <1>5, <1>6, <1>7, <1>8, <1>9, <1>10, <1>11, <1>12 DEF Team!Next

-----------------------------------------------------------------------------
\* A ticket that is named exists, and the agent's thread is of a ticket selected.
Postings == [id : Tickets, n : 1..MaxMessages, shown : Tickets, overlap : BOOLEAN,
             seen : Support!Statuses \cup {None}, raced : BOOLEAN, said : {None, "ok", "error"}]
TicketsNamed ==
  /\ v8 => v9 \in Tickets /\ v1[v9] # None
  /\ \A v \in v6 \cup v14 : v1[v.id] # None
  /\ v13 # None \/ v14 # {} => v12 \in Tickets /\ v1[v12] # None
  /\ v11 \in Postings \cup {None}
SupportTypes == Support!TypeOK /\ TicketsNamed

\* The page of tickets starts well typed,
LEMMA SupportTypesInit ==
  ASSUME Support!Init
  PROVE  SupportTypes
<1>1. /\ MaxSelected \in Nat /\ MaxMessages \in Nat /\ MaxAgent \in Nat /\ MaxLost \in Nat
  BY BoundsAssumption
<1>2. {v5, v7, v8, v10, v20} \subseteq BOOLEAN
  BY DEF Support!Init
<1>3. Support!TypeOK
  BY <1>1, <1>2 DEF Support!Init, Support!TypeOK, Support!Statuses
<1>4. TicketsNamed
  BY DEF Support!Init, TicketsNamed
<1>. QED
  BY <1>3, <1>4 DEF SupportTypes

\* and stays so: a thread is opened of a ticket that exists.
LEMMA SupportTypesStep ==
  ASSUME SupportTypes, Support!Next
  PROVE  SupportTypes'
<1>. USE DEF Support!serverVars, Support!detailVars, Support!createVars, Support!replyVars,
       Support!agentVars
<1>0. /\ MaxSelected \in Nat /\ MaxMessages \in Nat /\ MaxAgent \in Nat /\ MaxLost \in Nat
      /\ None \notin Support!Statuses
      /\ Support!TypeOK /\ TicketsNamed
  BY BoundsAssumption, ToldAssumption DEF SupportTypes
<1>t. /\ v1 \in [Tickets -> Support!Statuses \cup {None}]
      /\ v2 \in [Tickets -> SUBSET (1..MaxMessages)]
      /\ v3 \in Tickets \cup {None} /\ v12 \in Tickets \cup {None} /\ v9 \in Tickets \cup {None}
      /\ v4 \in Support!Details \cup {None}
      /\ v13 \in [id : Tickets, status : Support!Statuses] \cup {None}
      /\ v6 \subseteq Support!Views /\ v14 \subseteq Support!AgentViews
      /\ {v5, v7, v8, v10, v20} \subseteq BOOLEAN /\ v19 \subseteq Tickets
      /\ v15 \in 0..MaxSelected /\ v16 \in 0..MaxMessages
      /\ v17 \in 0..MaxAgent /\ v18 \in 0..MaxLost
  BY <1>0 DEF Support!TypeOK
<1>n. /\ v8 => v9 \in Tickets /\ v1[v9] # None
      /\ \A v \in v6 : v1[v.id] # None
      /\ \A v \in v14 : v1[v.id] # None
      /\ v13 # None \/ v14 # {} => v12 \in Tickets /\ v1[v12] # None
      /\ v11 \in Postings \cup {None}
  BY <1>0 DEF TicketsNamed
<1>q. ASSUME v1' \in [Tickets -> Support!Statuses \cup {None}],
             v2' \in [Tickets -> SUBSET (1..MaxMessages)],
             v3' \in Tickets \cup {None}, v12' \in Tickets \cup {None}, v9' \in Tickets \cup {None},
             v4' \in Support!Details \cup {None},
             v13' \in [id : Tickets, status : Support!Statuses] \cup {None},
             v6' \subseteq Support!Views, v14' \subseteq Support!AgentViews,
             ({v5, v7, v8, v10, v20} \subseteq BOOLEAN)', v19' \subseteq Tickets,
             v15' \in 0..MaxSelected, v16' \in 0..MaxMessages,
             v17' \in 0..MaxAgent, v18' \in 0..MaxLost,
             v8' => v9' \in Tickets /\ v1'[v9'] # None,
             \A v \in v6' : v1'[v.id] # None,
             \A v \in v14' : v1'[v.id] # None,
             v13' # None \/ v14' # {} => v12' \in Tickets /\ v1'[v12'] # None,
             v11' \in Postings \cup {None}
      PROVE  SupportTypes'
  BY <1>q DEF SupportTypes, Support!TypeOK, TicketsNamed, Postings
<1>s. ASSUME NEW t \in Tickets, v1[t] # None, UNCHANGED <<v1, v2>>
      PROVE  Support!get_ticket(t) \in Support!Details
  BY <1>s, <1>t DEF Support!get_ticket, Support!Details
\* The customer's page.
<1>l. ASSUME NEW t \in Tickets, v1[t] # None, Support!selectTicket(t),
             ({v7, v8} \subseteq BOOLEAN)', v9' \in Tickets \cup {None},
             v8' => v9' \in Tickets /\ v1[v9'] # None
      PROVE  SupportTypes'
  <2>. DEFINE l == [n |-> v15 + 1, id |-> t, got |-> None]
  <2>1. v15 < MaxSelected /\ v15' = v15 + 1 /\ v6' = v6 \cup {l}
    BY <1>l DEF Support!selectTicket
  <2>2. v15' \in 0..MaxSelected /\ l \in Support!Views /\ l.id = t
    BY <1>0, <1>t, <2>1 DEF Support!Views
  <2>3. UNCHANGED <<v1, v2, v4, v10, v11, v12, v13, v14, v16, v17, v18, v19>> /\ v3' = t
    BY <1>l DEF Support!selectTicket
  <2>4. ({v5, v7, v8, v10, v20} \subseteq BOOLEAN)'
    BY <1>l, <1>t DEF Support!selectTicket
  <2>. HIDE DEF l
  <2>5. v6' \subseteq Support!Views /\ \A v \in v6' : v1'[v.id] # None
    BY <1>l, <1>n, <1>t, <2>1, <2>2, <2>3
  <2>. QED
    BY <1>l, <1>n, <1>t, <1>q, <2>2, <2>3, <2>4, <2>5
<1>1. ASSUME NEW t \in Tickets, Support!Row(t)
      PROVE  SupportTypes'
  <2>1. v1[t] # None /\ Support!selectTicket(t) /\ UNCHANGED <<v7, v8, v9>>
    BY <1>1 DEF Support!Row, Support!Existing
  <2>2. ({v7, v8} \subseteq BOOLEAN)'
    BY <1>t, <2>1
  <2>. QED
    BY <1>l, <1>n, <1>t, <2>1, <2>2
<1>2. ASSUME NEW v \in v6, Support!Read(v)
      PROVE  SupportTypes'
  <2>. DEFINE w == [v EXCEPT !.got = Support!get_ticket(v.id)]
  <2>1. v6' = (v6 \ {v}) \cup {w} /\ UNCHANGED <<v1, v2>>
    BY <1>2 DEF Support!Read
  <2>2. w \in Support!Views /\ w.id = v.id
    BY <1>n, <1>s, <1>t, <2>1 DEF Support!Views
  <2>. HIDE DEF w
  <2>3. v6' \subseteq Support!Views /\ \A u \in v6' : v1'[u.id] # None
    BY <1>n, <1>t, <2>1, <2>2
  <2>. QED
    BY <1>2, <1>n, <1>t, <1>q, <2>3 DEF Support!Read
<1>3. ASSUME NEW v \in v6, Support!Shown(v)
      PROVE  SupportTypes'
  <2>1. v4' \in Support!Details \cup {None}
    BY <1>3, <1>t DEF Support!Shown, Support!Views
  <2>2. ({v5, v7, v8, v10, v20} \subseteq BOOLEAN)'
    BY <1>3, <1>t DEF Support!Shown
  <2>. QED
    BY <1>3, <1>n, <1>t, <1>q, <2>1, <2>2 DEF Support!Shown
<1>4. ASSUME NEW v \in v6, Support!NotShown(v)
      PROVE  SupportTypes'
  <2>1. v18' \in 0..MaxLost
    BY <1>0, <1>4, <1>t DEF Support!NotShown
  <2>2. ({v5, v7, v8, v10, v20} \subseteq BOOLEAN)'
    BY <1>4, <1>t DEF Support!NotShown
  <2>. QED
    BY <1>4, <1>n, <1>t, <1>q, <2>1, <2>2 DEF Support!NotShown
<1>5. CASE Support!ToggleCreate
  <2>1. ({v5, v7, v8, v10, v20} \subseteq BOOLEAN)'
    BY <1>5, <1>t DEF Support!ToggleCreate
  <2>. QED
    BY <1>5, <1>n, <1>t, <1>q, <2>1 DEF Support!ToggleCreate
<1>6. ASSUME NEW t \in Tickets, Support!handleCreate(t)
      PROVE  SupportTypes'
  <2>1. v1' = [v1 EXCEPT ![t] = "open"] /\ "open" \in Support!Statuses
    BY <1>6 DEF Support!handleCreate, Support!Statuses
  <2>2. v1' \in [Tickets -> Support!Statuses \cup {None}] /\ v1'[t] # None
        /\ \A u \in Tickets : v1[u] # None => v1'[u] # None
    BY <1>0, <1>t, <2>1
  <2>3. ({v5, v7, v8, v10, v20} \subseteq BOOLEAN)'
    BY <1>6, <1>t DEF Support!handleCreate
  <2>4. /\ \A v \in v6 : v.id \in Tickets
        /\ \A v \in v14 : v.id \in Tickets
    BY <1>t DEF Support!Views, Support!AgentViews
  <2>. QED
    BY <1>6, <1>n, <1>t, <1>q, <2>2, <2>3, <2>4 DEF Support!handleCreate
<1>7. CASE Support!Created
  <2>1. v9 \in Tickets /\ v1[v9] # None /\ Support!selectTicket(v9)
        /\ v7' = FALSE /\ v8' = FALSE /\ v9' = None
    BY <1>7, <1>n DEF Support!Created
  <2>2. ({v7, v8} \subseteq BOOLEAN)'
    BY <2>1
  <2>. QED
    BY <1>l, <2>1, <2>2
<1>8. CASE Support!NotCreated
  <2>1. v18' \in 0..MaxLost
    BY <1>0, <1>8, <1>t DEF Support!NotCreated
  <2>2. ({v5, v7, v8, v10, v20} \subseteq BOOLEAN)'
    BY <1>8, <1>t DEF Support!NotCreated
  <2>. QED
    BY <1>8, <1>n, <1>t, <1>q, <2>1, <2>2 DEF Support!NotCreated
\* A reply.
<1>9. CASE Support!handleReply
  <2>1. /\ v3 \in Tickets /\ v4 \in Support!Details /\ v16 < MaxMessages /\ v16' = v16 + 1
        /\ v11' = [id |-> v3, n |-> v16', shown |-> v4.id, overlap |-> v20, seen |-> None,
                   raced |-> FALSE, said |-> None]
    BY <1>9, <1>t DEF Support!handleReply, Support!ReplyBox, Support!ThreadPanel
  <2>2. v16' \in 1..MaxMessages /\ v20 \in BOOLEAN /\ v4.id \in Tickets
    BY <1>0, <1>t, <2>1 DEF Support!Details
  <2>3. v11' \in Postings
    BY <2>1, <2>2 DEF Postings
  <2>4. ({v5, v7, v8, v10, v20} \subseteq BOOLEAN)'
    BY <1>9, <1>t DEF Support!handleReply
  <2>. QED
    BY <1>9, <1>n, <1>t, <1>q, <2>2, <2>3, <2>4 DEF Support!handleReply
<1>10. CASE Support!CheckTicket
  <2>1. v11 \in Postings /\ v1[v11.id] \in Support!Statuses \cup {None}
    BY <1>10, <1>n, <1>t DEF Support!CheckTicket, Postings
  <2>2. v11' \in Postings
    BY <1>10, <2>1 DEF Support!CheckTicket, Postings
  <2>. QED
    BY <1>10, <1>n, <1>t, <1>q, <2>2 DEF Support!CheckTicket
<1>11. CASE Support!add_message
  <2>1. /\ v11 \in Postings /\ v11.seen # None
        /\ v1' = [v1 EXCEPT ![v11.id] = Support!Reopened(v11.seen, v1[v11.id])]
        /\ v2' = [v2 EXCEPT ![v11.id] = v2[v11.id] \cup {v11.n}]
    BY <1>11, <1>n DEF Support!add_message
  <2>2. v11.id \in Tickets /\ v11.n \in 1..MaxMessages
    BY <2>1 DEF Postings
  <2>3. /\ Support!Reopened(v11.seen, v1[v11.id]) \in Support!Statuses \cup {None}
        /\ v1[v11.id] # None => Support!Reopened(v11.seen, v1[v11.id]) # None
    BY <1>0, <1>t, <2>2 DEF Support!Reopened, Support!Statuses
  <2>4. v1' \in [Tickets -> Support!Statuses \cup {None}]
        /\ \A u \in Tickets : v1[u] # None => v1'[u] # None
    BY <1>t, <2>1, <2>2, <2>3
  <2>5. v2' \in [Tickets -> SUBSET (1..MaxMessages)]
    BY <1>t, <2>1, <2>2
  <2>6. v11' \in Postings
    BY <1>11, <2>1 DEF Support!add_message, Postings
  <2>7. v19' \subseteq Tickets
    BY <1>11, <1>t, <2>2 DEF Support!add_message
  <2>8. /\ \A v \in v6 : v.id \in Tickets
        /\ \A v \in v14 : v.id \in Tickets
    BY <1>t DEF Support!Views, Support!AgentViews
  <2>9. UNCHANGED <<v3, v4, v5, v6, v7, v8, v9, v10, v12, v13, v14, v15, v16, v17, v18, v20>>
    BY <1>11 DEF Support!add_message
  <2>. QED
    BY <1>n, <1>t, <1>q, <2>4, <2>5, <2>6, <2>7, <2>8, <2>9
<1>12. CASE Support!Replied
  <2>1. v11 \in Postings
    BY <1>12, <1>n DEF Support!Replied
  <2>2. v4' \in Support!Details \cup {None}
    BY <1>12, <1>t, <2>1 DEF Support!Replied, Support!Details, Postings
  <2>3. ({v5, v7, v8, v10, v20} \subseteq BOOLEAN)'
    BY <1>12, <1>t DEF Support!Replied
  <2>. QED
    BY <1>12, <1>n, <1>t, <1>q, <2>2, <2>3 DEF Support!Replied
<1>13. CASE Support!NotReplied
  <2>1. v18' \in 0..MaxLost
    BY <1>0, <1>13, <1>t, ToldAssumption DEF Support!NotReplied
  <2>2. ({v5, v7, v8, v10, v20} \subseteq BOOLEAN)'
    BY <1>13, <1>t DEF Support!NotReplied
  <2>. QED
    BY <1>13, <1>n, <1>t, <1>q, <2>1, <2>2 DEF Support!NotReplied
\* The agent.
<1>14. ASSUME NEW t \in Tickets, Support!AgentSelects(t)
       PROVE  SupportTypes'
  <2>. DEFINE l == [n |-> v17 + 1, id |-> t]
  <2>1. v17 < MaxAgent /\ v17' = v17 + 1 /\ v14' = v14 \cup {l} /\ v1[t] # None
    BY <1>14 DEF Support!AgentSelects, Support!AgentLoads, Support!Existing
  <2>2. v17' \in 0..MaxAgent /\ l \in Support!AgentViews /\ l.id = t
    BY <1>0, <1>t, <2>1 DEF Support!AgentViews
  <2>. HIDE DEF l
  <2>3. v14' \subseteq Support!AgentViews /\ \A v \in v14' : v1[v.id] # None
    BY <1>n, <1>t, <2>1, <2>2
  <2>. QED
    BY <1>14, <1>n, <1>t, <1>q, <2>1, <2>2, <2>3 DEF Support!AgentSelects
<1>15. ASSUME NEW v \in v14, Support!AgentShown(v)
       PROVE  SupportTypes'
  <2>1. v.id \in Tickets /\ v1[v.id] \in Support!Statuses
    BY <1>n, <1>t DEF Support!AgentViews
  <2>2. v13' \in [id : Tickets, status : Support!Statuses] \cup {None}
    BY <1>15, <2>1 DEF Support!AgentShown
  <2>. QED
    BY <1>15, <1>n, <1>t, <1>q, <2>2 DEF Support!AgentShown
<1>a. ASSUME Support!AgentActs, NEW s \in Support!Statuses \cup {None}, v1[v12] # None => s # None,
             v1' = [v1 EXCEPT ![v12] = s],
             v2' \in [Tickets -> SUBSET (1..MaxMessages)], v16' \in 0..MaxMessages
      PROVE  SupportTypes'
  <2>. DEFINE l == [n |-> v17 + 1, id |-> v12]
  <2>1. v17 < MaxAgent /\ v17' = v17 + 1 /\ v14' = v14 \cup {l} /\ v13 # None
    BY <1>a DEF Support!AgentActs, Support!AgentLoads, Support!AgentPanel
  <2>2. v12 \in Tickets /\ v1[v12] # None
    BY <1>n, <2>1
  <2>3. v17' \in 0..MaxAgent /\ l \in Support!AgentViews /\ l.id = v12
    BY <1>0, <1>t, <2>1, <2>2 DEF Support!AgentViews
  <2>. HIDE DEF l
  <2>4. v1' \in [Tickets -> Support!Statuses \cup {None}]
        /\ \A u \in Tickets : v1[u] # None => v1'[u] # None
    BY <1>a, <1>t, <2>2
  <2>5. /\ \A v \in v6 : v.id \in Tickets
        /\ \A v \in v14 : v.id \in Tickets
    BY <1>t DEF Support!Views, Support!AgentViews
  <2>6. v14' \subseteq Support!AgentViews /\ \A v \in v14' : v1'[v.id] # None
    BY <1>n, <1>t, <2>1, <2>2, <2>3, <2>4, <2>5
  <2>7. v11' \in Postings \cup {None}
    <3>1. v11' = v11 \/ (v11 # None /\ v11' = [v11 EXCEPT !.raced = TRUE])
      BY <1>a DEF Support!AgentActs
    <3>2. v11 \in Postings => [v11 EXCEPT !.raced = TRUE] \in Postings
      BY DEF Postings
    <3>. QED
      BY <1>n, <3>1, <3>2
  <2>8. v19' \subseteq Tickets /\ UNCHANGED <<v3, v4, v5, v6, v7, v8, v9, v10, v12, v13, v15, v18, v20>>
    BY <1>a, <1>t DEF Support!AgentActs
  <2>. QED
    BY <1>a, <1>n, <1>t, <1>q, <2>2, <2>3, <2>4, <2>5, <2>6, <2>7, <2>8
<1>16. ASSUME NEW s \in Support!Statuses, Support!handleStatusChange(s)
       PROVE  SupportTypes'
  <2>1. Support!AgentActs /\ v1' = [v1 EXCEPT ![v12] = s] /\ UNCHANGED <<v2, v16>>
    BY <1>16 DEF Support!handleStatusChange
  <2>. QED
    BY <1>0, <1>a, <1>t, <2>1
<1>17. CASE Support!admin_reply
  <2>. DEFINE s == IF v1[v12] = "open" THEN "in_progress" ELSE v1[v12]
  <2>1. /\ Support!AgentActs /\ v1' = [v1 EXCEPT ![v12] = s] /\ v13 # None
        /\ v16 < MaxMessages /\ v16' = v16 + 1
        /\ v2' = [v2 EXCEPT ![v12] = v2[v12] \cup {v16'}]
    BY <1>17 DEF Support!admin_reply, Support!AgentActs, Support!AgentPanel
  <2>2. v12 \in Tickets /\ v16' \in 0..MaxMessages /\ v16' \in 1..MaxMessages
    BY <1>0, <1>n, <1>t, <2>1
  <2>3. s \in Support!Statuses \cup {None} /\ (v1[v12] # None => s # None)
    BY <1>0, <1>t, <2>2 DEF Support!Statuses
  <2>. HIDE DEF s
  <2>4. v2' \in [Tickets -> SUBSET (1..MaxMessages)]
    BY <1>t, <2>1, <2>2
  <2>. QED
    BY <1>a, <2>1, <2>2, <2>3, <2>4
<1>. QED
  BY <1>1, <1>2, <1>3, <1>4, <1>5, <1>6, <1>7, <1>8, <1>9, <1>10, <1>11, <1>12, <1>13, <1>14,
     <1>15, <1>16, <1>17 DEF Support!Next

-----------------------------------------------------------------------------
\* What is sent; a form that is open has a plan.  An adjustment under way has not changed a
\* balance yet, nor has a request under way asked for anything again.
AdjustsSent == [op : {"adjust"}, n : Nat, of : Tenants]
SavesSent == [op : {"save"}, n : Nat, of : Tenants, plan : Plans, kept : BOOLEAN]
AdminCalls ==
  /\ IsFiniteSet(v10) /\ v10 \subseteq AdjustsSent \cup SavesSent
  /\ v5 # None => v8 \in Plans
AdminSent(op) == {c \in v10 : c.op = op}
AdminAsked ==
  LET a == Cardinality(AdminSent("adjust"))
      s == Cardinality(AdminSent("save"))
  IN /\ \A t \in Tenants : v2[t] + a <= v13
     /\ v11 + 2 * a + s <= 1 + v12 + 2 * v13 + v14
AdminTypes == Admin!TypeOK /\ AdminCalls /\ AdminAsked

\* The tab on tenants starts well typed,
LEMMA AdminTypesInit ==
  ASSUME Admin!Init
  PROVE  AdminTypes
<1>1. MaxSelected \in Nat /\ MaxAdjusted \in Nat /\ MaxSaved \in Nat /\ MaxChanged \in Nat
      /\ MaxLost \in Nat
  BY BoundsAssumption
<1>2. Cardinality({}) = 0 /\ IsFiniteSet({})
  BY FS_EmptySet
<1>3. {v7, v17, v18, v19, v20} \subseteq BOOLEAN
  BY DEF Admin!Init
<1>4. v1 \in [Tenants -> Plans]
  BY DEF Admin!Init, Admin!Injection, Admin!IsInjective
<1>5. v10 = {} /\ v5 = None /\ v2 = [t \in Tenants |-> 0] /\ v11 = 1 /\ v12 = 0 /\ v13 = 0 /\ v14 = 0
  BY DEF Admin!Init
<1>6. Admin!TypeOK
  BY <1>1, <1>3, <1>4 DEF Admin!Init, Admin!TypeOK, Admin!MaxAsked
<1>7. AdminCalls
  BY <1>2, <1>5 DEF AdminCalls
<1>8. AdminAsked
  <2>1. AdminSent("adjust") = {} /\ AdminSent("save") = {}
    BY <1>5 DEF AdminSent
  <2>. QED
    BY <1>2, <1>5, <2>1 DEF AdminAsked
<1>. QED
  BY <1>6, <1>7, <1>8 DEF AdminTypes

\* and stays so: every adjustment and every save asks for one more list and one more balance.
LEMMA AdminTypesStep ==
  ASSUME AdminTypes, Admin!Next
  PROVE  AdminTypes'
<1>. USE DEF Admin!serverVars, Admin!pageVars, Admin!counters
<1>. DEFINE A == AdminSent("adjust")
            S == AdminSent("save")
            a == Cardinality(A)
            s == Cardinality(S)
            Reads == [n : 1..Admin!MaxAsked, of : Tenants \cup {None}]
<1>0. /\ MaxSelected \in Nat /\ MaxAdjusted \in Nat /\ MaxSaved \in Nat /\ MaxChanged \in Nat
      /\ MaxLost \in Nat /\ None \notin Tenants
      /\ Admin!TypeOK /\ AdminCalls /\ AdminAsked
  BY BoundsAssumption, ShownAssumption DEF AdminTypes
<1>t. /\ v1 \in [Tenants -> Plans] /\ v2 \in [Tenants -> 0..MaxAdjusted]
      /\ v3 \in {"tenants", "credits"} /\ v4 \in Admin!Rosters \cup {None}
      /\ v5 \in Tenants \cup {None} /\ v6 \in Admin!Balances \cup {None}
      /\ {v7, v17, v18, v19, v20} \subseteq BOOLEAN /\ v8 \in Plans \cup {None}
      /\ \A r \in v9 : r.n \in 1..Admin!MaxAsked /\ r.of \in Tenants \cup {None}
      /\ v11 \in 0..Admin!MaxAsked /\ v12 \in 0..MaxSelected /\ v13 \in 0..MaxAdjusted
      /\ v14 \in 0..MaxSaved /\ v15 \in 0..MaxChanged /\ v16 \in 0..MaxLost
  BY <1>0 DEF Admin!TypeOK
<1>c. /\ IsFiniteSet(v10) /\ v10 \subseteq AdjustsSent \cup SavesSent
      /\ v5 # None => v8 \in Plans
  BY <1>0 DEF AdminCalls
<1>s. IsFiniteSet(A) /\ IsFiniteSet(S) /\ a \in Nat /\ s \in Nat
  <2>1. A \in SUBSET v10 /\ S \in SUBSET v10
    BY DEF AdminSent
  <2>. QED
    BY <1>c, <2>1, FS_Subset, FS_CardinalityType
<1>a. /\ \A t \in Tenants : v2[t] + a <= v13
      /\ v11 + 2 * a + s <= 1 + v12 + 2 * v13 + v14
  BY <1>0 DEF AdminAsked
<1>. HIDE DEF A, S, a, s
<1>m. Admin!MaxAsked = 1 + MaxSelected + 2 * MaxAdjusted + MaxSaved
  BY DEF Admin!MaxAsked
<1>q. ASSUME v1' \in [Tenants -> Plans], v2' \in [Tenants -> 0..MaxAdjusted],
             v3' \in {"tenants", "credits"}, v4' \in Admin!Rosters \cup {None},
             v5' \in Tenants \cup {None}, v6' \in Admin!Balances \cup {None},
             ({v7, v17, v18, v19, v20} \subseteq BOOLEAN)', v8' \in Plans \cup {None},
             \A r \in v9' : r.n \in 1..Admin!MaxAsked /\ r.of \in Tenants \cup {None},
             v10' \subseteq AdjustsSent \cup SavesSent,
             v11' \in 0..Admin!MaxAsked, v12' \in 0..MaxSelected, v13' \in 0..MaxAdjusted,
             v14' \in 0..MaxSaved, v15' \in 0..MaxChanged, v16' \in 0..MaxLost,
             IsFiniteSet(v10'), v5' # None => v8' \in Plans, AdminAsked'
      PROVE  AdminTypes'
  <2>1. \A c \in v10' : c.op \in {"adjust", "save"} /\ c.of \in Tenants
    BY <1>q DEF AdjustsSent, SavesSent
  <2>2. Admin!TypeOK'
    BY <1>q, <2>1 DEF Admin!TypeOK
  <2>. QED
    BY <1>q, <2>2 DEF AdminTypes, AdminCalls
<1>u. UNCHANGED v10 => UNCHANGED <<AdminSent("adjust"), AdminSent("save")>>
  BY DEF AdminSent
<1>k. UNCHANGED <<v2, v10, v11, v12, v13, v14>> => AdminAsked'
  BY <1>0, <1>u DEF AdminAsked
\* How the calls are counted.
<1>n. ASSUME IsFiniteSet(v10'), NEW x \in Nat, NEW y \in Nat,
             Cardinality(AdminSent("adjust")') <= x,
             Cardinality(AdminSent("save")') <= y,
             \A t \in Tenants : v2'[t] + x <= v13',
             v2' \in [Tenants -> Nat], v11' \in Nat, v12' \in Nat, v13' \in Nat, v14' \in Nat,
             v11' + 2 * x + y <= 1 + v12' + 2 * v13' + v14'
      PROVE  AdminAsked'
  <2>1. /\ Cardinality(AdminSent("adjust")') \in Nat
        /\ Cardinality(AdminSent("save")') \in Nat
    <3>1. AdminSent("adjust")' \in SUBSET v10' /\ AdminSent("save")' \in SUBSET v10'
      BY DEF AdminSent
    <3>. QED
      BY <1>n, <3>1, FS_Subset, FS_CardinalityType
  <2>2. ASSUME NEW z \in Nat, NEW w \in Nat, z <= x, w <= y
        PROVE  /\ \A t \in Tenants : v2'[t] + z <= v13'
               /\ v11' + 2 * z + w <= 1 + v12' + 2 * v13' + v14'
    <3>1. ASSUME NEW t \in Tenants
          PROVE  v2'[t] + z <= v13'
      <4>1. v2'[t] \in Nat /\ v2'[t] + x <= v13' /\ v13' \in Nat
        BY <1>n
      <4>. QED
        BY <2>2, <4>1
    <3>2. v11' + 2 * z + w <= 1 + v12' + 2 * v13' + v14'
      <4>1. /\ v11' \in Nat /\ v12' \in Nat /\ v13' \in Nat /\ v14' \in Nat
            /\ v11' + 2 * x + y <= 1 + v12' + 2 * v13' + v14'
        BY <1>n
      <4>2. \A k, m \in Nat : k + 2 * x + y <= m => k + 2 * z + w <= m
        BY <2>2
      <4>3. 1 + v12' + 2 * v13' + v14' \in Nat
        <5>1. \A i, j, k \in Nat : 1 + i + 2 * j + k \in Nat
          OBVIOUS
        <5>. QED
          BY <4>1, <5>1
      <4>. DEFINE m == 1 + v12' + 2 * v13' + v14'
      <4>. HIDE DEF m
      <4>4. v11' + 2 * x + y <= m /\ m \in Nat
        BY <4>1, <4>3 DEF m
      <4>5. v11' + 2 * z + w <= m
        BY <4>1, <4>2, <4>4
      <4>. QED
        BY <4>5 DEF m
    <3>. QED
      BY <3>1, <3>2
  <2>. QED
    BY <1>n, <2>1, <2>2 DEF AdminAsked
\* A call that is sent,
<1>p. ASSUME NEW c \in AdjustsSent \cup SavesSent, v10' = v10 \cup {c}
      PROVE  /\ IsFiniteSet(v10') /\ v10' \subseteq AdjustsSent \cup SavesSent
             /\ c \in AdjustsSent =>
                  /\ Cardinality(AdminSent("adjust")') <= a + 1
                  /\ Cardinality(AdminSent("save")') <= s
             /\ c \in SavesSent =>
                  /\ Cardinality(AdminSent("adjust")') <= a
                  /\ Cardinality(AdminSent("save")') <= s + 1
  <2>1. IsFiniteSet(v10')
    BY <1>c, <1>p, FS_AddElement
  <2>2. /\ c \in AdjustsSent => /\ AdminSent("adjust")' = A \cup {c}
                                 /\ AdminSent("save")' = S
        /\ c \in SavesSent => /\ AdminSent("adjust")' = A
                               /\ AdminSent("save")' = S \cup {c}
    BY <1>p DEF AdjustsSent, SavesSent, AdminSent, A, S
  <2>3. Cardinality(A \cup {c}) <= a + 1 /\ Cardinality(S \cup {c}) <= s + 1
    <3>1. Cardinality(A \cup {c}) \in {a, a + 1}
      BY <1>s, FS_AddElement DEF a
    <3>2. Cardinality(S \cup {c}) \in {s, s + 1}
      BY <1>s, FS_AddElement DEF s
    <3>. QED
      BY <1>s, <3>1, <3>2
  <2>4. a <= a /\ s <= s
    BY <1>s
  <2>. QED
    BY <1>c, <1>p, <2>1, <2>2, <2>3, <2>4 DEF a, s
\* and one that is answered.
<1>r. ASSUME NEW c \in v10, v10' = v10 \ {c}, c.op = "adjust"
      PROVE  /\ IsFiniteSet(v10') /\ v10' \subseteq AdjustsSent \cup SavesSent
             /\ a > 0
             /\ Cardinality(AdminSent("adjust")') <= a - 1
             /\ Cardinality(AdminSent("save")') <= s
  <2>1. IsFiniteSet(v10')
    BY <1>c, <1>r, FS_RemoveElement
  <2>2. AdminSent("adjust")' = A \ {c} /\ AdminSent("save")' = S /\ c \in A
    BY <1>r DEF AdminSent, A, S
  <2>3. Cardinality(A \ {c}) = a - 1 /\ a # 0
    BY <1>s, <2>2, FS_RemoveElement, FS_EmptySet DEF a
  <2>4. a > 0 /\ a - 1 <= a - 1 /\ s <= s
    BY <1>s, <2>3
  <2>. QED
    BY <1>c, <1>r, <2>1, <2>2, <2>3, <2>4 DEF s
\* Saves that are overtaken are no more than there were.
<1>o. ASSUME NEW t, NEW p, NEW cs \in SUBSET v10, v10' = Admin!Overtaken(t, p, cs)
      PROVE  /\ IsFiniteSet(v10') /\ v10' \subseteq AdjustsSent \cup SavesSent
             /\ Cardinality(AdminSent("adjust")') <= a
             /\ Cardinality(AdminSent("save")') <= Cardinality(S \cap cs)
  <2>. DEFINE f == [c \in cs |-> IF c.op = "save" /\ c.of = t /\ c.plan # p
                                THEN [c EXCEPT !.kept = FALSE] ELSE c]
              T == S \cap cs
              g == [c \in T |-> f[c]]
  <2>1. v10' = {f[c] : c \in cs} /\ IsFiniteSet(cs) /\ IsFiniteSet(T)
    BY <1>c, <1>o, <1>s, FS_Subset DEF Admin!Overtaken
  <2>2. \A c \in cs : c.op \in {"adjust", "save"}
    BY <1>c DEF AdjustsSent, SavesSent
  <2>3. \A c \in cs : f[c] \in AdjustsSent \cup SavesSent /\ f[c].op = c.op
                      /\ (c.op = "adjust" => f[c] = c)
    <3>. HIDE DEF f
    <3>. SUFFICES ASSUME NEW c \in cs
                  PROVE  f[c] \in AdjustsSent \cup SavesSent /\ f[c].op = c.op
                         /\ (c.op = "adjust" => f[c] = c)
      OBVIOUS
    <3>1. CASE c.op = "save" /\ c.of = t /\ c.plan # p
      <4>1. f[c] = [c EXCEPT !.kept = FALSE] /\ c \in SavesSent
        BY <1>c, <3>1 DEF AdjustsSent, f
      <4>2. [c EXCEPT !.kept = FALSE] \in SavesSent /\ [c EXCEPT !.kept = FALSE].op = c.op
        BY <4>1 DEF SavesSent
      <4>. QED
        BY <3>1, <4>1, <4>2
    <3>2. CASE ~(c.op = "save" /\ c.of = t /\ c.plan # p)
      BY <1>c, <3>2 DEF f
    <3>. QED
      BY <3>1, <3>2
  <2>4. f \in [cs -> {f[c] : c \in cs}]
    OBVIOUS
  <2>. HIDE DEF f
  <2>5. AdminSent("adjust")' \in SUBSET A
    BY <2>1, <2>3 DEF AdminSent, A
  <2>6. AdminSent("save")' = {g[c] : c \in T}
    <3>1. \A c : c \in T <=> c \in cs /\ c.op = "save"
      BY DEF AdminSent, S
    <3>2. AdminSent("save")' = {f[c] : c \in T}
      <4>. HIDE DEF T
      <4>. QED
        BY <2>1, <2>3, <3>1 DEF AdminSent
    <3>. QED
      BY <3>2
  <2>7. \A c \in T : g[c] \in {g[d] : d \in T}
    OBVIOUS
  <2>8. g \in Surjection(T, {g[c] : c \in T})
    BY <2>7 DEF Surjection
  <2>9. f \in Surjection(cs, {f[c] : c \in cs})
    BY <2>4 DEF Surjection
  <2>. HIDE DEF T, g
  <2>10. IsFiniteSet(v10')
    BY <2>1, <2>9, FS_Surjection
  <2>11. Cardinality(AdminSent("adjust")') <= a
    BY <1>s, <2>5, FS_Subset DEF a
  <2>12. Cardinality(AdminSent("save")') <= Cardinality(T)
    BY <2>1, <2>6, <2>8, FS_Surjection
  <2>13. v10' \subseteq AdjustsSent \cup SavesSent
    BY <2>1, <2>3
  <2>. QED
    BY <2>10, <2>11, <2>12, <2>13 DEF T
<1>1. ASSUME NEW r \in v9, Admin!setTenants(r)
      PROVE  AdminTypes'
  <2>1. v4' \in Admin!Rosters
    BY <1>1, <1>t DEF Admin!setTenants, Admin!adminRead, Admin!Rosters
  <2>. QED
    BY <1>1, <1>c, <1>t, <1>q, <1>k, <2>1 DEF Admin!setTenants
<1>2. ASSUME NEW r \in v9, Admin!setTenantCredits(r)
      PROVE  AdminTypes'
  <2>1. v6' \in Admin!Balances
    BY <1>2, <1>t DEF Admin!setTenantCredits, Admin!adminRead, Admin!Balances
  <2>. QED
    BY <1>2, <1>c, <1>t, <1>q, <1>k, <2>1 DEF Admin!setTenantCredits
<1>3. ASSUME NEW r \in v9, Admin!ReadFailed(r)
      PROVE  AdminTypes'
  <2>1. v16' \in 0..MaxLost
    BY <1>0, <1>3, <1>t DEF Admin!ReadFailed
  <2>2. ({v7, v17, v18, v19, v20} \subseteq BOOLEAN)'
    BY <1>3, <1>t DEF Admin!ReadFailed
  <2>. QED
    BY <1>3, <1>c, <1>t, <1>q, <1>k, <2>1, <2>2 DEF Admin!ReadFailed
<1>4. ASSUME NEW t \in Tenants, Admin!handleSelect(t)
      PROVE  AdminTypes'
  <2>1. v12 < MaxSelected /\ v12' = v12 + 1 /\ v11' = v11 + 1 /\ UNCHANGED <<v2, v10, v13, v14>>
    BY <1>4 DEF Admin!handleSelect
  <2>2. v12' \in 0..MaxSelected /\ v11' \in 1..Admin!MaxAsked
    BY <1>0, <1>a, <1>m, <1>s, <1>t, <2>1
  <2>3. AdminAsked'
    <3>1. \A u \in Tenants : v2[u] \in Nat
      BY <1>t
    <3>2. v2 \in [Tenants -> Nat]
      BY <1>t, <3>1
    <3>. QED
      <4>1. /\ Cardinality(AdminSent("adjust")') <= a
            /\ Cardinality(AdminSent("save")') <= s
        BY <1>s, <1>u, <2>1 DEF A, S, a, s
      <4>2. v11' + 2 * a + s <= 1 + v12' + 2 * v13' + v14'
        BY <1>a, <1>s, <1>t, <2>1
      <4>3. IsFiniteSet(v10') /\ v11' \in Nat /\ v12' \in Nat
        BY <1>c, <2>1, <2>2
      <4>. QED
        BY <1>a, <1>n, <1>s, <1>t, <2>1, <3>2, <4>1, <4>2, <4>3
  <2>4. \A r \in v9' : r.n \in 1..Admin!MaxAsked /\ r.of \in Tenants \cup {None}
    BY <1>4, <1>t, <2>2, <2>1 DEF Admin!handleSelect, Admin!Ask
  <2>5. v8' \in Plans
    BY <1>4, <1>t DEF Admin!handleSelect, Admin!FormOf, Admin!Roster, Admin!Rosters
  <2>6. ({v7, v17, v18, v19, v20} \subseteq BOOLEAN)'
    BY <1>4, <1>t DEF Admin!handleSelect
  <2>. QED
    BY <1>4, <1>c, <1>t, <1>q, <2>2, <2>3, <2>4, <2>5, <2>6 DEF Admin!handleSelect
<1>5. CASE Admin!handleAdjust
  <2>. DEFINE c == [op |-> "adjust", n |-> v13 + 1, of |-> v5]
  <2>1. v13 < MaxAdjusted /\ v13' = v13 + 1 /\ v10' = v10 \cup {c} /\ v5 \in Tenants
        /\ UNCHANGED <<v2, v11, v12, v14>>
    BY <1>5, <1>t DEF Admin!handleAdjust, Admin!AdjustForm
  <2>2. v13' \in 0..MaxAdjusted /\ c \in AdjustsSent
    BY <1>0, <1>t, <2>1 DEF AdjustsSent
  <2>. HIDE DEF c
  <2>3. /\ IsFiniteSet(v10') /\ v10' \subseteq AdjustsSent \cup SavesSent
        /\ Cardinality(AdminSent("adjust")') <= a + 1
        /\ Cardinality(AdminSent("save")') <= s
    BY <1>p, <2>1, <2>2
  <2>4. AdminAsked'
    <3>1. v2 \in [Tenants -> Nat] /\ \A t \in Tenants : v2[t] \in Nat
      BY <1>t
    <3>2. a + 1 \in Nat /\ (\A t \in Tenants : v2'[t] + (a + 1) <= v13')
          /\ v11' + 2 * (a + 1) + s <= 1 + v12' + 2 * v13' + v14'
      BY <1>a, <1>s, <1>t, <2>1, <3>1
    <3>. QED
      BY <1>n, <1>s, <1>t, <2>1, <2>2, <2>3, <3>1, <3>2
  <2>5. ({v7, v17, v18, v19, v20} \subseteq BOOLEAN)'
    BY <1>5, <1>t DEF Admin!handleAdjust
  <2>. QED
    BY <1>5, <1>c, <1>t, <1>q, <2>2, <2>3, <2>4, <2>5 DEF Admin!handleAdjust
<1>b. ASSUME NEW c \in v10, c.op = "adjust"
      PROVE  /\ [v2 EXCEPT ![c.of] = @ + 1] \in [Tenants -> 0..MaxAdjusted]
             /\ \A t \in Tenants : [v2 EXCEPT ![c.of] = @ + 1][t] + (a - 1) <= v13
             /\ a - 1 \in Nat
  <2>1. c.of \in Tenants
    BY <1>b, <1>c DEF AdjustsSent, SavesSent
  <2>2. a # 0
    <3>1. A # {}
      BY <1>b DEF A, AdminSent
    <3>. QED
      BY <1>s, <3>1, FS_EmptySet DEF a
  <2>3. \A t \in Tenants : v2[t] \in Nat /\ v2[t] + 1 <= v13 /\ v2[t] + 1 + (a - 1) <= v13
                           /\ v2[t] + (a - 1) <= v13
    BY <1>a, <1>s, <1>t, <2>2
  <2>4. \A t \in Tenants : v2[t] + 1 \in 0..MaxAdjusted
    BY <1>0, <1>t, <2>3
  <2>. QED
    BY <1>t, <1>s, <2>1, <2>2, <2>3, <2>4
<1>6. ASSUME NEW c \in v10, Admin!Adjusted(c)
      PROVE  AdminTypes'
  <2>1. /\ c.op = "adjust" /\ v2' = [v2 EXCEPT ![c.of] = @ + 1] /\ v10' = v10 \ {c}
        /\ v9' = v9 \cup {Admin!Ask(1, c.of), Admin!Ask(2, None)} /\ v11' = v11 + 2
        /\ UNCHANGED <<v1, v3, v4, v5, v6, v8, v12, v13, v14, v15, v16>>
    BY <1>6 DEF Admin!Adjusted
  <2>2. /\ IsFiniteSet(v10') /\ v10' \subseteq AdjustsSent \cup SavesSent
        /\ Cardinality(AdminSent("adjust")') <= a - 1
        /\ Cardinality(AdminSent("save")') <= s
    BY <1>r, <2>1
  <2>3. /\ v2' \in [Tenants -> 0..MaxAdjusted] /\ \A t \in Tenants : v2'[t] + (a - 1) <= v13
        /\ a - 1 \in Nat
    BY <1>b, <2>1
  <2>4. v11' + 2 * (a - 1) + s <= 1 + v12' + 2 * v13' + v14' /\ v11' \in 0..Admin!MaxAsked
    BY <1>0, <1>a, <1>m, <1>s, <1>t, <2>1, <2>3
  <2>5. AdminAsked'
    <3>1. v2' \in [Tenants -> Nat]
      BY <2>3
    <3>. QED
      BY <1>n, <1>s, <1>t, <2>1, <2>2, <2>3, <2>4, <3>1
  <2>6. \A r \in v9' : r.n \in 1..Admin!MaxAsked /\ r.of \in Tenants \cup {None}
    <3>1. c.of \in Tenants
      BY <1>c, <2>1 DEF AdjustsSent, SavesSent
    <3>2. v11 + 1 \in 1..Admin!MaxAsked /\ v11 + 2 \in 1..Admin!MaxAsked
      BY <1>0, <1>m, <1>t, <2>1, <2>4
    <3>. QED
      BY <1>t, <2>1, <3>1, <3>2 DEF Admin!Ask
  <2>7. ({v7, v17, v18, v19, v20} \subseteq BOOLEAN)'
    BY <1>6, <1>t DEF Admin!Adjusted
  <2>. QED
    BY <1>c, <1>t, <1>q, <2>1, <2>2, <2>3, <2>4, <2>5, <2>6, <2>7
<1>7. ASSUME NEW c \in v10, NEW b \in BOOLEAN, Admin!NotAdjusted(c, b)
      PROVE  AdminTypes'
  <2>1. /\ c.op = "adjust" /\ v10' = v10 \ {c} /\ v16 < MaxLost /\ v16' = v16 + 1
        /\ v2' = v2 \/ v2' = [v2 EXCEPT ![c.of] = @ + 1]
        /\ UNCHANGED <<v1, v3, v4, v5, v6, v8, v9, v11, v12, v13, v14, v15>>
    BY <1>7 DEF Admin!NotAdjusted
  <2>2. /\ IsFiniteSet(v10') /\ v10' \subseteq AdjustsSent \cup SavesSent
        /\ Cardinality(AdminSent("adjust")') <= a - 1
        /\ Cardinality(AdminSent("save")') <= s
    BY <1>r, <2>1
  <2>3. \A t \in Tenants : v2[t] \in Nat /\ v2[t] + (a - 1) <= v13
    BY <1>a, <1>s, <1>t
  <2>4. /\ v2' \in [Tenants -> 0..MaxAdjusted] /\ \A t \in Tenants : v2'[t] + (a - 1) <= v13
        /\ a - 1 \in Nat
    BY <1>b, <1>t, <2>1, <2>3
  <2>5. AdminAsked'
    <3>1. v2' \in [Tenants -> Nat]
      BY <2>4
    <3>2. v11' + 2 * (a - 1) + s <= 1 + v12' + 2 * v13' + v14'
      BY <1>a, <1>s, <1>t, <2>1
    <3>. QED
      BY <1>n, <1>s, <1>t, <2>1, <2>2, <2>4, <3>1, <3>2
  <2>6. ({v7, v17, v18, v19, v20} \subseteq BOOLEAN)'
    BY <1>7, <1>t DEF Admin!NotAdjusted
  <2>7. v16' \in 0..MaxLost
    BY <1>0, <1>t, <2>1
  <2>. QED
    BY <1>c, <1>t, <1>q, <2>1, <2>2, <2>4, <2>5, <2>6, <2>7
<1>8. ASSUME NEW p \in Plans, Admin!setEditPlan(p)
      PROVE  AdminTypes'
  <2>1. ({v7, v17, v18, v19, v20} \subseteq BOOLEAN)'
    BY <1>8, <1>t DEF Admin!setEditPlan
  <2>. QED
    BY <1>8, <1>c, <1>t, <1>q, <1>k, <2>1 DEF Admin!setEditPlan
<1>9. CASE Admin!handleUpdateTenant
  <2>. DEFINE c == [op |-> "save", n |-> MaxAdjusted + v14 + 1, of |-> v5, plan |-> v8,
                    kept |-> v18 /\ ~v17]
  <2>1. v14 < MaxSaved /\ v14' = v14 + 1 /\ v10' = v10 \cup {c} /\ v5 \in Tenants
        /\ UNCHANGED <<v2, v11, v12, v13>>
    BY <1>9, <1>t DEF Admin!handleUpdateTenant, Admin!EditForm
  <2>2. v14' \in 0..MaxSaved /\ MaxAdjusted + v14 + 1 \in Nat
    BY <1>0, <1>t, <2>1
  <2>3. v8 \in Plans /\ (v18 /\ ~v17) \in BOOLEAN
    BY <1>0, <1>c, <2>1
  <2>4. c \in SavesSent
    BY <2>1, <2>2, <2>3 DEF SavesSent
  <2>. HIDE DEF c
  <2>5. /\ IsFiniteSet(v10') /\ v10' \subseteq AdjustsSent \cup SavesSent
        /\ Cardinality(AdminSent("adjust")') <= a
        /\ Cardinality(AdminSent("save")') <= s + 1
    BY <1>p, <2>1, <2>4
  <2>6. AdminAsked'
    <3>1. v2 \in [Tenants -> Nat]
      BY <1>t
    <3>2. s + 1 \in Nat /\ v11' + 2 * a + (s + 1) <= 1 + v12' + 2 * v13' + v14'
          /\ \A t \in Tenants : v2'[t] + a <= v13'
      BY <1>a, <1>s, <1>t, <2>1
    <3>. QED
      BY <1>n, <1>s, <1>t, <2>1, <2>2, <2>5, <3>1, <3>2
  <2>7. ({v7, v17, v18, v19, v20} \subseteq BOOLEAN)'
    BY <1>9, <1>t DEF Admin!handleUpdateTenant
  <2>. QED
    BY <1>9, <1>c, <1>t, <1>q, <2>2, <2>5, <2>6, <2>7 DEF Admin!handleUpdateTenant
<1>10. ASSUME NEW c \in v10, Admin!update_tenant(c)
       PROVE  AdminTypes'
  <2>1. /\ c.op = "save" /\ v10' = Admin!Overtaken(c.of, c.plan, v10 \ {c})
        /\ v9' = v9 \cup {Admin!Ask(1, None)} /\ v11' = v11 + 1
        /\ v1' = [v1 EXCEPT ![c.of] = c.plan]
        /\ UNCHANGED <<v2, v3, v4, v5, v6, v8, v12, v13, v14, v15, v16>>
    BY <1>10 DEF Admin!update_tenant
  <2>2. c.of \in Tenants /\ c.plan \in Plans
    BY <1>c, <2>1 DEF AdjustsSent, SavesSent
  <2>3. S \cap (v10 \ {c}) = S \ {c} /\ c \in S
    BY <2>1 DEF S, AdminSent
  <2>4. Cardinality(S \ {c}) = s - 1 /\ s # 0
    BY <1>s, <2>3, FS_RemoveElement, FS_EmptySet DEF s
  <2>5. /\ IsFiniteSet(v10') /\ v10' \subseteq AdjustsSent \cup SavesSent
        /\ Cardinality(AdminSent("adjust")') <= a
        /\ Cardinality(AdminSent("save")') <= s - 1
    <3>1. v10 \ {c} \in SUBSET v10
      OBVIOUS
    <3>. QED
      BY <1>o, <2>1, <2>3, <2>4, <3>1
  <2>6. s - 1 \in Nat /\ v11' + 2 * a + (s - 1) <= 1 + v12' + 2 * v13' + v14'
        /\ v11' \in 1..Admin!MaxAsked
    <3>1. MaxSelected \in Nat /\ MaxAdjusted \in Nat /\ MaxSaved \in Nat
      BY <1>0
    <3>2. /\ v11 \in Nat /\ v12 \in Nat /\ v13 \in Nat /\ v14 \in Nat
          /\ v12 <= MaxSelected /\ v13 <= MaxAdjusted /\ v14 <= MaxSaved
      BY <1>0, <1>m, <1>t
    <3>3. /\ s - 1 \in Nat /\ (v11 + 1) + 2 * a + (s - 1) <= 1 + v12 + 2 * v13 + v14
          /\ 1 <= v11 + 1 /\ v11 + 1 <= Admin!MaxAsked
      <4>1. s \in Nat /\ a \in Nat /\ s # 0
        BY <1>s, <2>4
      <4>2. v11 + 2 * a + s <= 1 + v12 + 2 * v13 + v14
        BY <1>a
      <4>. QED
        BY <1>m, <3>1, <3>2, <4>1, <4>2
    <3>4. v11 + 1 \in 1..Admin!MaxAsked
      BY <1>0, <1>m, <3>2, <3>3
    <3>. QED
      BY <2>1, <3>3, <3>4, Zenon
  <2>7. AdminAsked'
    <3>1. v2 \in [Tenants -> Nat]
      BY <1>t
    <3>. QED
      BY <1>a, <1>n, <1>s, <1>t, <2>1, <2>5, <2>6, <3>1
  <2>8. \A r \in v9' : r.n \in 1..Admin!MaxAsked /\ r.of \in Tenants \cup {None}
    BY <1>t, <2>1, <2>6 DEF Admin!Ask
  <2>9. ({v7, v17, v18, v19, v20} \subseteq BOOLEAN)'
    BY <1>10, <1>t DEF Admin!update_tenant
  <2>10. v1' \in [Tenants -> Plans] /\ v11' \in 0..Admin!MaxAsked
    BY <1>0, <1>m, <1>t, <2>1, <2>2, <2>6
  <2>. QED
    BY <1>c, <1>t, <1>q, <2>1, <2>5, <2>7, <2>8, <2>9, <2>10
<1>11. ASSUME NEW t \in Tenants, NEW p \in Plans, Admin!PlanChanged(t, p)
       PROVE  AdminTypes'
  <2>1. /\ v10' = Admin!Overtaken(t, p, v10) /\ v15 < MaxChanged /\ v15' = v15 + 1
        /\ v1' = [v1 EXCEPT ![t] = p]
        /\ UNCHANGED <<v2, v3, v4, v5, v6, v7, v8, v9, v11, v12, v13, v14, v16>>
    BY <1>11 DEF Admin!PlanChanged
  <2>2. S \cap v10 = S
    BY DEF S, AdminSent
  <2>3. /\ IsFiniteSet(v10') /\ v10' \subseteq AdjustsSent \cup SavesSent
        /\ Cardinality(AdminSent("adjust")') <= a
        /\ Cardinality(AdminSent("save")') <= s
    BY <1>o, <2>1, <2>2 DEF s
  <2>4. AdminAsked'
    <3>1. v2 \in [Tenants -> Nat]
      BY <1>t
    <3>. QED
      BY <1>a, <1>n, <1>s, <1>t, <2>1, <2>3, <3>1
  <2>5. ({v7, v17, v18, v19, v20} \subseteq BOOLEAN)'
    BY <1>11, <1>t DEF Admin!PlanChanged
  <2>6. v15' \in 0..MaxChanged
    BY <1>0, <1>t, <2>1
  <2>. QED
    BY <1>c, <1>t, <1>q, <2>1, <2>3, <2>4, <2>5, <2>6
<1>. QED
  BY <1>1, <1>2, <1>3, <1>4, <1>5, <1>6, <1>7, <1>8, <1>9, <1>10, <1>11 DEF Admin!Next

-----------------------------------------------------------------------------
\* Every start of a handler gives at most one new account its id: the handlers have numbers
\* of their own, and those that may still create count.
WorkFields == {"n", "op", "of", "id", "name", "stage", "got", "alone"}
Writing(works, k) == {i \in 1..k : \E w \in works : w.n = i /\ w.stage \in {"delete", "create"}}
AccountsNumbered ==
  /\ \A w \in v7 :
       /\ DOMAIN w = WorkFields /\ w.n \in 0..v8
       /\ w.stage \in {"delete", "create"} => w.of \in Platforms /\ w.n \in 1..v8
       /\ w.op = "save" => w.name \in Names
       /\ w.stage = "create" => w.op = "save"
       /\ w.stage = "show" => w.got \in Accounts!Accounts
  /\ \A v, w \in v7 : v.n = w.n => v = w
  /\ v2 + Cardinality(Writing(v7, v8)) <= 2 + v8
AccountsTypes == Accounts!TypeOK /\ AccountsNumbered

\* Handlers that may still create are finite in number, as their numbers are.
LEMMA WritingFinite ==
  ASSUME NEW works, NEW k \in Nat
  PROVE  IsFiniteSet(Writing(works, k)) /\ Cardinality(Writing(works, k)) \in Nat
<1>1. IsFiniteSet(1..k)
  BY FS_Interval
<1>2. IsFiniteSet(Writing(works, k))
  BY <1>1, FS_Subset DEF Writing
<1>. QED
  BY <1>2, FS_CardinalityType

\* There are as many ids as platforms, which had theirs at the start, and works.
LEMMA AccountIds ==
  /\ Accounts!Ids = 1..(Cardinality(Platforms) + MaxWorks)
  /\ Accounts!Cardinality(Accounts!Ids) = Cardinality(Platforms) + MaxWorks
  /\ Cardinality(Platforms) \in Nat \ {0}
<1>1. \A S : Accounts!Cardinality(S) = Cardinality(S)
  BY DEF Accounts!Cardinality, Cardinality
<1>2. Cardinality(Platforms) \in Nat \ {0}
  BY BoundsAssumption, FS_CardinalityType, FS_EmptySet
<1>3. Accounts!Ids = 1..(Cardinality(Platforms) + MaxWorks)
  BY <1>1 DEF Accounts!Ids
<1>4. MaxWorks \in Nat
  BY BoundsAssumption
<1>5. \A k \in Nat : Cardinality(1..k) = k
  BY FS_Interval
<1>. QED
  BY <1>1, <1>2, <1>3, <1>4, <1>5

\* The social accounts start well typed,
LEMMA AccountsTypesInit ==
  ASSUME Accounts!Init
  PROVE  AccountsTypes
<1>0. /\ MaxWorks \in Nat /\ MaxTyped \in Nat /\ MaxLost \in Nat
  BY BoundsAssumption
<1>1. Accounts!Nothing \in Accounts!Accounts
      /\ Accounts!Nothing \in [Platforms -> Names \cup {None}]
  BY DEF Accounts!Nothing, Accounts!Accounts
<1>2. v1 \in Accounts!Accounts
  <2>1. 1 \in Accounts!Ids
    BY <1>0, AccountIds
  <2>2. \A n \in Names : [id |-> 1, name |-> n] \in [id : Accounts!Ids, name : Names]
    BY <2>1
  <2>3. \A p \in Platforms, n \in Names :
          [Accounts!Nothing EXCEPT ![p] = [id |-> 1, name |-> n]] \in Accounts!Accounts
    BY <1>1, <2>2 DEF Accounts!Accounts
  <2>. QED
    BY <1>1, <2>3 DEF Accounts!Init
<1>3. /\ \A w \in v7 : /\ DOMAIN w = WorkFields /\ w.n = 0
                       /\ w.stage = "load" /\ w.op = "load" /\ w.of = None
      /\ \A v, w \in v7 : v = w
  BY DEF Accounts!Init, WorkFields
<1>4. v2 = 2 /\ v8 = 0 /\ v9 = 0 /\ v10 = 0 /\ v3 = Accounts!Nothing /\ v4 = Accounts!Nothing
      /\ v5 = {} /\ v6 = {} /\ v11 = Accounts!Nothing /\ v12 = FALSE
  BY DEF Accounts!Init
<1>5. v2 \in 1..(Accounts!Cardinality(Accounts!Ids) + 1)
  BY <1>0, <1>4, AccountIds
<1>b. v12 \in BOOLEAN
  BY <1>4
<1>6. Accounts!TypeOK
  <2>1. v8 \in 0..MaxWorks /\ v9 \in 0..MaxTyped /\ v10 \in 0..MaxLost
    BY <1>0, <1>4
  <2>2. \A w \in v7 : w.stage \in Accounts!Stages /\ w.of \in Platforms \cup {None}
    BY <1>3 DEF Accounts!Stages
  <2>. QED
    BY <1>1, <1>2, <1>4, <1>5, <1>b, <2>1, <2>2 DEF Accounts!TypeOK
<1>7. Cardinality(Writing(v7, v8)) = 0
  <2>1. Writing(v7, v8) = {}
    BY <1>3 DEF Writing
  <2>. QED
    BY <2>1, FS_EmptySet
<1>8. AccountsNumbered
  <2>1. v2 + Cardinality(Writing(v7, v8)) <= 2 + v8
    BY <1>4, <1>7
  <2>2. \A w \in v7 : w.n \in 0..v8
    BY <1>3, <1>4
  <2>. QED
    BY <1>3, <2>1, <2>2 DEF AccountsNumbered
<1>. QED
  BY <1>6, <1>8 DEF AccountsTypes

\* and stay so: no id is used up but by a handler that creates.
LEMMA AccountsTypesStep ==
  ASSUME AccountsTypes, Accounts!Next
  PROVE  AccountsTypes'
<1>. USE DEF Accounts!serverVars, Accounts!pageVars
<1>. DEFINE Work(w) == /\ DOMAIN w = WorkFields
                       /\ w.stage \in {"delete", "create"} => w.of \in Platforms
                       /\ w.op = "save" => w.name \in Names
                       /\ w.stage = "create" => w.op = "save"
                       /\ w.stage = "show" => w.got \in Accounts!Accounts
                       /\ w.stage \in Accounts!Stages /\ w.of \in Platforms \cup {None}
            Top == Cardinality(Platforms) + MaxWorks
<1>0. /\ MaxWorks \in Nat /\ MaxTyped \in Nat /\ MaxLost \in Nat /\ Cardinality(Platforms) \in Nat \ {0}
      /\ Accounts!Ids = 1..Top /\ Accounts!Cardinality(Accounts!Ids) = Top
  BY BoundsAssumption, AccountIds
<1>t. /\ v1 \in Accounts!Accounts /\ v3 \in Accounts!Accounts /\ v2 \in 1..(Top + 1)
      /\ v4 \in [Platforms -> Names \cup {None}]
      /\ v5 \subseteq Platforms /\ v6 \subseteq Platforms
      /\ \A w \in v7 : Work(w)
      /\ v8 \in 0..MaxWorks /\ v9 \in 0..MaxTyped /\ v10 \in 0..MaxLost
      /\ v11 \in [Platforms -> Names \cup {None}] /\ v12 \in BOOLEAN
  BY <1>0 DEF AccountsTypes, Accounts!TypeOK, AccountsNumbered
<1>c. /\ \A w \in v7 : w.n \in 0..v8 /\ (w.stage \in {"delete", "create"} => w.n \in 1..v8)
      /\ \A v, w \in v7 : v.n = w.n => v = w
      /\ v2 + Cardinality(Writing(v7, v8)) <= 2 + v8
  BY DEF AccountsTypes, AccountsNumbered
<1>. HIDE DEF Top
<1>q. ASSUME v1' \in Accounts!Accounts, v3' \in Accounts!Accounts, v2' \in 1..(Top + 1),
             v4' \in [Platforms -> Names \cup {None}],
             v5' \subseteq Platforms, v6' \subseteq Platforms,
             \A w \in v7' : Work(w),
             v8' \in 0..MaxWorks, v9' \in 0..MaxTyped, v10' \in 0..MaxLost,
             v11' \in [Platforms -> Names \cup {None}], v12' \in BOOLEAN,
             \A w \in v7' : w.n \in 0..v8' /\ (w.stage \in {"delete", "create"} => w.n \in 1..v8'),
             \A v, w \in v7' : v.n = w.n => v = w,
             v2' + Cardinality(Writing(v7', v8')) <= 2 + v8'
      PROVE  AccountsTypes'
  BY <1>0, <1>q DEF AccountsTypes, Accounts!TypeOK, AccountsNumbered
<1>n. \A a \in [id : Accounts!Ids, name : Names] : a # None
  <2>1. Accounts!Ids \subseteq Nat
    BY <1>0
  <2>2. [id : Accounts!Ids, name : Names] \subseteq [id : Nat, name : Names]
    BY <2>1
  <2>. QED
    BY <2>2, ToldAssumption
\* Fewer that may write is no more of them.
<1>f. ASSUME NEW W, Writing(W, v8) \subseteq Writing(v7, v8)
      PROVE  /\ Cardinality(Writing(W, v8)) \in Nat /\ Cardinality(Writing(v7, v8)) \in Nat
             /\ Cardinality(Writing(W, v8)) <= Cardinality(Writing(v7, v8))
  <2>1. IsFiniteSet(Writing(v7, v8)) /\ Cardinality(Writing(v7, v8)) \in Nat
    BY <1>0, <1>t, WritingFinite
  <2>. QED
    BY <1>f, <2>1, FS_Subset, FS_CardinalityType
\* A handler that creates has a number: what it makes has an id,
<1>i. ASSUME NEW w \in v7, w.stage = "create"
      PROVE  v2 \in Accounts!Ids /\ v2 + 1 \in 1..(Top + 1)
  <2>1. w.n \in Writing(v7, v8)
    BY <1>c, <1>i DEF Writing
  <2>2. IsFiniteSet(Writing(v7, v8)) /\ Cardinality(Writing(v7, v8)) \in Nat
    BY <1>t, <1>0, WritingFinite
  <2>3. Cardinality(Writing(v7, v8)) # 0
    BY <2>1, <2>2, FS_EmptySet
  <2>. HIDE DEF Work
  <2>. QED
    BY <1>0, <1>c, <1>t, <2>2, <2>3 DEF Top
\* and once it has written it is not one of those that may.
<1>d. ASSUME NEW w \in v7, w.stage \in {"delete", "create"}, NEW W,
             \A x \in W : x.stage \in {"delete", "create"} => x \in v7 \ {w}
      PROVE  Cardinality(Writing(W, v8)) + 1 <= Cardinality(Writing(v7, v8))
             /\ Cardinality(Writing(W, v8)) \in Nat /\ Cardinality(Writing(v7, v8)) \in Nat
  <2>. HIDE DEF Work
  <2>1. w.n \in Writing(v7, v8) /\ Writing(W, v8) \subseteq Writing(v7, v8) \ {w.n}
    BY <1>c, <1>d DEF Writing
  <2>2. IsFiniteSet(Writing(v7, v8)) /\ Cardinality(Writing(v7, v8)) \in Nat
    BY <1>t, <1>0, WritingFinite
  <2>3. /\ IsFiniteSet(Writing(v7, v8) \ {w.n})
        /\ Cardinality(Writing(v7, v8) \ {w.n}) = Cardinality(Writing(v7, v8)) - 1
    BY <2>1, <2>2, FS_RemoveElement
  <2>4. Cardinality(Writing(W, v8)) <= Cardinality(Writing(v7, v8) \ {w.n})
        /\ Cardinality(Writing(W, v8)) \in Nat
    BY <2>1, <2>3, FS_Subset, FS_CardinalityType
  <2>. QED
    BY <2>2, <2>3, <2>4
\* A handler that goes on without writing, or ends.
<1>g. ASSUME NEW w \in v7, NEW d, Work(d), d.n = w.n,
             d.stage \in {"delete", "create"} => w.stage \in {"delete", "create"},
             v7' = (v7 \ {w}) \cup {d}
      PROVE  /\ \A x \in v7' : Work(x)
             /\ \A x \in v7' : x.n \in 0..v8 /\ (x.stage \in {"delete", "create"} => x.n \in 1..v8)
             /\ \A v, x \in v7' : v.n = x.n => v = x
             /\ Writing(v7', v8) \subseteq Writing(v7, v8)
  <2>. HIDE DEF Work
  <2>1. \A x \in v7' : Work(x)
    BY <1>g, <1>t
  <2>2. \A x \in v7' : x.n \in 0..v8 /\ (x.stage \in {"delete", "create"} => x.n \in 1..v8)
    BY <1>c, <1>g
  <2>3. \A v, x \in v7' : v.n = x.n => v = x
    BY <1>c, <1>g
  <2>4. Writing(v7', v8) \subseteq Writing(v7, v8)
    BY <1>g DEF Writing
  <2>. QED
    BY <2>1, <2>2, <2>3, <2>4
<1>e. ASSUME NEW w \in v7, Accounts!Finish(w)
      PROVE  /\ v7' = v7 \ {w} /\ v5' \subseteq Platforms /\ v6' \subseteq Platforms
             /\ \A x \in v7' : Work(x)
             /\ \A x \in v7' : x.n \in 0..v8 /\ (x.stage \in {"delete", "create"} => x.n \in 1..v8)
             /\ \A v, x \in v7' : v.n = x.n => v = x
             /\ Writing(v7', v8) \subseteq Writing(v7, v8)
  <2>. HIDE DEF Work
  <2>1. v7' = v7 \ {w} /\ v5' \subseteq Platforms /\ v6' \subseteq Platforms
    BY <1>e, <1>t DEF Accounts!Finish
  <2>2. Writing(v7', v8) \subseteq Writing(v7, v8)
    BY <2>1 DEF Writing
  <2>. QED
    BY <1>c, <1>t, <2>1, <2>2
\* What is written is an account.
<1>u. ASSUME NEW w \in v7, w.stage = "create"
      PROVE  [v1 EXCEPT ![w.of] = Accounts!Upsert(@, w.name)] \in Accounts!Accounts
  <2>1. w.of \in Platforms /\ w.name \in Names /\ v2 \in Accounts!Ids
    BY <1>i, <1>t, <1>u
  <2>. HIDE DEF Work
  <2>2. v1[w.of] \in [id : Accounts!Ids, name : Names] \cup {None}
    BY <1>t, <2>1 DEF Accounts!Accounts
  <2>3. Accounts!Upsert(v1[w.of], w.name) \in [id : Accounts!Ids, name : Names]
    BY <2>1, <2>2 DEF Accounts!Upsert
  <2>. QED
    BY <1>t, <2>3 DEF Accounts!Accounts
<1>v. ASSUME NEW w \in v7, w.stage = "delete"
      PROVE  [v1 EXCEPT ![w.of] = None] \in Accounts!Accounts
  BY <1>t DEF Accounts!Accounts
<1>1. ASSUME NEW p \in Platforms, NEW n \in Names \cup {None}, Accounts!setInput(p, n)
      PROVE  AccountsTypes'
  <2>1. v4' \in [Platforms -> Names \cup {None}] /\ v9' \in 0..MaxTyped
    BY <1>0, <1>1, <1>t DEF Accounts!setInput
  <2>2. UNCHANGED <<v1, v2, v3, v5, v6, v7, v8, v10, v11, v12>>
    BY <1>1 DEF Accounts!setInput
  <2>. HIDE DEF Work
  <2>. QED
    BY <1>c, <1>q, <1>t, <2>1, <2>2
<1>2. ASSUME NEW p \in Platforms, NEW op, NEW name, NEW stage \in {"delete", "create"},
             op = "save" => name \in Names, stage = "create" => op = "save",
             Accounts!start(p, op, name, stage), v5' \subseteq Platforms, v6' \subseteq Platforms
      PROVE  AccountsTypes'
  <2>. DEFINE new == [n |-> v8 + 1, op |-> op, of |-> p, id |-> Accounts!IdOf(p), name |-> name,
                      stage |-> stage, got |-> None, alone |-> Accounts!OfPlatform(p) = {}]
              not(w) == IF w.of = p THEN [w EXCEPT !.alone = FALSE] ELSE w
  <2>1. /\ v7' = {not(w) : w \in v7} \cup {new} /\ v8 < MaxWorks /\ v8' = v8 + 1
        /\ v11' = [v11 EXCEPT ![p] = None] /\ v12' \in BOOLEAN
        /\ UNCHANGED <<v1, v2, v3, v4, v9, v10>>
    BY <1>2, <1>t DEF Accounts!start
  <2>2. \A w \in v7 : Work(not(w)) /\ not(w).n = w.n /\ not(w).stage = w.stage
    BY <1>t DEF WorkFields
  <2>3. Work(new) /\ new.n = v8 + 1 /\ new.stage = stage
    BY <1>2 DEF WorkFields, Accounts!Stages
  <2>4. v8' \in 0..MaxWorks /\ v8 \in Nat /\ v8 + 1 \notin 1..v8 /\ v8 + 1 \notin 0..v8
        /\ 1..(v8 + 1) = (1..v8) \cup {v8 + 1} /\ 0..v8 \subseteq 0..(v8 + 1) /\ v8 + 1 \in 0..(v8 + 1)
    BY <1>0, <1>t, <2>1
  <2>5. v11' \in [Platforms -> Names \cup {None}]
    BY <1>t, <2>1
  <2>. HIDE DEF Work, new, not
  <2>6. \A x \in v7' : Work(x)
    BY <2>1, <2>2, <2>3
  <2>7. \A x \in v7' : x.n \in 0..v8' /\ (x.stage \in {"delete", "create"} => x.n \in 1..v8')
    BY <1>c, <2>1, <2>2, <2>3, <2>4
  <2>8. \A v, x \in v7' : v.n = x.n => v = x
    <3>1. TAKE v, x \in v7'
    <3>2. HAVE v.n = x.n
    <3>3. CASE v = new
      <4>1. x = new
        BY <1>c, <2>1, <2>2, <2>3, <2>4, <3>2, <3>3
      <4>. QED
        BY <3>3, <4>1
    <3>4. CASE x = new
      <4>1. v = new
        BY <1>c, <2>1, <2>2, <2>3, <2>4, <3>2, <3>4
      <4>. QED
        BY <3>4, <4>1
    <3>5. CASE v # new /\ x # new
      <4>1. PICK a \in v7 : v = not(a)
        BY <2>1, <3>5
      <4>2. PICK b \in v7 : x = not(b)
        BY <2>1, <3>5
      <4>. QED
        BY <1>c, <2>2, <3>2, <4>1, <4>2
    <3>. QED
      BY <3>3, <3>4, <3>5
  <2>9. Writing(v7', v8') = Writing(v7, v8) \cup {v8 + 1} /\ v8 + 1 \notin Writing(v7, v8)
    BY <1>c, <2>1, <2>2, <2>3, <2>4 DEF Writing
  <2>10. /\ IsFiniteSet(Writing(v7, v8)) /\ Cardinality(Writing(v7, v8)) \in Nat
         /\ Cardinality(Writing(v7', v8')) = Cardinality(Writing(v7, v8)) + 1
    BY <2>4, <2>9, WritingFinite, FS_AddElement
  <2>11. v2' + Cardinality(Writing(v7', v8')) <= 2 + v8'
    BY <1>0, <1>c, <1>t, <2>1, <2>4, <2>10 DEF Top
  <2>. QED
    BY <1>2, <1>q, <1>t, <2>1, <2>4, <2>5, <2>6, <2>7, <2>8, <2>11
<1>3. ASSUME NEW p \in Platforms, Accounts!handleSave(p)
      PROVE  AccountsTypes'
  <2>. DEFINE stage == IF Accounts!getAccount(p) = None THEN "create" ELSE "delete"
  <2>1. /\ Accounts!start(p, "save", v4[p], stage) /\ v4[p] \in Names
        /\ v5' \subseteq Platforms /\ v6' \subseteq Platforms
    BY <1>3, <1>t DEF Accounts!handleSave
  <2>2. stage \in {"delete", "create"}
    OBVIOUS
  <2>. HIDE DEF stage, Work
  <2>. QED
    BY <1>2, <2>1, <2>2
<1>4. ASSUME NEW p \in Platforms, Accounts!handleRemove(p)
      PROVE  AccountsTypes'
  <2>1. /\ Accounts!start(p, "remove", None, "delete")
        /\ v5' \subseteq Platforms /\ v6' \subseteq Platforms
    BY <1>4, <1>t DEF Accounts!handleRemove
  <2>. HIDE DEF Work
  <2>. QED
    BY <1>2, <2>1
<1>5. ASSUME NEW w \in v7, Accounts!delete_social_account(w)
      PROVE  AccountsTypes'
  <2>. DEFINE d == [w EXCEPT !.stage = IF w.op = "save" THEN "create" ELSE "load"]
  <2>1. /\ w.stage = "delete" /\ v7' = (v7 \ {w}) \cup {d} /\ v1' = [v1 EXCEPT ![w.of] = None]
        /\ v4' = (IF w.op = "save" THEN v4 ELSE [v4 EXCEPT ![w.of] = None])
        /\ UNCHANGED <<v2, v3, v5, v6, v8, v9, v10, v11, v12>>
    BY <1>5 DEF Accounts!delete_social_account, Accounts!Step
  <2>2. Work(d) /\ d.n = w.n
    BY <1>t, <2>1 DEF WorkFields, Accounts!Stages
  <2>3. v1' \in Accounts!Accounts /\ v4' \in [Platforms -> Names \cup {None}]
    BY <1>t, <1>v, <2>1
  <2>. HIDE DEF Work, d
  <2>4. /\ \A x \in v7' : Work(x)
        /\ \A x \in v7' : x.n \in 0..v8 /\ (x.stage \in {"delete", "create"} => x.n \in 1..v8)
        /\ \A v, x \in v7' : v.n = x.n => v = x
        /\ Writing(v7', v8) \subseteq Writing(v7, v8)
    BY <1>g, <2>1, <2>2
  <2>5. v2 + Cardinality(Writing(v7', v8)) <= 2 + v8
    BY <1>0, <1>c, <1>f, <1>t, <2>4 DEF Top
  <2>. QED
    BY <1>q, <1>t, <2>1, <2>3, <2>4, <2>5
<1>6. ASSUME NEW w \in v7, Accounts!NotFound(w)
      PROVE  AccountsTypes'
  <2>. HIDE DEF Work
  <2>1. /\ Accounts!Finish(w) /\ v12' = TRUE /\ UNCHANGED <<v1, v2, v3, v4, v8, v9, v10, v11>>
    BY <1>6 DEF Accounts!NotFound
  <2>2. v2 + Cardinality(Writing(v7', v8)) <= 2 + v8
    BY <1>0, <1>c, <1>e, <1>f, <1>t, <2>1 DEF Top
  <2>. QED
    BY <1>e, <1>q, <1>t, <2>1, <2>2
<1>7. ASSUME NEW w \in v7, Accounts!create_or_update(w)
      PROVE  AccountsTypes'
  <2>. DEFINE d == [w EXCEPT !.stage = "load"]
  <2>1. /\ w.stage = "create" /\ v7' = (v7 \ {w}) \cup {d}
        /\ v1' = [v1 EXCEPT ![w.of] = Accounts!Upsert(@, w.name)]
        /\ v2' \in {v2, v2 + 1} /\ UNCHANGED <<v3, v4, v5, v6, v8, v9, v10, v12>>
    BY <1>7 DEF Accounts!create_or_update, Accounts!Step
  <2>2. Work(d) /\ d.n = w.n /\ d.stage = "load"
    BY <1>t, <2>1 DEF WorkFields, Accounts!Stages
  <2>3. v11' \in [Platforms -> Names \cup {None}]
    <3>1. w.of \in Platforms /\ w.name \in Names
      BY <1>t, <2>1
    <3>. QED
      BY <1>7, <1>t, <3>1 DEF Accounts!create_or_update
  <2>. HIDE DEF Work, d
  <2>4. /\ \A x \in v7' : Work(x)
        /\ \A x \in v7' : x.n \in 0..v8 /\ (x.stage \in {"delete", "create"} => x.n \in 1..v8)
        /\ \A v, x \in v7' : v.n = x.n => v = x
    BY <1>g, <2>1, <2>2
  <2>5. \A x \in v7' : x.stage \in {"delete", "create"} => x \in v7 \ {w}
    BY <2>1, <2>2
  <2>6. v2' + Cardinality(Writing(v7', v8)) <= 2 + v8
    BY <1>0, <1>c, <1>d, <1>t, <2>1, <2>5 DEF Top
  <2>7. v1' \in Accounts!Accounts /\ v2' \in 1..(Top + 1)
    BY <1>i, <1>t, <1>u, <2>1
  <2>. QED
    BY <1>q, <1>t, <2>1, <2>3, <2>4, <2>6, <2>7
<1>8. ASSUME NEW w \in v7, NEW b \in BOOLEAN, Accounts!CallFailed(w, b)
      PROVE  AccountsTypes'
  <2>. HIDE DEF Work
  <2>1. /\ Accounts!Finish(w) /\ v12' = TRUE /\ UNCHANGED <<v3, v4, v8, v9, v11>>
        /\ v10 < MaxLost /\ v10' = v10 + 1 /\ w.stage \in {"delete", "create"}
        /\ \/ v1' = v1
           \/ w.stage = "delete" /\ v1' = [v1 EXCEPT ![w.of] = None]
           \/ w.stage = "create" /\ v1' = [v1 EXCEPT ![w.of] = Accounts!Upsert(@, w.name)]
        /\ v2' = v2 \/ (w.stage = "create" /\ v2' = v2 + 1)
    BY <1>8 DEF Accounts!CallFailed
  <2>2. v1' \in Accounts!Accounts
    BY <1>t, <1>u, <1>v, <2>1
  <2>3. v2' \in 1..(Top + 1) /\ v2' \in {v2, v2 + 1}
    BY <1>i, <1>t, <2>1
  <2>4. \A x \in v7' : x.stage \in {"delete", "create"} => x \in v7 \ {w}
    BY <1>e, <2>1
  <2>5. v2' + Cardinality(Writing(v7', v8)) <= 2 + v8
    BY <1>0, <1>c, <1>d, <1>t, <2>1, <2>3, <2>4 DEF Top
  <2>6. v10' \in 0..MaxLost
    BY <1>0, <1>t, <2>1
  <2>. QED
    BY <1>e, <1>q, <1>t, <2>1, <2>2, <2>3, <2>5, <2>6
<1>9. ASSUME NEW w \in v7, Accounts!list_social_accounts(w)
      PROVE  AccountsTypes'
  <2>. DEFINE d == [w EXCEPT !.stage = "show", !.got = v1]
  <2>1. /\ w.stage = "load" /\ v7' = (v7 \ {w}) \cup {d}
        /\ UNCHANGED <<v1, v2, v3, v4, v5, v6, v8, v9, v10, v11, v12>>
    BY <1>9 DEF Accounts!list_social_accounts
  <2>2. Work(d) /\ d.n = w.n /\ d.stage = "show"
    BY <1>t, <2>1 DEF WorkFields, Accounts!Stages
  <2>. HIDE DEF Work, d
  <2>3. /\ \A x \in v7' : Work(x)
        /\ \A x \in v7' : x.n \in 0..v8 /\ (x.stage \in {"delete", "create"} => x.n \in 1..v8)
        /\ \A v, x \in v7' : v.n = x.n => v = x
        /\ Writing(v7', v8) \subseteq Writing(v7, v8)
    BY <1>g, <2>1, <2>2
  <2>4. v2 + Cardinality(Writing(v7', v8)) <= 2 + v8
    BY <1>0, <1>c, <1>f, <1>t, <2>3 DEF Top
  <2>. QED
    BY <1>q, <1>t, <2>1, <2>3, <2>4
<1>10. ASSUME NEW w \in v7, Accounts!Loaded(w)
       PROVE  AccountsTypes'
  <2>1. /\ w.stage = "show" /\ v3' = w.got /\ v4' = Accounts!Prefill(w.got) /\ Accounts!Finish(w)
        /\ UNCHANGED <<v1, v2, v8, v9, v10, v11, v12>>
    BY <1>10 DEF Accounts!Loaded
  <2>2. w.got \in Accounts!Accounts
    BY <1>t, <2>1
  <2>. HIDE DEF Work
  <2>3. v3' \in Accounts!Accounts /\ v4' \in [Platforms -> Names \cup {None}]
    BY <1>n, <2>1, <2>2 DEF Accounts!Accounts, Accounts!Prefill
  <2>4. v2 + Cardinality(Writing(v7', v8)) <= 2 + v8
    BY <1>0, <1>c, <1>e, <1>f, <1>t, <2>1 DEF Top
  <2>. QED
    BY <1>e, <1>q, <1>t, <2>1, <2>3, <2>4
<1>11. ASSUME NEW w \in v7, Accounts!NotLoaded(w)
       PROVE  AccountsTypes'
  <2>. HIDE DEF Work
  <2>1. /\ Accounts!Finish(w) /\ v12' = TRUE /\ UNCHANGED <<v1, v2, v3, v4, v8, v9, v11>>
        /\ v10' \in 0..MaxLost
    BY <1>0, <1>11, <1>t DEF Accounts!NotLoaded
  <2>2. v2 + Cardinality(Writing(v7', v8)) <= 2 + v8
    BY <1>0, <1>c, <1>e, <1>f, <1>t, <2>1 DEF Top
  <2>. QED
    BY <1>e, <1>q, <1>t, <2>1, <2>2
<1>. QED
  BY <1>1, <1>3, <1>4, <1>5, <1>6, <1>7, <1>8, <1>9, <1>10, <1>11 DEF Accounts!Next

-----------------------------------------------------------------------------
\* An event is announced once, so that there are as many at most as there are events.
EventsOnce ==
  /\ v1 \in Seq(Events) /\ \A i, j \in 1..Len(v1) : v1[i] = v1[j] => i = j
  /\ v4 \in Seq(Events) /\ Len(v4) <= Cardinality(Events)
SocialTypes == Social!TypeOK /\ EventsOnce

\* A sequence of events without repetition is no longer than there are events,
LEMMA NoRepetition ==
  ASSUME NEW s \in Seq(Events), \A i, j \in 1..Len(s) : s[i] = s[j] => i = j
  PROVE  Len(s) <= Cardinality(Events)
<1>1. Len(s) \in Nat /\ s \in [1..Len(s) -> Events]
  BY LenProperties
<1>2. IsFiniteSet(1..Len(s)) /\ Cardinality(1..Len(s)) = Len(s)
  BY <1>1, FS_Interval
<1>3. s \in Injection(1..Len(s), Events)
  BY <1>1 DEF Injection, IsInjective
<1>4. IsFiniteSet(Events)
  BY BoundsAssumption
<1>. QED
  BY <1>2, <1>3, <1>4, FS_Injection

\* and one that is no longer is a list of them.
LEMMA EventLists ==
  ASSUME NEW s \in Seq(Events), Len(s) <= Cardinality(Events)
  PROVE  s \in UNION {[1..n -> Events] : n \in 0..Social!Cardinality(Events)}
<1>1. Len(s) \in Nat /\ s \in [1..Len(s) -> Events]
  BY LenProperties
<1>2. Social!Cardinality(Events) = Cardinality(Events) /\ Cardinality(Events) \in Nat
  BY BoundsAssumption, FS_CardinalityType DEF Social!Cardinality, Cardinality
<1>. QED
  BY <1>1, <1>2

\* The page of social posts starts well typed,
LEMMA SocialTypesInit ==
  ASSUME Social!Init
  PROVE  SocialTypes
<1>0. /\ MaxTicks \in Nat /\ MaxMounts \in Nat \ {0} /\ MaxLost \in Nat
      /\ Cardinality(Events) \in Nat
  BY BoundsAssumption, FS_CardinalityType
<1>1. v1 = <<>> /\ v4 = <<>> /\ v3 \in BOOLEAN
  BY DEF Social!Init
<1>2. v1 \in Seq(Events) /\ Len(v1) = 0
  BY <1>1, EmptySeq
<1>3. {v1, v4} \subseteq UNION {[1..n -> Events] : n \in 0..Social!Cardinality(Events)}
  <2>1. Len(v1) <= Cardinality(Events)
    BY <1>0, <1>2
  <2>2. v1 \in UNION {[1..n -> Events] : n \in 0..Social!Cardinality(Events)}
    BY <1>2, <2>1, EventLists
  <2>. QED
    BY <1>1, <2>2
<1>4. Social!TypeOK
  BY <1>0, <1>1, <1>3 DEF Social!TypeOK, Social!Init
<1>. QED
  BY <1>0, <1>1, <1>2, <1>4 DEF SocialTypes, EventsOnce

\* and stays so: an event is announced at most once.
LEMMA SocialTypesStep ==
  ASSUME SocialTypes, Social!Next
  PROVE  SocialTypes'
<1>. USE DEF Social!serverVars, Social!pageVars
<1>0. /\ MaxTicks \in Nat /\ MaxMounts \in Nat \ {0} /\ MaxLost \in Nat
      /\ Cardinality(Events) \in Nat
  BY BoundsAssumption, FS_CardinalityType
<1>t. /\ v1 \in Seq(Events) /\ \A i, j \in 1..Len(v1) : v1[i] = v1[j] => i = j
      /\ v4 \in Seq(Events) /\ Len(v4) <= Cardinality(Events)
      /\ v2 \in [Events -> SUBSET Platforms] /\ v6 \subseteq Platforms
      /\ v5 \in Events \cup {None} /\ v3 \in BOOLEAN /\ v7 \subseteq Social!Calls
      /\ v8 \in 1..MaxMounts /\ v9 \in 0..MaxTicks /\ v10 \in 0..MaxLost
      /\ v11 \subseteq Events \X Platforms /\ v12 \subseteq Events
  BY DEF SocialTypes, Social!TypeOK, EventsOnce
<1>q. ASSUME v1' \in Seq(Events), \A i, j \in 1..Len(v1') : v1'[i] = v1'[j] => i = j,
             v4' \in Seq(Events), Len(v4') <= Cardinality(Events),
             v2' \in [Events -> SUBSET Platforms], v6' \subseteq Platforms,
             v5' \in Events \cup {None}, v3' \in BOOLEAN, v7' \subseteq Social!Calls,
             v8' \in 1..MaxMounts, v9' \in 0..MaxTicks, v10' \in 0..MaxLost,
             v11' \subseteq Events \X Platforms, v12' \subseteq Events
      PROVE  SocialTypes'
  <2>1. Len(v1') <= Cardinality(Events)
    BY <1>q, NoRepetition
  <2>2. ({v1, v4} \subseteq UNION {[1..n -> Events] : n \in 0..Social!Cardinality(Events)})'
    BY <1>q, <2>1, EventLists
  <2>. QED
    BY <1>q, <2>2 DEF SocialTypes, Social!TypeOK, EventsOnce
<1>1. ASSUME NEW e \in Events, Social!create_listing_event(e)
      PROVE  SocialTypes'
  <2>1. /\ v1' = <<e>> \o v1 /\ \A i \in 1..Len(v1) : v1[i] # e
        /\ UNCHANGED <<v2, v3, v4, v5, v6, v7, v8, v9, v10, v11, v12>>
    BY <1>1 DEF Social!create_listing_event, Social!Known
  <2>2. <<e>> \in Seq(Events) /\ Len(<<e>>) = 1 /\ <<e>>[1] = e /\ Len(v1) \in Nat
    BY <1>t
  <2>3. /\ v1' \in Seq(Events) /\ Len(v1') = 1 + Len(v1)
        /\ \A i \in 1..(1 + Len(v1)) : v1'[i] = IF i <= 1 THEN <<e>>[i] ELSE v1[i - 1]
    <3>. DEFINE one == <<e>>
    <3>1. one \in Seq(Events) /\ Len(one) = 1
      BY <2>2
    <3>. HIDE DEF one
    <3>2. /\ one \o v1 \in Seq(Events) /\ Len(one \o v1) = Len(one) + Len(v1)
          /\ \A i \in 1..(Len(one) + Len(v1)) :
               (one \o v1)[i] = IF i <= Len(one) THEN one[i] ELSE v1[i - Len(one)]
      <4>1. v1 \in Seq(Events) /\ one \in Seq(Events)
        BY <1>t, <3>1
      <4>. QED
        BY <4>1, ConcatProperties
    <3>3. v1' = one \o v1 /\ \A i : one[i] = <<e>>[i]
      BY <2>1 DEF one
    <3>4. Len(one) = 1 /\ v1' \in Seq(Events) /\ Len(v1') = 1 + Len(v1)
      BY <3>1, <3>2, <3>3
    <3>5. \A i \in 1..(1 + Len(v1)) : v1'[i] = IF i <= 1 THEN one[i] ELSE v1[i - 1]
      BY <3>1, <3>2, <3>3
    <3>. QED
      BY <3>3, <3>4, <3>5
  <2>4. /\ v1'[1] = e
        /\ \A i \in 2..(1 + Len(v1)) : v1'[i] = v1[i - 1] /\ i - 1 \in 1..Len(v1)
    BY <2>2, <2>3
  <2>5. \A i, j \in 1..Len(v1') : v1'[i] = v1'[j] => i = j
    <3>1. TAKE i, j \in 1..Len(v1')
    <3>2. \A k \in 1..Len(v1') : k = 1 \/ k \in 2..(1 + Len(v1))
      BY <2>2, <2>3
    <3>3. CASE i = 1 \/ j = 1
      BY <2>1, <2>4, <3>2, <3>3
    <3>4. CASE i # 1 /\ j # 1
      <4>1. v1'[i] = v1'[j] => i - 1 = j - 1
        BY <1>t, <2>4, <3>2, <3>4
      <4>. QED
        BY <2>2, <2>3, <4>1
    <3>. QED
      BY <3>3, <3>4
  <2>. QED
    BY <1>q, <1>t, <2>1, <2>3, <2>5
<1>2. CASE Social!Load
  <2>1. v3' \in BOOLEAN /\ v4' = v1 /\ v5' = Social!Newest(v1)
        /\ UNCHANGED <<v1, v2, v6, v7, v8, v9, v10, v11, v12>>
    BY <1>2 DEF Social!Load
  <2>2. v5' \in Events \cup {None}
    BY <1>t, <2>1, HeadTailProperties DEF Social!Newest
  <2>. QED
    BY <1>q, <1>t, <2>1, <2>2, NoRepetition
<1>3. CASE Social!NotLoaded
  <2>1. v10' \in 0..MaxLost
    BY <1>0, <1>3, <1>t DEF Social!NotLoaded
  <2>2. v3' \in BOOLEAN
    BY <1>3 DEF Social!NotLoaded
  <2>. QED
    BY <1>3, <1>q, <1>t, <2>1, <2>2 DEF Social!NotLoaded
<1>4. CASE Social!Mount
  <2>1. v8' \in 1..MaxMounts
    BY <1>0, <1>4, <1>t DEF Social!Mount
  <2>2. v3' \in BOOLEAN /\ v4' \in Seq(Events) /\ Len(v4') = 0
    BY <1>4, EmptySeq DEF Social!Mount
  <2>. QED
    BY <1>0, <1>4, <1>q, <1>t, <2>1, <2>2 DEF Social!Mount
<1>5. ASSUME NEW i \in 1..Len(v4), Social!setActiveEvent(i)
      PROVE  SocialTypes'
  <2>1. v5' \in Events
    BY <1>5, <1>t, ElementOfSeq DEF Social!setActiveEvent
  <2>. QED
    BY <1>5, <1>q, <1>t, <2>1 DEF Social!setActiveEvent
<1>6. ASSUME NEW p \in Platforms, Social!handleMarkPosted(p)
      PROVE  SocialTypes'
  <2>1. v6' \subseteq Platforms /\ UNCHANGED <<v1, v2, v3, v4, v5, v8, v10>>
    BY <1>6, <1>t DEF Social!handleMarkPosted
  <2>2. CASE v5 = None
    BY <1>6, <1>q, <1>t, <2>1, <2>2 DEF Social!handleMarkPosted
  <2>3. CASE v5 # None
    <3>. DEFINE c == [n |-> v9 + 1, of |-> v5, on |-> p, got |-> None]
    <3>1. /\ v9 < MaxTicks /\ v9' = v9 + 1 /\ v7' = v7 \cup {c}
          /\ v11' = v11 \cup {<<v5, p>>} /\ v12' = v12 \cup {d.of : d \in {x \in v7 : x.of = v5}}
      BY <1>6, <2>3 DEF Social!handleMarkPosted, Social!Sending, Social!EventOfTick
    <3>2. v9' \in 0..MaxTicks /\ v9 + 1 \in 1..MaxTicks
      BY <1>0, <1>t, <3>1
    <3>4. c \in Social!Calls
      BY <1>t, <2>3, <3>2 DEF Social!Calls
    <3>. HIDE DEF c
    <3>3. v12' \subseteq Events
      BY <1>t, <3>1 DEF Social!Calls
    <3>. QED
      BY <1>q, <1>t, <2>1, <2>3, <3>1, <3>2, <3>3, <3>4
  <2>. QED
    BY <2>2, <2>3
<1>7. ASSUME NEW p \in Platforms, Social!untick(p)
      PROVE  SocialTypes'
  BY <1>7, <1>q, <1>t DEF Social!untick
<1>8. ASSUME NEW c \in v7, Social!ReadPosted(c)
      PROVE  SocialTypes'
  <2>. DEFINE d == [c EXCEPT !.got = v2[c.of]]
  <2>1. v7' = (v7 \ {c}) \cup {d}
    BY <1>8 DEF Social!ReadPosted
  <2>2. d \in Social!Calls
    BY <1>t DEF Social!Calls
  <2>. HIDE DEF d
  <2>. QED
    BY <1>8, <1>q, <1>t, <2>1, <2>2 DEF Social!ReadPosted
<1>9. ASSUME NEW c \in v7, Social!mark_posted(c)
      PROVE  SocialTypes'
  <2>1. c.of \in Events /\ c.on \in Platforms /\ c.got \in SUBSET Platforms
    BY <1>9, <1>t DEF Social!mark_posted, Social!Calls
  <2>2. v2' \in [Events -> SUBSET Platforms]
    BY <1>9, <1>t, <2>1 DEF Social!mark_posted, Social!Appended
  <2>. QED
    BY <1>9, <1>q, <1>t, <2>2 DEF Social!mark_posted
<1>10. ASSUME NEW c \in v7, Social!NotMarked(c)
       PROVE  SocialTypes'
  <2>1. v10' \in 0..MaxLost
    BY <1>0, <1>10, <1>t DEF Social!NotMarked
  <2>2. v12' \subseteq Events
    BY <1>10, <1>t DEF Social!NotMarked, Social!Calls
  <2>. QED
    BY <1>10, <1>q, <1>t, <2>1, <2>2 DEF Social!NotMarked
<1>. QED
  BY <1>1, <1>2, <1>3, <1>4, <1>5, <1>6, <1>7, <1>8, <1>9, <1>10 DEF Social!Next

-----------------------------------------------------------------------------
\* The sum over a set of add-ons is a number: there are three of them, so that taking one
\* after the other away ends at none.
LEMMA PriceOfAddons ==
  ASSUME NEW S \in SUBSET Addons!Addons
  PROVE  Addons!MapThenSumSet(LAMBDA id : Addons!INDIVIDUAL_ADDONS[id], S) \in Nat
<1>. DEFINE pick(s) == CHOOSE x \in s : TRUE
            rest(s) == s \ {pick(s)}
            price(x) == Addons!INDIVIDUAL_ADDONS[x]
            sum1(s) == IF s = {} THEN 0 ELSE price(pick(s))
            sum2(s) == IF s = {} THEN 0 ELSE price(pick(s)) + sum1(rest(s))
            sum3(s) == IF s = {} THEN 0 ELSE price(pick(s)) + sum2(rest(s))
            next(g, s) == IF s = {} THEN 0 ELSE price(pick(s)) + g[rest(s)]
            f == [s \in SUBSET S |-> sum3(s)]
            iter == CHOOSE g : g = [s \in SUBSET S |-> next(g, s)]
<1>1. Addons!MapThenSumSet(LAMBDA id : Addons!INDIVIDUAL_ADDONS[id], S) = iter[S]
  BY DEF Addons!MapThenSumSet, Addons!MapThenFoldSet
<1>2. \A s \in SUBSET S : s # {} => pick(s) \in s /\ rest(s) \in SUBSET S
  OBVIOUS
<1>3. \A x \in S : price(x) \in Nat
  BY DEF Addons!Addons, Addons!INDIVIDUAL_ADDONS
<1>4. \A s \in SUBSET S : \A x \in s : \A y \in s \ {x} : \A z \in (s \ {x}) \ {y} :
        ((s \ {x}) \ {y}) \ {z} = {}
  <2>1. S \subseteq {"ai_video_tour", "virtual_staging", "floorplan_3d"}
    BY DEF Addons!Addons, Addons!INDIVIDUAL_ADDONS
  <2>. QED
    BY <2>1
<1>. HIDE DEF pick, price
<1>5. \A s \in SUBSET S : s # {} /\ rest(s) # {} /\ rest(rest(s)) # {} => rest(rest(rest(s))) = {}
  <2>1. TAKE s \in SUBSET S
  <2>2. HAVE s # {} /\ rest(s) # {} /\ rest(rest(s)) # {}
  <2>3. pick(s) \in s /\ pick(rest(s)) \in rest(s) /\ pick(rest(rest(s))) \in rest(rest(s))
    BY <1>2, <2>2
  <2>. QED
    BY <1>4, <2>3
<1>. HIDE DEF rest
<1>6. \A s \in SUBSET S : sum1(s) \in Nat /\ sum2(s) \in Nat /\ sum3(s) \in Nat
  BY <1>2, <1>3
<1>7. \A s \in SUBSET S : s # {} => sum2(rest(s)) = sum3(rest(s))
  <2>1. TAKE s \in SUBSET S
  <2>2. HAVE s # {}
  <2>. DEFINE t == rest(s)
              u == rest(t)
  <2>3. t \in SUBSET S /\ (t # {} => u \in SUBSET S) /\ (t # {} /\ u # {} => rest(u) \in SUBSET S)
    BY <1>2, <2>2
  <2>4. t # {} /\ u # {} => rest(u) = {}
    BY <1>5, <2>2
  <2>. HIDE DEF t, u
  <2>5. t # {} => sum1(u) = sum2(u)
    BY <1>2, <1>3, <2>3, <2>4
  <2>6. sum2(t) = sum3(t)
    BY <2>5 DEF u
  <2>. QED
    BY <2>6 DEF t
<1>8. f = [s \in SUBSET S |-> next(f, s)]
  <2>1. ASSUME NEW s \in SUBSET S
        PROVE  sum3(s) = next(f, s)
    <3>1. s # {} => f[rest(s)] = sum3(rest(s))
      BY <1>2
    <3>. HIDE DEF f, sum2
    <3>. QED
      BY <1>7, <3>1
  <2>. HIDE DEF sum3, next
  <2>2. f = [s \in SUBSET S |-> sum3(s)]
    BY DEF f
  <2>. HIDE DEF f
  <2>. QED
    BY <2>1, <2>2
<1>9. iter = [s \in SUBSET S |-> next(iter, s)]
  <2>. HIDE DEF f, next
  <2>. QED
    BY <1>8
<1>. HIDE DEF iter, f, sum1, sum2, sum3
<1>10. \A s \in SUBSET S : iter[s] = IF s = {} THEN 0 ELSE price(pick(s)) + iter[rest(s)]
  BY <1>9
<1>11. iter[S] \in Nat
  <2>0. iter[{}] = 0
    BY <1>10
  <2>. DEFINE t == rest(S)
              u == rest(t)
  <2>1. S # {} => t \in SUBSET S
    BY <1>2
  <2>2. S # {} /\ t # {} => u \in SUBSET S
    BY <1>2, <2>1
  <2>3. S # {} /\ t # {} /\ u # {} => rest(u) = {}
    BY <1>5
  <2>. HIDE DEF t, u
  <2>4. S # {} /\ t # {} => iter[u] \in Nat
    BY <1>2, <1>3, <1>10, <2>0, <2>2, <2>3
  <2>5. S # {} => iter[t] \in Nat
    BY <1>2, <1>3, <1>10, <2>0, <2>1, <2>4 DEF u
  <2>. QED
    BY <1>2, <1>3, <1>10, <2>0, <2>5 DEF t
<1>. QED
  BY <1>1, <1>11

\* What the wizard shows, and what the server charges, is a number.
LEMMA Prices ==
  /\ \A b \in BOOLEAN, S \in SUBSET Addons!Addons : Addons!addonCost(b, S) \in Nat
  /\ \A b \in BOOLEAN, S \in SUBSET Addons!Addons, t \in Nat :
       v8 \in Nat => Addons!total_cost([bundle |-> b, addons |-> S, total |-> t]) \in Nat
<1>1. ASSUME NEW b \in BOOLEAN, NEW S \in SUBSET Addons!Addons
      PROVE  Addons!addonCost(b, S) \in Nat
  BY PriceOfAddons DEF Addons!addonCost, Addons!BUNDLE_CREDITS
<1>2. ASSUME NEW b \in BOOLEAN, NEW S \in SUBSET Addons!Addons, NEW t \in Nat, v8 \in Nat
      PROVE  Addons!total_cost([bundle |-> b, addons |-> S, total |-> t]) \in Nat
  <2>. DEFINE n == IF b THEN Addons!BUNDLE_PRICING
                   ELSE Addons!MapThenSumSet(LAMBDA id : Addons!SERVICE_CREDIT_COSTS[id], S)
  <2>1. Addons!MapThenSumSet(LAMBDA id : Addons!SERVICE_CREDIT_COSTS[id], S) \in Nat
    BY PriceOfAddons DEF Addons!SERVICE_CREDIT_COSTS, Addons!INDIVIDUAL_ADDONS
  <2>2. n \in Nat
    BY <2>1 DEF Addons!BUNDLE_PRICING
  <2>3. Addons!total_cost([bundle |-> b, addons |-> S, total |-> t]) = v8 + n
    BY DEF Addons!total_cost
  <2>. HIDE DEF n
  <2>. QED
    BY <1>2, <2>2, <2>3
<1>. QED
  BY <1>1, <1>2

\* The wizard's step on add-ons starts well typed,
LEMMA AddonsTypesInit ==
  ASSUME Addons!Init
  PROVE  Addons!TypeOK
<1>1. StartBalances \subseteq Nat
  BY BoundsAssumption
<1>2. v4 \in BOOLEAN
  BY DEF Addons!Init
<1>. QED
  BY <1>1, <1>2 DEF Addons!Init, Addons!TypeOK, Addons!fetchPlanData

\* and stays so: a balance is only ever charged what it holds.
LEMMA AddonsTypesStep ==
  ASSUME Addons!TypeOK, Addons!Next
  PROVE  Addons!TypeOK'
<1>. USE DEF Addons!selection
<1>. DEFINE Offers == [bundle : BOOLEAN, addons : SUBSET Addons!Addons, total : Nat]
<1>t. /\ v1 \in 3..5 /\ v2 \subseteq StagedPhotos /\ v3 \subseteq Addons!Addons
      /\ v4 \in BOOLEAN /\ v5 \in Nat \cup {None} /\ v6 \in {None} \cup Offers
      /\ v7 \in Nat /\ v8 \in BaseCosts /\ v9 \in Nat \cup {None} /\ v10 \in Nat \cup {None}
  BY DEF Addons!TypeOK
<1>0. v8 \in Nat
  BY <1>t, BoundsAssumption
<1>q. ASSUME v1' \in 3..5, v2' \subseteq StagedPhotos, v3' \subseteq Addons!Addons,
             v4' \in BOOLEAN, v5' \in Nat \cup {None}, v6' \in {None} \cup Offers,
             v7' \in Nat, v8' \in BaseCosts, v9' \in Nat \cup {None}, v10' \in Nat \cup {None}
      PROVE  Addons!TypeOK'
  BY <1>q DEF Addons!TypeOK
<1>v. "virtual_staging" \in Addons!Addons
  BY DEF Addons!Addons, Addons!INDIVIDUAL_ADDONS
\* A choice, on one of the steps.
<1>c. ASSUME Addons!Keep, v1' \in 3..5, v2' \subseteq StagedPhotos, v3' \subseteq Addons!Addons,
             v4' \in BOOLEAN
      PROVE  Addons!TypeOK'
  <2>1. UNCHANGED <<v5, v6, v7, v8, v9, v10>>
    BY <1>c DEF Addons!Keep
  <2>. HIDE DEF Offers
  <2>. QED
    BY <1>c, <1>q, <1>t, <2>1
<1>1. ASSUME NEW p \in StagedPhotos, Addons!toggleAsset(p)
      PROVE  Addons!TypeOK'
  <2>1. Addons!Keep /\ v1' = v1 /\ v4' = v4 /\ v2' \subseteq StagedPhotos
    BY <1>1, <1>t DEF Addons!toggleAsset
  <2>2. v3' \subseteq Addons!Addons
    BY <1>1, <1>t, <1>v DEF Addons!toggleAsset
  <2>. QED
    BY <1>c, <1>t, <2>1, <2>2
<1>2. CASE Addons!handleSkip
  <2>1. Addons!Keep /\ v1' = 4 /\ v4' = v4 /\ v2' = {} /\ v3' \subseteq Addons!Addons
    BY <1>2, <1>t DEF Addons!handleSkip
  <2>. QED
    BY <1>c, <1>t, <2>1
<1>3. CASE Addons!toggleBundle
  <2>1. Addons!Keep /\ v1' = v1 /\ v4' = ~v4 /\ v2' = v2 /\ v3' \subseteq Addons!Addons
    BY <1>3, <1>t DEF Addons!toggleBundle
  <2>2. v4' \in BOOLEAN
    BY <2>1
  <2>. QED
    BY <1>c, <1>t, <2>1, <2>2
<1>4. ASSUME NEW id \in Addons!Addons, Addons!toggleAddon(id)
      PROVE  Addons!TypeOK'
  <2>1. Addons!Keep /\ v1' = v1 /\ v4' = (v3' = Addons!Addons) /\ v2' = v2
        /\ v3' \subseteq Addons!Addons
    BY <1>4, <1>t DEF Addons!toggleAddon
  <2>2. v4' \in BOOLEAN
    BY <2>1
  <2>. QED
    BY <1>c, <1>t, <2>1, <2>2
<1>5. CASE Addons!goNext
  <2>1. Addons!Keep /\ v1' \in 3..5 /\ UNCHANGED <<v2, v3, v4>>
    BY <1>5 DEF Addons!goNext, Addons!Choosing
  <2>. QED
    BY <1>c, <1>t, <2>1
<1>6. CASE Addons!goBack
  <2>1. Addons!Keep /\ v1' \in 3..5 /\ UNCHANGED <<v2, v3, v4>>
    BY <1>6 DEF Addons!goBack, Addons!Choosing
  <2>. QED
    BY <1>c, <1>t, <2>1
<1>7. CASE Addons!handleConfirm
  <2>1. v6' = [bundle |-> v4, addons |-> v3, total |-> Addons!totalCredits]
        /\ UNCHANGED <<v1, v2, v3, v4, v5, v7, v8, v9, v10>>
    BY <1>7 DEF Addons!handleConfirm
  <2>2. Addons!addonCost(v4, v3) \in Nat
    BY <1>t, Prices
  <2>3. Addons!totalCredits \in Nat
    BY <2>2 DEF Addons!totalCredits, Addons!BASE_CREDITS
  <2>4. v6' \in Offers
    BY <1>t, <2>1, <2>3
  <2>. HIDE DEF Offers
  <2>. QED
    BY <1>q, <1>t, <2>1, <2>4
<1>8. CASE Addons!Started
  <2>1. /\ v6 # None /\ v7 >= Addons!total_cost(v6) /\ v7' = v7 - Addons!total_cost(v6)
        /\ v9' = Addons!total_cost(v6) /\ v10' = v6.total /\ v6' = None
        /\ v5' = Addons!fetchPlanData(v7') /\ UNCHANGED <<v1, v2, v3, v4, v8>>
    BY <1>8 DEF Addons!Started
  <2>2. v6 \in Offers /\ v6.total \in Nat /\ v6.bundle \in BOOLEAN /\ v6.addons \subseteq Addons!Addons
        /\ v6 = [bundle |-> v6.bundle, addons |-> v6.addons, total |-> v6.total]
    BY <1>t, <2>1
  <2>3. Addons!total_cost([bundle |-> v6.bundle, addons |-> v6.addons, total |-> v6.total]) \in Nat
    BY <1>0, <2>2, Prices
  <2>4. Addons!total_cost(v6) \in Nat
    BY <2>2, <2>3
  <2>5. v7' \in Nat /\ v9' \in Nat /\ v10' \in Nat
    BY <1>t, <2>1, <2>2, <2>4
  <2>6. v5' \in Nat \cup {None}
    BY <2>1, <2>5 DEF Addons!fetchPlanData
  <2>. HIDE DEF Offers
  <2>. QED
    BY <1>q, <1>t, <2>1, <2>5, <2>6
<1>9. CASE Addons!Refused
  <2>1. v6' = None /\ UNCHANGED <<v1, v2, v3, v4, v5, v7, v8, v9, v10>>
    BY <1>9 DEF Addons!Refused
  <2>. HIDE DEF Offers
  <2>. QED
    BY <1>q, <1>t, <2>1
<1>10. CASE Addons!Spend
  <2>1. v7' = 0 /\ UNCHANGED <<v1, v2, v3, v4, v5, v6, v8, v9, v10>>
    BY <1>10 DEF Addons!Spend
  <2>. HIDE DEF Offers
  <2>. QED
    BY <1>q, <1>t, <2>1
<1>. QED
  BY <1>1, <1>2, <1>3, <1>4, <1>5, <1>6, <1>7, <1>8, <1>9, <1>10 DEF Addons!Next
=============================================================================
