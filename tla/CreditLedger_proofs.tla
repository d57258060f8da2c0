------------------------- MODULE CreditLedger_proofs -------------------------
(***************************************************************************)
(* What CreditLedger keeps for every price list, tenant and number of      *)
(* requests.  The books change only by Debit, Credit and Expired; lemmas   *)
(* say what each of them preserves, and the theorems go through the        *)
(* handlers that call them.                                                *)
(***************************************************************************)
EXTENDS CreditLedger, TLAPS, SequenceTheorems

-----------------------------------------------------------------------------
(* Types.  Administrators may leave any balance: pools are only integers.  *)

Account == [balance : Int, granted : Int, purchased : Int, cap : Nat]
Types == {"plan_grant", "expiry", "purchase", "listing_debit", "addon_debit", "refund",
          "admin_adjustment"}

\* A listing's charge is negative and a refund is positive.
Sign(type, amount) ==
    (type = "listing_debit" => amount < 0) /\ (type = "refund" => amount > 0)
Transactions == {e \in EntryType : Sign(e.type, e.amount)}
Books == [account : Account, ledger : Seq(Transactions)]

Typed ==
    /\ tenant \in TenantType
    /\ books \in Books
    /\ state \in [Listings -> ListingStates]
    /\ purchases \in [Listings -> [Addons -> PurchaseType]]
    /\ request \in [Requests -> RequestType]

LEMMA EntryTyped ==
    ASSUME NEW type \in Types, NEW ref \in Refs, NEW amount \in Int, NEW after \in Int,
           Sign(type, amount)
    PROVE  Entry(type, ref, amount, after) \in Transactions
<1>1. Entry(type, ref, amount, after) \in EntryType
  BY DEF Entry, EntryType, Types
<1>2. QED
  BY <1>1 DEF Transactions, Entry

LEMMA RefsTyped ==
    /\ NoRef \in Refs
    /\ \A l \in Listings : ListingRef(l) \in Refs /\ BundleRef(l) \in Refs
    /\ \A l \in Listings, a \in Addons : AddonRef(l, a) \in Refs /\ RemovalRef(l, a) \in Refs
    /\ \A e \in TopUps : EventRef(e) \in Refs
BY DEF Refs

LEMMA RecordOfBooks ==
    ASSUME NEW acc \in Account, NEW led \in Seq(Transactions)
    PROVE  /\ [account |-> acc, ledger |-> led] \in Books
           /\ [account |-> acc, ledger |-> led].account = acc
           /\ [account |-> acc, ledger |-> led].ledger = led
BY DEF Books

\* The ledger after one more transaction.
LEMMA PostTyped ==
    ASSUME NEW b \in Books, NEW type \in Types, NEW ref \in Refs,
           NEW amount \in Int, NEW after \in Int, Sign(type, amount)
    PROVE  Append(b.ledger, Entry(type, ref, amount, after)) \in Seq(Transactions)
<1>1. b.ledger \in Seq(Transactions)
  BY DEF Books
<1>2. QED
  BY <1>1, EntryTyped, AppendProperties

LEMMA MovedFacts ==
    ASSUME NEW a \in Account, NEW x \in Int, NEW g \in Int, NEW p \in Int
    PROVE  /\ Moved(a, x, g, p) \in Account
           /\ Moved(a, x, g, p).balance = a.balance + x
           /\ Moved(a, x, g, p).granted = a.granted + g
           /\ Moved(a, x, g, p).purchased = a.purchased + p
<1> DEFINE m == Moved(a, x, g, p)
<1>1. a.balance \in Int /\ a.granted \in Int /\ a.purchased \in Int /\ a.cap \in Nat
  BY DEF Account
<1>2. m = [a EXCEPT !.balance = a.balance + x, !.granted = a.granted + g,
                    !.purchased = a.purchased + p]
  BY DEF Moved, Account
<1>3. m = [balance |-> a.balance + x, granted |-> a.granted + g,
           purchased |-> a.purchased + p, cap |-> a.cap]
  BY <1>2 DEF Account
<1>4. QED
  BY <1>1, <1>3 DEF Account

\* What a transaction does to the account and the ledger.
LEMMA PostedFacts ==
    ASSUME NEW b \in Books, NEW type \in Types, NEW ref \in Refs,
           NEW x \in Int, NEW g \in Int, NEW p \in Int, Sign(type, x)
    PROVE  /\ Posted(b, type, ref, x, g, p) \in Books
           /\ Posted(b, type, ref, x, g, p).account.balance = b.account.balance + x
           /\ Posted(b, type, ref, x, g, p).account.granted = b.account.granted + g
           /\ Posted(b, type, ref, x, g, p).account.purchased = b.account.purchased + p
           /\ Posted(b, type, ref, x, g, p).ledger
                = Append(b.ledger, Entry(type, ref, x, b.account.balance + x))
<1> DEFINE acc == Moved(b.account, x, g, p)
           led == Append(b.ledger, Entry(type, ref, x, b.account.balance + x))
<1>1. b.account \in Account
  BY DEF Books
<1>2. /\ acc \in Account /\ acc.balance = b.account.balance + x
      /\ acc.granted = b.account.granted + g /\ acc.purchased = b.account.purchased + p
  BY <1>1, MovedFacts
<1>3. led \in Seq(Transactions)
  BY <1>1, PostTyped DEF Account
<1>4. Posted(b, type, ref, x, g, p) = [account |-> acc, ledger |-> led]
  BY DEF Posted
<1> HIDE DEF acc, led
<1>5. /\ Posted(b, type, ref, x, g, p) \in Books
      /\ Posted(b, type, ref, x, g, p).account = acc
      /\ Posted(b, type, ref, x, g, p).ledger = led
  BY <1>2, <1>3, <1>4, RecordOfBooks
<1>6. QED
  BY <1>2, <1>5 DEF led

\* A debit takes what it can from the granted pool and the rest from the other.
LEMMA DebitFacts ==
    ASSUME NEW b \in Books, NEW type \in {"listing_debit", "addon_debit"}, NEW ref \in Refs,
           NEW n \in Nat \ {0}
    PROVE  LET d == Debit(b, type, ref, n) IN
           /\ d \in Books
           /\ d.account.balance = b.account.balance - n
           /\ d.account.granted + d.account.purchased
                = b.account.granted + b.account.purchased - n
           /\ d.account.granted = b.account.granted - Lesser(n, b.account.granted)
           /\ d.ledger = Append(b.ledger, Entry(type, ref, -n, b.account.balance - n))
<1> DEFINE g == FromGranted(n, b.account)
<1>1. b.account.balance \in Int /\ b.account.granted \in Int /\ b.account.purchased \in Int
  BY DEF Books, Account
<1>2. g = Lesser(n, b.account.granted) /\ g \in Int
  BY <1>1 DEF FromGranted, Lesser
<1>3. Debit(b, type, ref, n) = Posted(b, type, ref, -n, -g, g - n)
  BY DEF Debit
<1> HIDE DEF g
<1>4. type \in Types /\ -n \in Int /\ -g \in Int /\ g - n \in Int /\ Sign(type, -n)
  BY <1>2 DEF Types, Sign
<1> DEFINE d == Posted(b, type, ref, -n, -g, g - n)
<1>5. /\ d \in Books /\ d.account.balance = b.account.balance + (-n)
      /\ d.account.granted = b.account.granted + (-g)
      /\ d.account.purchased = b.account.purchased + (g - n)
      /\ d.ledger = Append(b.ledger, Entry(type, ref, -n, b.account.balance + (-n)))
  BY <1>4, PostedFacts
<1>6. b.account.balance + (-n) = b.account.balance - n
  BY <1>1
<1>7. Debit(b, type, ref, n) = d
  BY <1>3
<1> HIDE DEF d
<1>8. d.account.balance = b.account.balance - n
  BY <1>1, <1>5
<1>9. d.account.granted = b.account.granted - g
  BY <1>1, <1>2, <1>5
<1>10. d.account.granted + d.account.purchased = b.account.granted + b.account.purchased - n
  <2>1. \A i, j, k, m \in Int : (i + (-k)) + (j + (k - m)) = (i + j) - m
    OBVIOUS
  <2>2. n \in Int
    OBVIOUS
  <2>3. d.account.granted + d.account.purchased
          = (b.account.granted + (-g)) + (b.account.purchased + (g - n))
    BY <1>5
  <2>4. QED
    BY <1>1, <1>2, <2>1, <2>2, <2>3
<1>11. d \in Books /\ d.ledger = Append(b.ledger, Entry(type, ref, -n, b.account.balance - n))
  BY <1>5, <1>6
<1>12. QED
  BY <1>2, <1>7, <1>8, <1>9, <1>10, <1>11

\* A credit adds to one of the pools.
LEMMA CreditFacts ==
    ASSUME NEW b \in Books, NEW type \in {"plan_grant", "purchase", "refund"}, NEW ref \in Refs,
           NEW n \in Nat \ {0}
    PROVE  LET c == Credit(b, type, ref, n) IN
           /\ c \in Books
           /\ c.account.balance = b.account.balance + n
           /\ c.account.granted + c.account.purchased
                = b.account.granted + b.account.purchased + n
           /\ c.account.granted >= b.account.granted
           /\ c.account.purchased >= b.account.purchased
           /\ c.ledger = Append(b.ledger, Entry(type, ref, n, b.account.balance + n))
<1>1. b.account.balance \in Int /\ b.account.granted \in Int /\ b.account.purchased \in Int
  BY DEF Books, Account
<1>2. type \in Types /\ Sign(type, n)
  BY DEF Types, Sign
<1>3. CASE type \in {"purchase", "refund"}
  <2> DEFINE c == Posted(b, type, ref, n, 0, n)
  <2>1. Credit(b, type, ref, n) = c
    BY <1>3 DEF Credit
  <2>2. /\ c \in Books /\ c.account.balance = b.account.balance + n
        /\ c.account.granted = b.account.granted + 0
        /\ c.account.purchased = b.account.purchased + n
        /\ c.ledger = Append(b.ledger, Entry(type, ref, n, b.account.balance + n))
    BY <1>2, PostedFacts
  <2> HIDE DEF c
  <2>3. QED
    BY <1>1, <2>1, <2>2
<1>4. CASE type \notin {"purchase", "refund"}
  <2> DEFINE c == Posted(b, type, ref, n, n, 0)
  <2>1. Credit(b, type, ref, n) = c
    BY <1>4 DEF Credit
  <2>2. /\ c \in Books /\ c.account.balance = b.account.balance + n
        /\ c.account.granted = b.account.granted + n
        /\ c.account.purchased = b.account.purchased + 0
        /\ c.ledger = Append(b.ledger, Entry(type, ref, n, b.account.balance + n))
    BY <1>2, PostedFacts
  <2> HIDE DEF c
  <2>3. QED
    BY <1>1, <2>1, <2>2
<1>5. QED
  BY <1>3, <1>4

\* A renewal is a credit, after an expiry of granted credits or of nothing.
LEMMA RenewedFacts ==
    ASSUME NEW b \in Books, NEW n
    PROVE  \E kept \in Books :
             /\ Renewed(b, n) = Credit(kept, "plan_grant", NoRef, n)
             /\ \/ kept = b
                \/ \E x \in Nat \ {0} :
                     /\ kept = Posted(b, "expiry", NoRef, -x, -x, 0)
                     /\ x <= b.account.granted \/ b.account.granted < 0
<1> DEFINE x == b.account.granted - Lesser(b.account.granted, b.account.cap)
<1>1. b.account.granted \in Int /\ b.account.cap \in Nat
  BY DEF Books, Account
<1>2. x \in Int /\ (x <= b.account.granted \/ b.account.granted < 0)
  BY <1>1 DEF Lesser
<1>3. Renewed(b, n) = Credit(IF x > 0 THEN Expired(b, x) ELSE b, "plan_grant", NoRef, n)
  BY DEF Renewed
<1> HIDE DEF x
<1>4. CASE x > 0
  <2>1. Expired(b, x) = Posted(b, "expiry", NoRef, -x, -x, 0)
    BY DEF Expired
  <2>2. Posted(b, "expiry", NoRef, -x, -x, 0) \in Books
    BY <1>2, RefsTyped, PostedFacts DEF Types, Sign
  <2>3. QED
    BY <1>2, <1>3, <1>4, <2>1, <2>2
<1>5. CASE ~(x > 0)
  BY <1>3, <1>5
<1>6. QED
  BY <1>4, <1>5

-----------------------------------------------------------------------------
(* What a step does to the books: nothing, or one of these.                *)

Prepaid(l) == Debit(books, "listing_debit", ListingRef(l), tenant.cost)
ListingPaid(l) == Balance >= tenant.cost /\ books' = Prepaid(l)
ListingAndAddonPaid(l, ref, n) ==
    /\ Balance >= tenant.cost /\ Prepaid(l).account.balance >= n
    /\ books' = Debit(Prepaid(l), "addon_debit", ref, n)
AddonPaid(ref, n) == Balance >= n /\ books' = Debit(books, "addon_debit", ref, n)
ListingRefunded(l) ==
    /\ ~Credited("refund", ListingRef(l))
    /\ \E i \in Entries("listing_debit", ListingRef(l)) :
         books' = Credit(books, "refund", ListingRef(l), -Ledger[i].amount)
AddonRefunded(l, a) == books' = Credit(books, "refund", RemovalRef(l, a), AddonCost[a])
ToppedUp(e) == books' = Credit(books, "purchase", EventRef(e), TopUpSize)
PeriodRenewed == tenant.included > 0 /\ books' = Renewed(books, tenant.included)
Adjusted == \E p \in Requests : AdjustEnd(p)

\* The references of add-on debits.
AddonRefs == {BundleRef(l) : l \in Listings} \cup {AddonRef(l, a) : l \in Listings, a \in Addons}

BooksStep ==
    \/ UNCHANGED books
    \/ \E l \in Listings : ListingPaid(l)
    \/ \E l \in Listings, ref \in AddonRefs, n \in Nat \ {0} : ListingAndAddonPaid(l, ref, n)
    \/ \E ref \in AddonRefs, n \in Nat \ {0} : AddonPaid(ref, n)
    \/ \E l \in Listings : ListingRefunded(l)
    \/ \E l \in Listings, a \in Addons : AddonRefunded(l, a)
    \/ \E e \in TopUps : ToppedUp(e)
    \/ PeriodRenewed

LEMMA RequestFields ==
    ASSUME NEW p \in Requests, request \in [Requests -> RequestType]
    PROVE  /\ request[p].op \in {"addon", "remove"} =>
                 request[p].l \in Listings /\ request[p].a \in Addons
           /\ request[p].op = "bundle" => request[p].l \in Listings
           /\ request[p].op = "topup" => request[p].e \in TopUps
           /\ request[p].op = "adjust" =>
                 request[p].amount \in Adjustments /\ request[p].read \in Int
<1>1. request[p] \in RequestType
  OBVIOUS
<1>2. QED
  BY <1>1 DEF RequestType, Idle

LEMMA RefundStep ==
    ASSUME NEW l \in Listings, RefundListing(l)
    PROVE  ListingRefunded(l) \/ UNCHANGED books
BY DEF RefundListing, ListingRefunded

LEMMA StartStep ==
    ASSUME NEW l \in Listings, StartPipeline(l)
    PROVE  BooksStep
<1>1. BundleRef(l) \in AddonRefs /\ \A a \in Addons : AddonRef(l, a) \in AddonRefs
  BY DEF AddonRefs
<1>2. BundleCost \in Nat \ {0} /\ \A a \in Addons : AddonCost[a] \in Nat \ {0}
  BY Prices
<1>3. Balance >= tenant.cost
  BY DEF StartPipeline
<1>4. \/ books' = Prepaid(l)
      \/ \E a \in Addons : ListingAndAddonPaid(l, AddonRef(l, a), AddonCost[a])
      \/ ListingAndAddonPaid(l, BundleRef(l), BundleCost)
  BY <1>3 DEF StartPipeline, Prepaid, ListingAndAddonPaid
<1>5. QED
  BY <1>1, <1>2, <1>3, <1>4 DEF BooksStep, ListingPaid

LEMMA EndStep ==
    ASSUME Typed, NEW p \in Requests, RequestEnd(p)
    PROVE  BooksStep
<1>1. ASSUME ActivateAddonEnd(p) PROVE BooksStep
  <2> DEFINE l == request[p].l
             a == request[p].a
  <2>1. l \in Listings /\ a \in Addons
    BY <1>1, RequestFields DEF ActivateAddonEnd, Typed
  <2>2. UNCHANGED books \/ AddonPaid(AddonRef(l, a), AddonCost[a])
    BY <1>1 DEF ActivateAddonEnd, End, AddonPaid
  <2>3. AddonRef(l, a) \in AddonRefs /\ AddonCost[a] \in Nat \ {0}
    BY <2>1, Prices DEF AddonRefs
  <2> HIDE DEF l, a
  <2>4. QED
    BY <2>2, <2>3 DEF BooksStep
<1>2. ASSUME ActivateBundleEnd(p) PROVE BooksStep
  <2> DEFINE l == request[p].l
  <2>1. l \in Listings
    BY <1>2, RequestFields DEF ActivateBundleEnd, Typed
  <2>2. UNCHANGED books \/ AddonPaid(BundleRef(l), BundleCost)
    BY <1>2 DEF ActivateBundleEnd, End, AddonPaid
  <2>3. BundleRef(l) \in AddonRefs /\ BundleCost \in Nat \ {0}
    BY <2>1, Prices DEF AddonRefs
  <2> HIDE DEF l
  <2>4. QED
    BY <2>2, <2>3 DEF BooksStep
<1>3. ASSUME RemoveAddonEnd(p) PROVE BooksStep
  <2>1. request[p].l \in Listings /\ request[p].a \in Addons
    BY <1>3, RequestFields DEF RemoveAddonEnd, Typed
  <2>2. UNCHANGED books \/ AddonRefunded(request[p].l, request[p].a)
    BY <1>3 DEF RemoveAddonEnd, End, AddonRefunded
  <2>3. QED
    BY <2>1, <2>2 DEF BooksStep
<1>4. ASSUME TopUpEnd(p) PROVE BooksStep
  <2>1. request[p].e \in TopUps
    BY <1>4, RequestFields DEF TopUpEnd, Typed
  <2>2. ToppedUp(request[p].e)
    BY <1>4 DEF TopUpEnd, End, ToppedUp
  <2>3. QED
    BY <2>1, <2>2 DEF BooksStep
<1>5. QED
  BY <1>1, <1>2, <1>3, <1>4 DEF RequestEnd

LEMMA CustomerStep == Typed /\ [CustomerNext]_vars => BooksStep
<1> SUFFICES ASSUME Typed, [CustomerNext]_vars PROVE BooksStep
  OBVIOUS
<1>1. ASSUME NEW l \in Listings, ListingStep(l) PROVE BooksStep
  <2>1. CASE StartPipeline(l)
    BY <2>1, StartStep
  <2>2. CASE Cancel(l)
    BY <2>2, RefundStep DEF Cancel, BooksStep
  <2>3. CASE Delete(l)
    BY <2>3, RefundStep DEF Delete, BooksStep
  <2>4. CASE Progress(l)
    BY <2>4 DEF Progress, BooksStep
  <2>5. QED
    BY <1>1, <2>1, <2>2, <2>3, <2>4 DEF ListingStep
<1>2. ASSUME NEW p \in Requests, RequestBegin(p) PROVE BooksStep
  BY <1>2 DEF RequestBegin, ActivateAddonBegin, RemoveAddonBegin, ActivateBundleBegin,
              TopUpBegin, Begin, BooksStep
<1>3. ASSUME NEW p \in Requests, RequestEnd(p) PROVE BooksStep
  BY <1>3, EndStep
<1>4. ASSUME InvoicePaid PROVE BooksStep
  BY <1>4 DEF InvoicePaid, PeriodRenewed, BooksStep
<1>5. ASSUME ChangePlan \/ UNCHANGED vars PROVE BooksStep
  BY <1>5 DEF ChangePlan, vars, BooksStep
<1>6. QED
  BY <1>1, <1>2, <1>3, <1>4, <1>5 DEF CustomerNext

LEMMA AnyStep == Typed /\ [Next]_vars => BooksStep \/ Adjusted
<1> SUFFICES ASSUME Typed, [Next]_vars PROVE BooksStep \/ Adjusted
  OBVIOUS
<1>1. ASSUME NEW p \in Requests, NEW amount \in Adjustments, AdjustBegin(p, amount)
      PROVE  BooksStep
  BY <1>1 DEF AdjustBegin, Begin, BooksStep
<1>2. QED
  BY <1>1, CustomerStep DEF Next, Adjusted

-----------------------------------------------------------------------------
(* Types are kept.                                                         *)

LEMMA AddonRefsTyped == AddonRefs \subseteq Refs
BY RefsTyped DEF AddonRefs

LEMMA PrepaidTyped ==
    ASSUME Typed, NEW l \in Listings
    PROVE  Prepaid(l) \in Books /\ tenant.cost \in Nat \ {0} /\ ListingRef(l) \in Refs
<1>1. tenant.cost \in Nat \ {0} /\ ListingRef(l) \in Refs /\ books \in Books
  BY RefsTyped DEF Typed, TenantType
<1>2. QED
  BY <1>1, DebitFacts DEF Prepaid

\* What a refunded listing was charged.
LEMMA ChargeTyped ==
    ASSUME Typed, NEW l \in Listings, NEW i \in Entries("listing_debit", ListingRef(l))
    PROVE  i \in DOMAIN Ledger /\ -Ledger[i].amount \in Nat \ {0}
<1>1. Ledger \in Seq(Transactions) /\ i \in DOMAIN Ledger /\ Ledger[i].type = "listing_debit"
  BY DEF Typed, Books, Ledger, Entries
<1>2. Ledger[i] \in Transactions
  BY <1>1
<1>3. Ledger[i].amount \in Int /\ Ledger[i].amount < 0
  BY <1>1, <1>2 DEF Transactions, EntryType, Sign
<1>4. QED
  BY <1>1, <1>3

LEMMA BooksTyped ==
    ASSUME Typed, BooksStep
    PROVE  books' \in Books
<1>1. books \in Books
  BY DEF Typed
<1>2. ASSUME NEW l \in Listings, ListingPaid(l) PROVE books' \in Books
  BY <1>2, PrepaidTyped DEF ListingPaid
<1>3. ASSUME NEW l \in Listings, NEW ref \in AddonRefs, NEW n \in Nat \ {0},
             ListingAndAddonPaid(l, ref, n)
      PROVE  books' \in Books
  <2>1. ref \in Refs /\ Prepaid(l) \in Books
    BY AddonRefsTyped, PrepaidTyped
  <2>2. QED
    BY <1>3, <2>1, DebitFacts DEF ListingAndAddonPaid
<1>4. ASSUME NEW ref \in AddonRefs, NEW n \in Nat \ {0}, AddonPaid(ref, n)
      PROVE  books' \in Books
  <2>1. ref \in Refs
    BY AddonRefsTyped
  <2>2. QED
    BY <1>1, <1>4, <2>1, DebitFacts DEF AddonPaid
<1>5. ASSUME NEW l \in Listings, ListingRefunded(l) PROVE books' \in Books
  <2>1. PICK i \in Entries("listing_debit", ListingRef(l)) :
          books' = Credit(books, "refund", ListingRef(l), -Ledger[i].amount)
    BY <1>5 DEF ListingRefunded
  <2>2. -Ledger[i].amount \in Nat \ {0} /\ ListingRef(l) \in Refs
    BY ChargeTyped, RefsTyped
  <2>3. QED
    BY <1>1, <2>1, <2>2, CreditFacts
<1>6. ASSUME NEW l \in Listings, NEW a \in Addons, AddonRefunded(l, a) PROVE books' \in Books
  <2>1. AddonCost[a] \in Nat \ {0} /\ RemovalRef(l, a) \in Refs
    BY Prices, RefsTyped
  <2>2. QED
    BY <1>1, <1>6, <2>1, CreditFacts DEF AddonRefunded
<1>7. ASSUME NEW e \in TopUps, ToppedUp(e) PROVE books' \in Books
  <2>1. TopUpSize \in Nat \ {0} /\ EventRef(e) \in Refs
    BY Prices, RefsTyped
  <2>2. QED
    BY <1>1, <1>7, <2>1, CreditFacts DEF ToppedUp
<1>8. ASSUME PeriodRenewed PROVE books' \in Books
  <2>1. tenant.included \in Nat \ {0}
    BY <1>8 DEF PeriodRenewed, Typed, TenantType
  <2>2. PICK kept \in Books : books' = Credit(kept, "plan_grant", NoRef, tenant.included)
    BY <1>1, <1>8, RenewedFacts DEF PeriodRenewed
  <2>3. QED
    BY <2>1, <2>2, RefsTyped, CreditFacts
<1>9. QED
  BY <1>1, <1>2, <1>3, <1>4, <1>5, <1>6, <1>7, <1>8 DEF BooksStep

\* An adjustment writes back the balance it read, changed.
LEMMA AdjustTyped ==
    ASSUME Typed, NEW p \in Requests, AdjustEnd(p)
    PROVE  /\ books' \in Books
           /\ \E amount, after \in Int :
                books'.ledger = Append(Ledger, Entry("admin_adjustment", NoRef, amount, after))
<1> DEFINE amount == request[p].amount
           after == request[p].read + amount
           acc == Moved(books.account, after - Balance, 0, 0)
           led == Append(Ledger, Entry("admin_adjustment", NoRef, amount, after))
<1>1. amount \in Int /\ after \in Int
  <2>1. request[p].op = "adjust"
    BY DEF AdjustEnd
  <2>2. request[p].amount \in Adjustments /\ request[p].read \in Int
    BY <2>1, RequestFields DEF Typed
  <2>3. request[p].amount \in Int
    BY <2>2, AdjustmentTypes
  <2>4. QED
    BY <2>2, <2>3
<1>2. books \in Books /\ books.account \in Account /\ Balance \in Int
  BY DEF Typed, Books, Account, Balance
<1>3. books' = [account |-> acc, ledger |-> led]
  BY DEF AdjustEnd, End
<1> HIDE DEF amount, after
<1>4. acc \in Account
  BY <1>1, <1>2, MovedFacts
<1>5. led \in Seq(Transactions)
  BY <1>1, <1>2, RefsTyped, PostTyped DEF Ledger, Types, Sign
<1>6. books' \in Books /\ books'.ledger = led
  <2> HIDE DEF acc, led
  <2>1. QED
    BY <1>3, <1>4, <1>5, RecordOfBooks
<1>7. QED
  BY <1>1, <1>6

LEMMA SoldTyped ==
    ASSUME Typed, NEW l \in Listings, NEW S, NEW bundle \in BOOLEAN
    PROVE  Sold(l, S, bundle) \in [Listings -> [Addons -> PurchaseType]]
BY DEF Typed, Sold, PurchaseType

LEMMA RemovedTyped ==
    ASSUME purchases \in [Listings -> [Addons -> PurchaseType]],
           NEW l \in Listings, NEW a \in Addons
    PROVE  Removed(l, a) \in [Listings -> [Addons -> PurchaseType]]
<1>1. \A r \in PurchaseType : [r EXCEPT !.status = "refunded"] \in PurchaseType
  BY DEF PurchaseType
<1>2. [purchases[l][a] EXCEPT !.status = "refunded"] \in PurchaseType
  BY <1>1
<1>3. [purchases[l] EXCEPT ![a] = [@ EXCEPT !.status = "refunded"]] \in [Addons -> PurchaseType]
  BY <1>2
<1>4. QED
  BY <1>3 DEF Removed

\* Everything else has its type after a step of a listing ...
LEMMA ListingStepTyped ==
    ASSUME Typed, NEW l \in Listings, ListingStep(l)
    PROVE  /\ state' \in [Listings -> ListingStates]
           /\ purchases' \in [Listings -> [Addons -> PurchaseType]]
           /\ UNCHANGED <<tenant, request>>
<1>1. state \in [Listings -> ListingStates] /\ purchases \in [Listings -> [Addons -> PurchaseType]]
  BY DEF Typed
<1>2. CASE StartPipeline(l)
  <2>1. UNCHANGED purchases \/ \E S : \E bundle \in BOOLEAN : purchases' = Sold(l, S, bundle)
    BY <1>2 DEF StartPipeline
  <2>2. purchases' \in [Listings -> [Addons -> PurchaseType]]
    BY <1>1, <2>1, SoldTyped
  <2>3. QED
    BY <1>1, <1>2, <2>2 DEF StartPipeline, ListingStates
<1>3. CASE Cancel(l)
  BY <1>1, <1>3 DEF Cancel, ListingStates
<1>4. CASE Delete(l)
  BY <1>1, <1>4 DEF Delete, ListingStates, NotBought, PurchaseType
<1>5. CASE Progress(l)
  BY <1>1, <1>5 DEF Progress
<1>6. QED
  BY <1>2, <1>3, <1>4, <1>5 DEF ListingStep

\* ... and after one of a request.
LEMMA BeginTyped ==
    ASSUME Typed, NEW p \in Requests, NEW r \in RequestType, Begin(p, r)
    PROVE  Typed'
BY DEF Typed, Begin

LEMMA RequestStepTyped ==
    ASSUME Typed, NEW p \in Requests, RequestEnd(p) \/ AdjustEnd(p)
    PROVE  /\ request' \in [Requests -> RequestType]
           /\ purchases' \in [Listings -> [Addons -> PurchaseType]]
           /\ UNCHANGED <<tenant, state>>
<1>1. purchases \in [Listings -> [Addons -> PurchaseType]] /\ request \in [Requests -> RequestType]
  BY DEF Typed
<1>2. request' = [request EXCEPT ![p] = Idle] /\ UNCHANGED <<tenant, state>>
  BY DEF RequestEnd, ActivateAddonEnd, ActivateBundleEnd, RemoveAddonEnd, TopUpEnd, AdjustEnd, End
<1>3. purchases' \in [Listings -> [Addons -> PurchaseType]]
  <2>1. CASE ActivateAddonEnd(p)
    <3>1. request[p].l \in Listings
      BY <1>1, <2>1, RequestFields DEF ActivateAddonEnd
    <3>2. UNCHANGED purchases \/ \E S : purchases' = Sold(request[p].l, S, FALSE)
      BY <2>1 DEF ActivateAddonEnd, End
    <3>3. \A S : Sold(request[p].l, S, FALSE) \in [Listings -> [Addons -> PurchaseType]]
      BY <3>1, SoldTyped
    <3>4. QED
      BY <1>1, <3>2, <3>3
  <2>2. CASE ActivateBundleEnd(p)
    <3>1. request[p].l \in Listings
      BY <1>1, <2>2, RequestFields DEF ActivateBundleEnd
    <3>2. UNCHANGED purchases \/ \E S : purchases' = Sold(request[p].l, S, TRUE)
      BY <2>2 DEF ActivateBundleEnd, End
    <3>3. \A S : Sold(request[p].l, S, TRUE) \in [Listings -> [Addons -> PurchaseType]]
      BY <3>1, SoldTyped
    <3>4. QED
      BY <1>1, <3>2, <3>3
  <2>3. CASE RemoveAddonEnd(p)
    <3>1. request[p].l \in Listings /\ request[p].a \in Addons
      BY <1>1, <2>3, RequestFields DEF RemoveAddonEnd
    <3>2. UNCHANGED purchases \/ purchases' = Removed(request[p].l, request[p].a)
      BY <2>3 DEF RemoveAddonEnd, End
    <3>3. QED
      BY <1>1, <3>1, <3>2, RemovedTyped
  <2>4. CASE TopUpEnd(p) \/ AdjustEnd(p)
    BY <1>1, <2>4 DEF TopUpEnd, AdjustEnd, End
  <2>5. QED
    BY <2>1, <2>2, <2>3, <2>4 DEF RequestEnd
<1>4. Idle \in RequestType
  BY DEF RequestType
<1>5. QED
  BY <1>1, <1>2, <1>3, <1>4

LEMMA RequestBeginTyped ==
    ASSUME Typed, NEW p \in Requests,
           RequestBegin(p) \/ \E amount \in Adjustments : AdjustBegin(p, amount)
    PROVE  Typed'
<1>1. \E r \in RequestType : Begin(p, r)
  <2>1. ASSUME NEW l \in Listings, NEW a \in Addons,
               ActivateAddonBegin(p, l, a) \/ RemoveAddonBegin(p, l, a)
        PROVE  \E r \in RequestType : Begin(p, r)
    BY <2>1 DEF ActivateAddonBegin, RemoveAddonBegin, RequestType
  <2>2. ASSUME NEW l \in Listings, ActivateBundleBegin(p, l)
        PROVE  \E r \in RequestType : Begin(p, r)
    BY <2>2 DEF ActivateBundleBegin, RequestType
  <2>3. ASSUME NEW e \in TopUps, TopUpBegin(p, e) PROVE \E r \in RequestType : Begin(p, r)
    BY <2>3 DEF TopUpBegin, RequestType
  <2>4. ASSUME NEW amount \in Adjustments, AdjustBegin(p, amount)
        PROVE  \E r \in RequestType : Begin(p, r)
    <3>1. Balance \in Int
      BY DEF Typed, Books, Account, Balance
    <3>2. QED
      BY <2>4, <3>1 DEF AdjustBegin, RequestType
  <2>5. QED
    BY <2>1, <2>2, <2>3, <2>4 DEF RequestBegin
<1>2. QED
  BY <1>1, BeginTyped

LEMMA InitTyped == Init => Typed
<1> SUFFICES ASSUME Init PROVE Typed
  OBVIOUS
<1>1. tenant \in TenantType
  BY Prices DEF Init, TenantType
<1>2. Included[tenant.plan] \in Nat /\ RolloverCap[tenant.plan] \in Nat
  BY <1>1, PlanTypes DEF TenantType
<1>3. books \in Books
  BY <1>2, EmptySeq DEF Init, Books, Account
<1>4. QED
  BY <1>1, <1>3 DEF Init, Typed, ListingStates, NotBought, PurchaseType, RequestType

LEMMA NextTyped == Typed /\ [Next]_vars => Typed'
<1> SUFFICES ASSUME Typed, [Next]_vars PROVE Typed'
  OBVIOUS
<1>1. books' \in Books
  BY AnyStep, BooksTyped, AdjustTyped DEF Adjusted
<1>2. ASSUME NEW l \in Listings, ListingStep(l) PROVE Typed'
  BY <1>1, <1>2, ListingStepTyped DEF Typed
<1>3. ASSUME NEW p \in Requests, RequestEnd(p) \/ AdjustEnd(p) PROVE Typed'
  BY <1>1, <1>3, RequestStepTyped DEF Typed
<1>4. ASSUME NEW p \in Requests,
             RequestBegin(p) \/ \E amount \in Adjustments : AdjustBegin(p, amount)
      PROVE  Typed'
  BY <1>4, RequestBeginTyped
<1>5. ASSUME InvoicePaid \/ UNCHANGED vars PROVE Typed'
  BY <1>1, <1>5 DEF InvoicePaid, vars, Typed
<1>6. ASSUME ChangePlan PROVE Typed'
  <2>1. tenant' \in TenantType
    BY <1>6, PlanTypes, Prices DEF ChangePlan, TenantType
  <2>2. QED
    BY <1>6, <2>1 DEF ChangePlan, Typed
<1>7. QED
  BY <1>2, <1>3, <1>4, <1>5, <1>6 DEF Next, CustomerNext

-----------------------------------------------------------------------------
(* What customers and Stripe do leaves the pools and the ledger in order.  *)

Chained(b) ==
    /\ \A i \in 2..Len(b.ledger) : b.ledger[i].after = b.ledger[i-1].after + b.ledger[i].amount
    /\ b.ledger # <<>> => b.ledger[Len(b.ledger)].after = b.account.balance
Solvent(b) ==
    /\ b.account.granted >= 0 /\ b.account.purchased >= 0
    /\ b.account.balance = b.account.granted + b.account.purchased
    /\ Chained(b)

\* How two books differ when only debits lie between them.
GrantedGoFirst(b, c) ==
    /\ c.account.purchased <= b.account.purchased
    /\ c.account.purchased < b.account.purchased => c.account.granted = 0
    /\ b.account.granted = 0 => c.account.granted = 0

LEMMA PostChained ==
    ASSUME NEW b \in Books, NEW c \in Books, NEW type, NEW ref, NEW x \in Int, Chained(b),
           c.account.balance = b.account.balance + x,
           c.ledger = Append(b.ledger, Entry(type, ref, x, b.account.balance + x))
    PROVE  Chained(c)
<1> DEFINE n == Len(b.ledger)
           e == Entry(type, ref, x, b.account.balance + x)
<1>1. b.ledger \in Seq(Transactions) /\ c.ledger \in Seq(Transactions)
  BY DEF Books
<1>2. /\ n \in Nat /\ Len(c.ledger) = n + 1
      /\ \A i \in 1..n : c.ledger[i] = b.ledger[i]
      /\ c.ledger[n + 1] = e
  BY <1>1, AppendProperties
<1>3. e.amount = x /\ e.after = b.account.balance + x
  BY DEF Entry
<1> HIDE DEF e
<1>4. b.ledger # <<>> <=> n > 0
  BY <1>1, EmptySeq
<1>5. ASSUME NEW i \in 2..n PROVE c.ledger[i].after = c.ledger[i-1].after + c.ledger[i].amount
  <2>1. i \in 1..n /\ i - 1 \in 1..n
    BY <1>2
  <2>2. b.ledger[i].after = b.ledger[i-1].after + b.ledger[i].amount
    BY DEF Chained
  <2>3. QED
    BY <1>2, <2>1, <2>2
<1>6. n > 0 => c.ledger[n + 1].after = c.ledger[n].after + c.ledger[n + 1].amount
  <2> SUFFICES ASSUME n > 0 PROVE c.ledger[n + 1].after = c.ledger[n].after + c.ledger[n + 1].amount
    OBVIOUS
  <2>1. n \in 1..n
    BY <1>2
  <2>2. c.ledger[n].after = b.account.balance
    BY <1>2, <1>4, <2>1 DEF Chained
  <2>3. QED
    BY <1>2, <1>3, <2>2
<1> HIDE DEF n
<1>7. \A i \in 2..(n + 1) : c.ledger[i].after = c.ledger[i-1].after + c.ledger[i].amount
  <2> TAKE i \in 2..(n + 1)
  <2>1. CASE i \in 2..n
    BY <1>5, <2>1
  <2>2. CASE i \notin 2..n
    <3>1. i = n + 1 /\ n > 0 /\ i - 1 = n
      BY <1>2, <2>2
    <3>2. QED
      BY <1>6, <3>1
  <2>3. QED
    BY <2>1, <2>2
<1>8. c.ledger[Len(c.ledger)].after = c.account.balance
  BY <1>2, <1>3
<1>9. QED
  BY <1>2, <1>7, <1>8 DEF Chained

LEMMA DebitChained ==
    ASSUME NEW b \in Books, NEW type \in {"listing_debit", "addon_debit"}, NEW ref \in Refs,
           NEW n \in Nat \ {0}, Chained(b)
    PROVE  Chained(Debit(b, type, ref, n))
<1> DEFINE d == Debit(b, type, ref, n)
<1>1. -n \in Int /\ b.account.balance - n = b.account.balance + (-n)
  BY DEF Books, Account
<1>2. /\ d \in Books /\ d.account.balance = b.account.balance + (-n)
      /\ d.ledger = Append(b.ledger, Entry(type, ref, -n, b.account.balance + (-n)))
  BY <1>1, DebitFacts
<1> HIDE DEF d
<1>3. Chained(d)
  BY <1>1, <1>2, PostChained
<1>4. QED
  BY <1>3 DEF d

LEMMA DebitSolvent ==
    ASSUME NEW b \in Books, NEW type \in {"listing_debit", "addon_debit"}, NEW ref \in Refs,
           NEW n \in Nat \ {0}, Solvent(b), b.account.balance >= n
    PROVE  /\ Solvent(Debit(b, type, ref, n))
           /\ GrantedGoFirst(b, Debit(b, type, ref, n))
<1> DEFINE d == Debit(b, type, ref, n)
<1>1. /\ d \in Books
      /\ d.account.balance = b.account.balance - n
      /\ d.account.granted + d.account.purchased = b.account.granted + b.account.purchased - n
      /\ d.account.granted = b.account.granted - Lesser(n, b.account.granted)
      /\ d.ledger = Append(b.ledger, Entry(type, ref, -n, b.account.balance - n))
  BY DebitFacts
<1> HIDE DEF d
<1>0. Chained(d)
  BY DebitChained DEF Solvent, d
<1>2. /\ b.account.balance \in Int /\ b.account.granted \in Int /\ b.account.purchased \in Int
      /\ d.account.granted \in Int /\ d.account.purchased \in Int
  BY <1>1 DEF Books, Account
<1>3. /\ b.account.granted >= 0 /\ b.account.purchased >= 0
      /\ b.account.balance = b.account.granted + b.account.purchased
  BY DEF Solvent
<1>4. n \in Int /\ n > 0
  OBVIOUS
<1>5. CASE n <= b.account.granted
  <2>1. Lesser(n, b.account.granted) = n
    BY <1>5 DEF Lesser
  <2>2. d.account.granted = b.account.granted - n /\ d.account.purchased = b.account.purchased
    BY <1>1, <1>2, <1>4, <2>1
  <2>3. /\ d.account.granted >= 0 /\ d.account.purchased >= 0
        /\ d.account.balance = d.account.granted + d.account.purchased
    BY <1>1, <1>2, <1>3, <1>4, <1>5, <2>2
  <2>4. GrantedGoFirst(b, d)
    BY <1>2, <1>3, <1>4, <1>5, <2>2 DEF GrantedGoFirst
  <2>5. QED
    BY <1>0, <2>3, <2>4 DEF Solvent, d
<1>6. CASE ~(n <= b.account.granted)
  <2>1. Lesser(n, b.account.granted) = b.account.granted
    BY <1>6 DEF Lesser
  <2>2. d.account.granted = 0 /\ d.account.purchased = b.account.purchased + b.account.granted - n
    BY <1>1, <1>2, <1>4, <2>1
  <2>3. /\ d.account.granted >= 0 /\ d.account.purchased >= 0
        /\ d.account.balance = d.account.granted + d.account.purchased
    <3>1. b.account.granted + b.account.purchased >= n
      BY <1>3
    <3>2. d.account.purchased >= 0
      BY <1>2, <1>4, <2>2, <3>1
    <3>3. d.account.balance = b.account.balance - n
      BY <1>1
    <3>4. d.account.balance = d.account.granted + d.account.purchased
      BY <1>2, <1>3, <1>4, <2>2, <3>3
    <3>5. QED
      BY <2>2, <3>2, <3>4
  <2>4. GrantedGoFirst(b, d)
    BY <1>2, <1>3, <1>4, <1>6, <2>2 DEF GrantedGoFirst
  <2>5. QED
    BY <1>0, <2>3, <2>4 DEF Solvent, d
<1>7. QED
  BY <1>5, <1>6

LEMMA CreditSolvent ==
    ASSUME NEW b \in Books, NEW type \in {"plan_grant", "purchase", "refund"}, NEW ref \in Refs,
           NEW n \in Nat \ {0}, Solvent(b)
    PROVE  /\ Solvent(Credit(b, type, ref, n))
           /\ Credit(b, type, ref, n).account.purchased >= b.account.purchased
<1> DEFINE c == Credit(b, type, ref, n)
<1>1. /\ c \in Books
      /\ c.account.balance = b.account.balance + n
      /\ c.account.granted + c.account.purchased = b.account.granted + b.account.purchased + n
      /\ c.account.granted >= b.account.granted /\ c.account.purchased >= b.account.purchased
      /\ c.ledger = Append(b.ledger, Entry(type, ref, n, b.account.balance + n))
  BY CreditFacts
<1> HIDE DEF c
<1>2. /\ b.account.balance \in Int /\ b.account.granted \in Int /\ b.account.purchased \in Int
      /\ c.account.granted \in Int /\ c.account.purchased \in Int /\ n \in Int
  BY <1>1 DEF Books, Account
<1>3. Chained(c)
  BY <1>1, <1>2, PostChained DEF Solvent
<1>4. c.account.granted >= 0 /\ c.account.purchased >= 0
  BY <1>1, <1>2 DEF Solvent
<1>5. c.account.balance = c.account.granted + c.account.purchased
  BY <1>1, <1>2 DEF Solvent
<1>6. QED
  BY <1>1, <1>3, <1>4, <1>5 DEF Solvent, c

LEMMA ExpirySolvent ==
    ASSUME NEW b \in Books, NEW x \in Nat \ {0}, x <= b.account.granted, Solvent(b)
    PROVE  LET e == Posted(b, "expiry", NoRef, -x, -x, 0) IN
           e \in Books /\ Solvent(e) /\ e.account.purchased = b.account.purchased
<1> DEFINE e == Posted(b, "expiry", NoRef, -x, -x, 0)
<1>1. NoRef \in Refs /\ "expiry" \in Types /\ -x \in Int /\ 0 \in Int /\ Sign("expiry", -x)
  BY RefsTyped DEF Types, Sign
<1>2. /\ e \in Books
      /\ e.account.balance = b.account.balance + (-x)
      /\ e.account.granted = b.account.granted + (-x)
      /\ e.account.purchased = b.account.purchased + 0
      /\ e.ledger = Append(b.ledger, Entry("expiry", NoRef, -x, b.account.balance + (-x)))
  BY <1>1, PostedFacts
<1> HIDE DEF e
<1>3. /\ b.account.balance \in Int /\ b.account.granted \in Int /\ b.account.purchased \in Int
      /\ x \in Int
  BY DEF Books, Account
<1>4. Chained(e)
  BY <1>1, <1>2, PostChained DEF Solvent
<1>5. e.account.granted >= 0 /\ e.account.purchased = b.account.purchased
  BY <1>2, <1>3
<1>6. e.account.balance = e.account.granted + e.account.purchased
  BY <1>2, <1>3, <1>5 DEF Solvent
<1>7. QED
  BY <1>2, <1>4, <1>5, <1>6 DEF Solvent, e

\* The step lemma: what BooksStep makes of solvent books.
LEMMA StepSolvent ==
    ASSUME Typed, Solvent(books), BooksStep
    PROVE  /\ Solvent(books')
           /\ books'.account.purchased < books.account.purchased => books'.account.granted = 0
<1> DEFINE Kept(c) ==
             /\ Solvent(c)
             /\ c.account.purchased < books.account.purchased => c.account.granted = 0
<1>1. books \in Books /\ books.account.purchased \in Int
  BY DEF Typed, Books, Account
<1>2. \A c \in Books :
        /\ Solvent(c) /\ GrantedGoFirst(books, c) => Kept(c)
        /\ Solvent(c) /\ c.account.purchased >= books.account.purchased => Kept(c)
  BY <1>1 DEF GrantedGoFirst, Books, Account
<1>3. ASSUME NEW l \in Listings, Balance >= tenant.cost
      PROVE  Prepaid(l) \in Books /\ Solvent(Prepaid(l)) /\ GrantedGoFirst(books, Prepaid(l))
  BY <1>1, <1>3, PrepaidTyped, DebitSolvent DEF Prepaid, Balance
<1>4. books' \in Books
  BY BooksTyped
<1> HIDE DEF Kept
<1>5. ASSUME NEW l \in Listings, ListingPaid(l) PROVE Kept(books')
  BY <1>2, <1>3, <1>5 DEF ListingPaid
<1>6. ASSUME NEW l \in Listings, NEW ref \in AddonRefs, NEW n \in Nat \ {0},
             ListingAndAddonPaid(l, ref, n)
      PROVE  Kept(books')
  <2>1. /\ Prepaid(l) \in Books /\ Solvent(Prepaid(l)) /\ GrantedGoFirst(books, Prepaid(l))
        /\ Prepaid(l).account.balance >= n /\ ref \in Refs
    BY <1>3, <1>6, AddonRefsTyped DEF ListingAndAddonPaid
  <2>2. Solvent(books') /\ GrantedGoFirst(Prepaid(l), books')
    BY <1>6, <2>1, DebitSolvent DEF ListingAndAddonPaid
  <2>3. GrantedGoFirst(books, books')
    <3> DEFINE paid == Prepaid(l)
    <3>1. paid.account.purchased \in Int /\ books'.account.purchased \in Int
      BY <1>4, <2>1 DEF Books, Account
    <3> HIDE DEF paid
    <3>2. GrantedGoFirst(books, paid) /\ GrantedGoFirst(paid, books')
      BY <2>1, <2>2 DEF paid
    <3>3. QED
      BY <1>1, <3>1, <3>2 DEF GrantedGoFirst
  <2>4. QED
    BY <1>2, <1>4, <2>2, <2>3
<1>7. ASSUME NEW ref \in AddonRefs, NEW n \in Nat \ {0}, AddonPaid(ref, n) PROVE Kept(books')
  <2>1. ref \in Refs /\ books.account.balance >= n
    BY <1>7, AddonRefsTyped DEF AddonPaid, Balance
  <2>2. Solvent(books') /\ GrantedGoFirst(books, books')
    BY <1>1, <1>7, <2>1, DebitSolvent DEF AddonPaid
  <2>3. QED
    BY <1>2, <1>4, <2>2
<1>8. ASSUME NEW type \in {"plan_grant", "purchase", "refund"}, NEW ref \in Refs,
             NEW n \in Nat \ {0}, books' = Credit(books, type, ref, n)
      PROVE  Kept(books')
  BY <1>1, <1>2, <1>4, <1>8, CreditSolvent
<1>9. ASSUME NEW l \in Listings, ListingRefunded(l) PROVE Kept(books')
  BY <1>8, <1>9, ChargeTyped, RefsTyped DEF ListingRefunded
<1>10. ASSUME NEW l \in Listings, NEW a \in Addons, AddonRefunded(l, a) PROVE Kept(books')
  BY <1>8, <1>10, Prices, RefsTyped DEF AddonRefunded
<1>11. ASSUME NEW e \in TopUps, ToppedUp(e) PROVE Kept(books')
  BY <1>8, <1>11, Prices, RefsTyped DEF ToppedUp
<1>12. ASSUME PeriodRenewed PROVE Kept(books')
  <2>1. tenant.included \in Nat \ {0}
    BY <1>12 DEF PeriodRenewed, Typed, TenantType
  <2>2. PICK kept \in Books :
          /\ books' = Credit(kept, "plan_grant", NoRef, tenant.included)
          /\ \/ kept = books
             \/ \E x \in Nat \ {0} :
                  /\ kept = Posted(books, "expiry", NoRef, -x, -x, 0)
                  /\ x <= books.account.granted \/ books.account.granted < 0
    BY <1>1, <1>12, RenewedFacts DEF PeriodRenewed
  <2>3. ~(books.account.granted < 0)
    BY <1>1 DEF Solvent, Books, Account
  <2>4. Solvent(kept) /\ kept.account.purchased = books.account.purchased
    BY <1>1, <2>2, <2>3, ExpirySolvent
  <2>5. Solvent(books') /\ books'.account.purchased >= books.account.purchased
    BY <2>1, <2>2, <2>4, RefsTyped, CreditSolvent
  <2>6. QED
    BY <1>2, <1>4, <2>5
<1>13. ASSUME UNCHANGED books PROVE Kept(books')
  BY <1>1, <1>2, <1>13
<1>14. Kept(books')
  BY <1>5, <1>6, <1>7, <1>9, <1>10, <1>11, <1>12, <1>13 DEF BooksStep
<1>15. QED
  BY <1>14 DEF Kept

CustomerInv == Typed /\ Solvent(books)

LEMMA InitSolvent == Init => Solvent(books)
<1> SUFFICES ASSUME Init PROVE Solvent(books)
  OBVIOUS
<1>1. Included[tenant.plan] \in Nat
  BY PlanTypes DEF Init
<1>2. books.ledger = <<>> /\ Len(books.ledger) = 0
  BY EmptySeq DEF Init
<1>3. Chained(books)
  BY <1>2 DEF Chained
<1>4. QED
  BY <1>1, <1>3 DEF Init, Solvent

LEMMA CustomerKeeps == CustomerSpec => []CustomerInv
<1>1. Init => CustomerInv
  BY InitTyped, InitSolvent DEF CustomerInv
<1>2. CustomerInv /\ [CustomerNext]_vars => CustomerInv'
  <2> SUFFICES ASSUME CustomerInv, [CustomerNext]_vars PROVE CustomerInv'
    OBVIOUS
  <2>1. [Next]_vars
    BY DEF Next
  <2>2. Typed' /\ BooksStep
    BY <2>1, NextTyped, CustomerStep DEF CustomerInv
  <2>3. Solvent(books')
    BY <2>2, StepSolvent DEF CustomerInv
  <2>4. QED
    BY <2>2, <2>3 DEF CustomerInv, Solvent, Chained
<1>3. QED
  BY <1>1, <1>2, PTL DEF CustomerSpec

\* Whatever customers and Stripe do, tenant, books, listings, purchases and
\* requests keep their types, and no pool is overdrawn.
THEOREM CreditTypes == CustomerSpec => []TypeOK
<1>1. CustomerInv => TypeOK
  <2> SUFFICES ASSUME CustomerInv PROVE TypeOK
    OBVIOUS
  <2>1. books \in Books /\ books.account.granted >= 0 /\ books.account.purchased >= 0
    BY DEF CustomerInv, Typed, Solvent
  <2>2. books.account \in AccountType
    BY <2>1 DEF Books, Account, AccountType
  <2>3. books.ledger \in Seq(EntryType)
    <3>1. Transactions \subseteq EntryType /\ books.ledger \in Seq(Transactions)
      BY <2>1 DEF Transactions, Books
    <3>2. QED
      BY <3>1
  <2>4. books \in [account : AccountType, ledger : Seq(EntryType)]
    BY <2>1, <2>2, <2>3 DEF Books
  <2>5. QED
    BY <2>4 DEF CustomerInv, Typed, TypeOK
<1>2. QED
  BY <1>1, CustomerKeeps, PTL

\* The balance is always the two pools together.
THEOREM PoolsStayEqual == CustomerSpec => []PoolsAddUp
<1>1. CustomerInv => PoolsAddUp
  BY DEF CustomerInv, Solvent, PoolsAddUp, Balance
<1>2. QED
  BY <1>1, CustomerKeeps, PTL

\* The transactions always explain the balance.
THEOREM LedgerExplains == CustomerSpec => []LedgerChains
<1>1. CustomerInv => LedgerChains
  BY DEF CustomerInv, Solvent, Chained, LedgerChains, Ledger, Balance
<1>2. QED
  BY <1>1, CustomerKeeps, PTL

\* No step spends purchased credits while granted ones are left.
THEOREM GrantedSpentFirst == CustomerSpec => GrantedFirst
<1>1. CustomerInv /\ [CustomerNext]_vars =>
        [books'.account.purchased < books.account.purchased => books'.account.granted = 0]_vars
  BY CustomerStep, StepSolvent DEF CustomerInv
<1>2. QED
  BY <1>1, CustomerKeeps, PTL DEF CustomerSpec, GrantedFirst

-----------------------------------------------------------------------------
(* A listing's charge is given back once, administrators included.         *)

IsRefund(L, i, l) == i \in DOMAIN L /\ L[i].type = "refund" /\ L[i].ref = ListingRef(l)
IsCharge(L, i, l) == i \in DOMAIN L /\ L[i].type = "listing_debit" /\ L[i].ref = ListingRef(l)
RefundedOnce(L) ==
    \A l \in Listings : \A i, j \in Int : IsRefund(L, i, l) /\ IsRefund(L, j, l) =>
        i = j /\ \E k \in Int : IsCharge(L, k, l) /\ k < i /\ L[k].amount = -L[i].amount

LEMMA LedgerIndices == Typed => Ledger \in Seq(Transactions) /\ DOMAIN Ledger \subseteq Int
BY DEF Typed, Books, Ledger

LEMMA RefundedOnceMeans == Typed => (RefundedOnce(Ledger) <=> ListingRefundedOnce)
BY LedgerIndices DEF RefundedOnce, ListingRefundedOnce, Entries, IsRefund, IsCharge

\* A transaction that refunds no listing leaves the property alone.
LEMMA AppendOther ==
    ASSUME NEW L \in Seq(Transactions), NEW e \in Transactions, RefundedOnce(L),
           e.type = "refund" => \A l \in Listings : e.ref # ListingRef(l)
    PROVE  RefundedOnce(Append(L, e))
<1> DEFINE M == Append(L, e)
           n == Len(L)
<1>1. /\ n \in Nat /\ DOMAIN L = 1..n /\ DOMAIN M = 1..(n + 1)
      /\ \A i \in 1..n : M[i] = L[i]
      /\ M[n + 1] = e
  BY AppendProperties, LenProperties
<1> HIDE DEF M, n
<1>2. ASSUME NEW l \in Listings, NEW i \in Int, IsRefund(M, i, l) PROVE IsRefund(L, i, l)
  <2>1. CASE i = n + 1
    BY <1>1, <1>2, <2>1 DEF IsRefund
  <2>2. CASE i # n + 1
    <3>1. i \in 1..n
      BY <1>1, <1>2, <2>2 DEF IsRefund
    <3>2. QED
      BY <1>1, <1>2, <3>1 DEF IsRefund
  <2>3. QED
    BY <2>1, <2>2
<1>3. ASSUME NEW l \in Listings, NEW k \in Int, IsCharge(L, k, l)
      PROVE  IsCharge(M, k, l) /\ M[k] = L[k]
  BY <1>1, <1>3 DEF IsCharge
<1>4. ASSUME NEW l \in Listings, NEW i \in Int, IsRefund(L, i, l) PROVE M[i] = L[i]
  BY <1>1, <1>4 DEF IsRefund
<1>5. RefundedOnce(M)
  BY <1>2, <1>3, <1>4 DEF RefundedOnce
<1>6. QED
  BY <1>5 DEF M

\* The first refund of a listing gives its charge back.
LEMMA AppendRefund ==
    ASSUME NEW L \in Seq(Transactions), RefundedOnce(L), NEW l \in Listings,
           \A i \in Int : ~IsRefund(L, i, l),
           NEW k \in Int, IsCharge(L, k, l), NEW after \in Int,
           NEW e \in Transactions, e = Entry("refund", ListingRef(l), -L[k].amount, after)
    PROVE  RefundedOnce(Append(L, e))
<1> DEFINE M == Append(L, e)
           n == Len(L)
<1>1. /\ n \in Nat /\ DOMAIN L = 1..n /\ DOMAIN M = 1..(n + 1)
      /\ \A i \in 1..n : M[i] = L[i]
      /\ M[n + 1] = e
  BY AppendProperties, LenProperties
<1>2. /\ e.type = "refund" /\ e.ref = ListingRef(l) /\ e.amount = -L[k].amount
  BY DEF Entry
<1>3. k \in 1..n /\ k < n + 1 /\ L[k] \in Transactions
  BY <1>1 DEF IsCharge
<1>4. L[k].amount \in Int
  BY <1>3 DEF Transactions, EntryType
<1> HIDE DEF M, n
<1>5. ASSUME NEW m \in Listings, NEW i \in Int, IsRefund(M, i, m)
      PROVE  IsRefund(L, i, m) \/ (i = n + 1 /\ m = l)
  <2>1. CASE i = n + 1
    BY <1>1, <1>2, <1>5, <2>1 DEF IsRefund, ListingRef
  <2>2. CASE i # n + 1
    <3>1. i \in 1..n
      BY <1>1, <1>5, <2>2 DEF IsRefund
    <3>2. QED
      BY <1>1, <1>5, <3>1 DEF IsRefund
  <2>3. QED
    BY <2>1, <2>2
<1>6. ASSUME NEW m \in Listings, NEW i \in Int, IsCharge(L, i, m)
      PROVE  IsCharge(M, i, m) /\ M[i] = L[i]
  BY <1>1, <1>6 DEF IsCharge
<1>7. ASSUME NEW m \in Listings, NEW i \in Int, IsRefund(L, i, m) PROVE M[i] = L[i]
  BY <1>1, <1>7 DEF IsRefund
<1>8. IsCharge(M, k, l) /\ k < n + 1 /\ M[k].amount = -M[n + 1].amount
  BY <1>1, <1>2, <1>3, <1>4, <1>6
<1>9. ASSUME NEW m \in Listings, NEW i \in Int, NEW j \in Int, IsRefund(M, i, m), IsRefund(M, j, m)
      PROVE  i = j /\ \E c \in Int : IsCharge(M, c, m) /\ c < i /\ M[c].amount = -M[i].amount
  <2>1. CASE m = l
    <3>1. i = n + 1 /\ j = n + 1
      BY <1>5, <1>9, <2>1
    <3>2. QED
      BY <1>8, <2>1, <3>1
  <2>2. CASE m # l
    <3>1. IsRefund(L, i, m) /\ IsRefund(L, j, m)
      BY <1>5, <1>9, <2>2
    <3>2. i = j /\ \E c \in Int : IsCharge(L, c, m) /\ c < i /\ L[c].amount = -L[i].amount
      BY <3>1 DEF RefundedOnce
    <3>3. QED
      BY <1>6, <1>7, <3>1, <3>2
  <2>3. QED
    BY <2>1, <2>2
<1>10. RefundedOnce(M)
  BY <1>9 DEF RefundedOnce
<1>11. QED
  BY <1>10 DEF M

\* A transaction posted to typed books, whatever it moves.
LEMMA PostOther ==
    ASSUME NEW b \in Books, NEW c \in Books, RefundedOnce(b.ledger),
           NEW type \in Types, NEW ref \in Refs, NEW x \in Int, NEW after \in Int,
           Sign(type, x), type = "refund" => \A l \in Listings : ref # ListingRef(l),
           c.ledger = Append(b.ledger, Entry(type, ref, x, after))
    PROVE  RefundedOnce(c.ledger)
<1>1. b.ledger \in Seq(Transactions) /\ Entry(type, ref, x, after) \in Transactions
  BY EntryTyped DEF Books
<1>2. Entry(type, ref, x, after).type = type /\ Entry(type, ref, x, after).ref = ref
  BY DEF Entry
<1>3. QED
  BY <1>1, <1>2, AppendOther

LEMMA StepRefunds ==
    ASSUME Typed, RefundedOnce(Ledger), BooksStep \/ Adjusted
    PROVE  RefundedOnce(books'.ledger)
<1>1. books \in Books /\ books' \in Books /\ Ledger = books.ledger
  BY BooksTyped, AdjustTyped DEF Typed, Adjusted, Ledger
<1>2. ASSUME NEW b \in Books, RefundedOnce(b.ledger), NEW type \in {"listing_debit", "addon_debit"},
             NEW ref \in Refs, NEW n \in Nat \ {0}
      PROVE  RefundedOnce(Debit(b, type, ref, n).ledger)
  <2>1. /\ Debit(b, type, ref, n) \in Books
        /\ Debit(b, type, ref, n).ledger = Append(b.ledger, Entry(type, ref, -n, b.account.balance - n))
    BY DebitFacts
  <2>2. type \in Types /\ -n \in Int /\ b.account.balance - n \in Int /\ Sign(type, -n)
    BY DEF Types, Sign, Books, Account
  <2>3. QED
    BY <1>2, <2>1, <2>2, PostOther
<1>3. ASSUME NEW b \in Books, RefundedOnce(b.ledger), NEW type \in {"plan_grant", "purchase", "refund"},
             NEW ref \in Refs, NEW n \in Nat \ {0},
             type = "refund" => \A l \in Listings : ref # ListingRef(l)
      PROVE  RefundedOnce(Credit(b, type, ref, n).ledger)
  <2>1. /\ Credit(b, type, ref, n) \in Books
        /\ Credit(b, type, ref, n).ledger = Append(b.ledger, Entry(type, ref, n, b.account.balance + n))
    BY CreditFacts
  <2>2. type \in Types /\ n \in Int /\ b.account.balance + n \in Int /\ Sign(type, n)
    BY DEF Types, Sign, Books, Account
  <2>3. QED
    BY <1>3, <2>1, <2>2, PostOther
<1>4. ASSUME NEW l \in Listings PROVE RefundedOnce(Prepaid(l).ledger)
  BY <1>1, <1>2, PrepaidTyped DEF Prepaid
<1>5. ASSUME NEW l \in Listings, NEW ref \in AddonRefs, NEW n \in Nat \ {0},
             ListingAndAddonPaid(l, ref, n)
      PROVE  RefundedOnce(books'.ledger)
  BY <1>2, <1>4, <1>5, PrepaidTyped, AddonRefsTyped DEF ListingAndAddonPaid
<1>6. ASSUME NEW ref \in AddonRefs, NEW n \in Nat \ {0}, AddonPaid(ref, n)
      PROVE  RefundedOnce(books'.ledger)
  BY <1>1, <1>2, <1>6, AddonRefsTyped DEF AddonPaid
<1>7. ASSUME NEW l \in Listings, ListingRefunded(l) PROVE RefundedOnce(books'.ledger)
  <2>1. PICK k \in Entries("listing_debit", ListingRef(l)) :
          books' = Credit(books, "refund", ListingRef(l), -Ledger[k].amount)
    BY <1>7 DEF ListingRefunded
  <2> DEFINE n == -Ledger[k].amount
             e == Entry("refund", ListingRef(l), n, books.account.balance + n)
  <2>2. n \in Nat \ {0} /\ ListingRef(l) \in Refs /\ k \in Int /\ IsCharge(Ledger, k, l)
    BY ChargeTyped, RefsTyped, LedgerIndices DEF Entries, IsCharge
  <2>3. books'.ledger = Append(Ledger, e)
    BY <1>1, <2>1, <2>2, CreditFacts
  <2>4. books.account.balance + n \in Int /\ e \in Transactions
    BY <1>1, <2>2, EntryTyped DEF Books, Account, Types, Sign
  <2>5. ASSUME NEW i \in Int, IsRefund(Ledger, i, l) PROVE FALSE
    <3>1. Ledger[i] \in Transactions /\ Ledger[i].type = "refund" /\ i \in DOMAIN Ledger
      BY <2>5, LedgerIndices DEF IsRefund
    <3>2. Ledger[i].amount > 0
      BY <3>1 DEF Transactions, Sign
    <3>3. QED
      BY <1>7, <2>5, <3>2 DEF ListingRefunded, Credited, Entries, IsRefund
  <2> HIDE DEF n
  <2>6. RefundedOnce(Append(Ledger, e))
    <3>1. e = Entry("refund", ListingRef(l), -Ledger[k].amount, books.account.balance + n)
      BY DEF n
    <3> HIDE DEF e
    <3>2. QED
      BY <2>2, <2>4, <2>5, <3>1, LedgerIndices, AppendRefund
  <2>7. QED
    BY <2>3, <2>6
<1>8. ASSUME NEW l \in Listings, NEW a \in Addons, AddonRefunded(l, a)
      PROVE  RefundedOnce(books'.ledger)
  <2>1. /\ AddonCost[a] \in Nat \ {0} /\ RemovalRef(l, a) \in Refs
        /\ \A m \in Listings : RemovalRef(l, a) # ListingRef(m)
    BY Prices, RefsTyped DEF RemovalRef, ListingRef
  <2>2. QED
    BY <1>1, <1>3, <1>8, <2>1 DEF AddonRefunded
<1>9. ASSUME NEW e \in TopUps, ToppedUp(e) PROVE RefundedOnce(books'.ledger)
  BY <1>1, <1>3, <1>9, Prices, RefsTyped DEF ToppedUp
<1>10. ASSUME PeriodRenewed PROVE RefundedOnce(books'.ledger)
  <2>1. tenant.included \in Nat \ {0}
    BY <1>10 DEF PeriodRenewed, Typed, TenantType
  <2>2. PICK kept \in Books :
          /\ books' = Credit(kept, "plan_grant", NoRef, tenant.included)
          /\ \/ kept = books
             \/ \E x \in Nat \ {0} :
                  /\ kept = Posted(books, "expiry", NoRef, -x, -x, 0)
                  /\ x <= books.account.granted \/ books.account.granted < 0
    BY <1>1, <1>10, RenewedFacts DEF PeriodRenewed
  <2>3. ASSUME NEW x \in Nat \ {0}, kept = Posted(books, "expiry", NoRef, -x, -x, 0)
        PROVE  RefundedOnce(kept.ledger)
    <3>1. NoRef \in Refs /\ "expiry" \in Types /\ -x \in Int /\ 0 \in Int /\ Sign("expiry", -x)
      BY RefsTyped DEF Types, Sign
    <3>2. kept.ledger = Append(books.ledger, Entry("expiry", NoRef, -x, books.account.balance + (-x)))
      BY <1>1, <2>3, <3>1, PostedFacts
    <3>3. books.account.balance + (-x) \in Int
      BY <1>1 DEF Books, Account
    <3>4. QED
      BY <1>1, <3>1, <3>2, <3>3, PostOther
  <2>4. RefundedOnce(kept.ledger)
    BY <1>1, <2>2, <2>3
  <2>5. QED
    BY <1>3, <2>1, <2>2, <2>4, RefsTyped
<1>11. ASSUME Adjusted PROVE RefundedOnce(books'.ledger)
  <2>1. PICK amount, after \in Int :
          books'.ledger = Append(Ledger, Entry("admin_adjustment", NoRef, amount, after))
    BY <1>11, AdjustTyped DEF Adjusted
  <2>2. QED
    BY <1>1, <2>1, RefsTyped, PostOther DEF Types, Sign
<1>12. ASSUME NEW l \in Listings, ListingPaid(l) PROVE RefundedOnce(books'.ledger)
  BY <1>4, <1>12 DEF ListingPaid
<1>13. QED
  BY <1>1, <1>5, <1>6, <1>7, <1>8, <1>9, <1>10, <1>11, <1>12 DEF BooksStep

\* No order of cancellations, deletions, late requests, renewals and adjustments
\* gives a listing's charge back twice, or without or beyond the charge.
THEOREM RefundsAreSingle == Spec => []ListingRefundedOnce
<1> DEFINE RInv == Typed /\ RefundedOnce(Ledger)
<1>1. Init => RInv
  <2> SUFFICES ASSUME Init PROVE RInv
    OBVIOUS
  <2>1. DOMAIN Ledger = {}
    BY EmptySeq DEF Init, Ledger
  <2>2. QED
    BY <2>1, InitTyped DEF RefundedOnce, IsRefund
<1>2. RInv /\ [Next]_vars => RInv'
  <2> SUFFICES ASSUME RInv, [Next]_vars PROVE RInv'
    OBVIOUS
  <2>1. Typed' /\ RefundedOnce(books'.ledger)
    BY NextTyped, AnyStep, StepRefunds
  <2>2. QED
    BY <2>1 DEF RefundedOnce, IsRefund, IsCharge, Ledger
<1>3. RInv => ListingRefundedOnce
  BY RefundedOnceMeans
<1>4. QED
  BY <1>1, <1>2, <1>3, PTL DEF Spec

-----------------------------------------------------------------------------
(* An existing listing's add-on is charged once: its purchase row, which   *)
(* only the listing's deletion removes, is written with the charge.        *)

AddonCharges(L, l, a) ==
    {i \in DOMAIN L : L[i].type = "addon_debit" /\ L[i].ref = AddonRef(l, a)}
RowPerCharge ==
    \A l \in Listings, a \in Addons : state[l] # "DELETED" =>
        /\ AddonCharges(Ledger, l, a) # {} => ~Unsold(l, a)
        /\ \A i, j \in AddonCharges(Ledger, l, a) : i = j

\* No transaction but an add-on's own debit adds to its charges ...
LEMMA PostNoCharge ==
    ASSUME NEW b \in Books, NEW type, NEW ref, NEW x, NEW after,
           NEW l \in Listings, NEW a \in Addons,
           type # "addon_debit" \/ ref # AddonRef(l, a)
    PROVE  AddonCharges(Append(b.ledger, Entry(type, ref, x, after)), l, a)
             = AddonCharges(b.ledger, l, a)
<1> DEFINE n == Len(b.ledger)
           e == Entry(type, ref, x, after)
           L == Append(b.ledger, e)
<1>1. /\ n \in Nat /\ DOMAIN b.ledger = 1..n /\ DOMAIN L = 1..(n + 1)
      /\ \A i \in 1..n : L[i] = b.ledger[i]
      /\ L[n + 1] = e
  <2>1. b.ledger \in Seq(Transactions)
    BY DEF Books
  <2>2. b.ledger \in Seq(Transactions \cup {e}) /\ e \in Transactions \cup {e}
    BY <2>1
  <2>3. QED
    BY <2>2, AppendProperties, LenProperties
<1>2. ~(L[n + 1].type = "addon_debit" /\ L[n + 1].ref = AddonRef(l, a))
  BY <1>1 DEF Entry
<1> HIDE DEF n, L
<1>3. 1..n \subseteq 1..(n + 1) /\ \A i \in 1..(n + 1) : i \in 1..n \/ i = n + 1
  BY <1>1
<1>4. AddonCharges(L, l, a) = AddonCharges(b.ledger, l, a)
  BY <1>1, <1>2, <1>3 DEF AddonCharges
<1>5. QED
  BY <1>4 DEF L

\* ... and that one adds one.
LEMMA PostCharge ==
    ASSUME NEW b \in Books, NEW x, NEW after, NEW l \in Listings, NEW a \in Addons,
           AddonCharges(b.ledger, l, a) = {}
    PROVE  \A i, j \in AddonCharges(Append(b.ledger, Entry("addon_debit", AddonRef(l, a),
                                                            x, after)), l, a) : i = j
<1> DEFINE n == Len(b.ledger)
           e == Entry("addon_debit", AddonRef(l, a), x, after)
           L == Append(b.ledger, e)
<1>1. /\ n \in Nat /\ DOMAIN b.ledger = 1..n /\ DOMAIN L = 1..(n + 1)
      /\ \A i \in 1..n : L[i] = b.ledger[i]
  <2>1. b.ledger \in Seq(Transactions)
    BY DEF Books
  <2>2. b.ledger \in Seq(Transactions \cup {e}) /\ e \in Transactions \cup {e}
    BY <2>1
  <2>3. QED
    BY <2>2, AppendProperties, LenProperties
<1> HIDE DEF n, L
<1>2. \A i \in 1..(n + 1) : i \in 1..n \/ i = n + 1
  BY <1>1
<1>3. \A i, j \in AddonCharges(L, l, a) : i = j
  BY <1>1, <1>2 DEF AddonCharges
<1>4. QED
  BY <1>3 DEF L

\* A step that charges no add-on by itself.
LEMMA NoAddonCharge ==
    ASSUME Typed, NEW l \in Listings, NEW a \in Addons,
           \/ UNCHANGED books
           \/ \E m \in Listings : ListingPaid(m)
           \/ \E m \in Listings : ListingAndAddonPaid(m, BundleRef(m), BundleCost)
           \/ \E m \in Listings : AddonPaid(BundleRef(m), BundleCost)
           \/ \E m \in Listings : ListingRefunded(m)
           \/ \E m \in Listings, c \in Addons : AddonRefunded(m, c)
           \/ \E e \in TopUps : ToppedUp(e)
           \/ PeriodRenewed \/ Adjusted
    PROVE  AddonCharges(books'.ledger, l, a) = AddonCharges(Ledger, l, a)
<1> DEFINE Same(L) == AddonCharges(L, l, a) = AddonCharges(Ledger, l, a)
<1>1. books \in Books /\ Ledger = books.ledger
  BY DEF Typed, Ledger
<1>2. ASSUME NEW b \in Books, Same(b.ledger), NEW type \in {"listing_debit", "addon_debit"},
             NEW ref \in Refs, NEW n \in Nat \ {0}, type # "addon_debit" \/ ref # AddonRef(l, a)
      PROVE  Same(Debit(b, type, ref, n).ledger)
  <2>1. Debit(b, type, ref, n).ledger = Append(b.ledger, Entry(type, ref, -n, b.account.balance - n))
    BY DebitFacts
  <2>2. QED
    BY <1>2, <2>1, PostNoCharge
<1>3. ASSUME NEW b \in Books, Same(b.ledger), NEW type \in {"plan_grant", "purchase", "refund"},
             NEW ref \in Refs, NEW n \in Nat \ {0}
      PROVE  Same(Credit(b, type, ref, n).ledger)
  <2>1. Credit(b, type, ref, n).ledger = Append(b.ledger, Entry(type, ref, n, b.account.balance + n))
    BY CreditFacts
  <2>2. QED
    BY <1>3, <2>1, PostNoCharge
<1>4. ASSUME NEW m \in Listings PROVE Same(Prepaid(m).ledger) /\ BundleRef(m) # AddonRef(l, a)
  BY <1>1, <1>2, PrepaidTyped DEF Prepaid, BundleRef, AddonRef
<1>5. ASSUME NEW m \in Listings, ListingAndAddonPaid(m, BundleRef(m), BundleCost)
      PROVE  Same(books'.ledger)
  BY <1>2, <1>4, <1>5, PrepaidTyped, RefsTyped, Prices DEF ListingAndAddonPaid
<1>6. ASSUME NEW m \in Listings, AddonPaid(BundleRef(m), BundleCost) PROVE Same(books'.ledger)
  BY <1>1, <1>2, <1>4, <1>6, RefsTyped, Prices DEF AddonPaid
<1>7. ASSUME NEW m \in Listings, ListingRefunded(m) PROVE Same(books'.ledger)
  BY <1>1, <1>3, <1>7, ChargeTyped, RefsTyped DEF ListingRefunded
<1>8. ASSUME NEW m \in Listings, NEW c \in Addons, AddonRefunded(m, c) PROVE Same(books'.ledger)
  BY <1>1, <1>3, <1>8, Prices, RefsTyped DEF AddonRefunded
<1>9. ASSUME NEW e \in TopUps, ToppedUp(e) PROVE Same(books'.ledger)
  BY <1>1, <1>3, <1>9, Prices, RefsTyped DEF ToppedUp
<1>10. ASSUME PeriodRenewed PROVE Same(books'.ledger)
  <2>1. tenant.included \in Nat \ {0}
    BY <1>10 DEF PeriodRenewed, Typed, TenantType
  <2>2. PICK kept \in Books :
          /\ books' = Credit(kept, "plan_grant", NoRef, tenant.included)
          /\ \/ kept = books
             \/ \E x \in Nat \ {0} :
                  /\ kept = Posted(books, "expiry", NoRef, -x, -x, 0)
                  /\ x <= books.account.granted \/ books.account.granted < 0
    BY <1>1, <1>10, RenewedFacts DEF PeriodRenewed
  <2>3. ASSUME NEW x \in Nat \ {0}, kept = Posted(books, "expiry", NoRef, -x, -x, 0)
        PROVE  Same(kept.ledger)
    <3>1. NoRef \in Refs /\ "expiry" \in Types /\ -x \in Int /\ 0 \in Int /\ Sign("expiry", -x)
      BY RefsTyped DEF Types, Sign
    <3>2. kept.ledger = Append(books.ledger, Entry("expiry", NoRef, -x, books.account.balance + (-x)))
      BY <1>1, <2>3, <3>1, PostedFacts
    <3>3. QED
      BY <1>1, <3>2, PostNoCharge
  <2>4. Same(kept.ledger)
    BY <1>1, <2>2, <2>3
  <2>5. QED
    BY <1>3, <2>1, <2>2, <2>4, RefsTyped
<1>11. ASSUME Adjusted PROVE Same(books'.ledger)
  <2>1. PICK amount, after \in Int :
          books'.ledger = Append(Ledger, Entry("admin_adjustment", NoRef, amount, after))
    BY <1>11, AdjustTyped DEF Adjusted
  <2>2. QED
    BY <1>1, <2>1, PostNoCharge
<1>12. ASSUME NEW m \in Listings, ListingPaid(m) PROVE Same(books'.ledger)
  BY <1>4, <1>12 DEF ListingPaid
<1>13. ASSUME UNCHANGED books PROVE Same(books'.ledger)
  BY <1>1, <1>13
<1>14. QED
  BY <1>5, <1>6, <1>7, <1>8, <1>9, <1>10, <1>11, <1>12, <1>13

\* Listings stay deleted, and existing ones keep the rows of their purchases.
RowsKept ==
    \A l \in Listings : state'[l] # "DELETED" =>
        /\ state[l] # "DELETED"
        /\ \A a \in Addons : ~Unsold(l, a) => purchases'[l][a].status # "none"
RowPerChargeNext ==
    \A l \in Listings, a \in Addons : state'[l] # "DELETED" =>
        /\ AddonCharges(books'.ledger, l, a) # {} => purchases'[l][a].status # "none"
        /\ \A i, j \in AddonCharges(books'.ledger, l, a) : i = j

LEMMA QuietStep ==
    ASSUME RowPerCharge, RowsKept,
           \A l \in Listings, a \in Addons :
               AddonCharges(books'.ledger, l, a) = AddonCharges(Ledger, l, a)
    PROVE  RowPerChargeNext
BY DEF RowPerCharge, RowsKept, RowPerChargeNext

\* The debit of an unsold add-on, together with its row.
LEMMA ChargeStep ==
    ASSUME Typed, RowPerCharge, RowsKept, NEW l \in Listings, NEW a \in Addons, Unsold(l, a),
           purchases'[l][a].status # "none",
           NEW b \in Books,
           \A m \in Listings, c \in Addons :
               AddonCharges(b.ledger, m, c) = AddonCharges(Ledger, m, c),
           books' = Debit(b, "addon_debit", AddonRef(l, a), AddonCost[a])
    PROVE  RowPerChargeNext
<1> DEFINE n == AddonCost[a]
           after == b.account.balance - n
<1>1. AddonRef(l, a) \in Refs /\ n \in Nat \ {0}
  BY RefsTyped, Prices
<1>2. books'.ledger = Append(b.ledger, Entry("addon_debit", AddonRef(l, a), -n, after))
  <2>1. books' = Debit(b, "addon_debit", AddonRef(l, a), n)
    OBVIOUS
  <2> HIDE DEF n
  <2>2. Debit(b, "addon_debit", AddonRef(l, a), n).ledger
          = Append(b.ledger, Entry("addon_debit", AddonRef(l, a), -n, after))
    BY <1>1, DebitFacts
  <2>3. QED
    BY <2>1, <2>2
<1> HIDE DEF n, after
<1>3. ASSUME NEW m \in Listings, NEW c \in Addons, <<m, c>> # <<l, a>>
      PROVE  AddonCharges(books'.ledger, m, c) = AddonCharges(Ledger, m, c)
  <2>1. AddonRef(l, a) # AddonRef(m, c)
    BY <1>3 DEF AddonRef
  <2>2. AddonCharges(Append(b.ledger, Entry("addon_debit", AddonRef(l, a), -n, after)), m, c)
          = AddonCharges(b.ledger, m, c)
    BY <2>1, PostNoCharge
  <2>3. QED
    BY <1>2, <2>2
<1>4. state'[l] # "DELETED" => \A i, j \in AddonCharges(books'.ledger, l, a) : i = j
  <2> SUFFICES ASSUME state'[l] # "DELETED"
               PROVE  \A i, j \in AddonCharges(books'.ledger, l, a) : i = j
    OBVIOUS
  <2>1. AddonCharges(b.ledger, l, a) = {}
    BY DEF RowPerCharge, RowsKept
  <2>2. \A i, j \in AddonCharges(Append(b.ledger, Entry("addon_debit", AddonRef(l, a), -n, after)),
                                 l, a) : i = j
    BY <2>1, PostCharge
  <2>3. QED
    BY <1>2, <2>2
<1>5. ASSUME NEW m \in Listings, NEW c \in Addons, state'[m] # "DELETED"
      PROVE  /\ AddonCharges(books'.ledger, m, c) # {} => purchases'[m][c].status # "none"
             /\ \A i, j \in AddonCharges(books'.ledger, m, c) : i = j
  <2>1. CASE m = l /\ c = a
    BY <1>4, <1>5, <2>1
  <2>2. CASE ~(m = l /\ c = a)
    <3>1. AddonCharges(books'.ledger, m, c) = AddonCharges(Ledger, m, c)
      BY <1>3, <2>2
    <3>2. QED
      BY <1>5, <3>1 DEF RowPerCharge, RowsKept
  <2>3. QED
    BY <2>1, <2>2
<1>6. QED
  BY <1>5 DEF RowPerChargeNext

LEMMA SoldRows ==
    ASSUME Typed, NEW l \in Listings, NEW S, NEW bundle \in BOOLEAN, purchases' = Sold(l, S, bundle)
    PROVE  /\ \A m \in Listings, a \in Addons : ~Unsold(m, a) => purchases'[m][a].status # "none"
           /\ \A a \in Addons \cap S : purchases'[l][a].status # "none"
BY DEF Typed, Sold, Unsold

LEMMA RemovedRows ==
    ASSUME Typed, NEW l \in Listings, NEW a \in Addons, purchases' = Removed(l, a)
    PROVE  \A m \in Listings, c \in Addons : ~Unsold(m, c) => purchases'[m][c].status # "none"
BY DEF Typed, Removed, Unsold, PurchaseType

LEMMA StartRows ==
    ASSUME Typed, RowPerCharge, NEW l \in Listings, StartPipeline(l)
    PROVE  RowPerChargeNext
<1>1. Balance >= tenant.cost /\ state' = [state EXCEPT ![l] = "UPLOADING"] /\ state[l] = "DRAFT"
  BY DEF StartPipeline
<1>2. \A m \in Listings : state'[m] # "DELETED" => state[m] # "DELETED"
  BY <1>1 DEF Typed
<1>3. CASE books' = Prepaid(l) /\ UNCHANGED purchases
  <2>1. RowsKept
    BY <1>2, <1>3 DEF RowsKept, Unsold
  <2>2. ListingPaid(l)
    BY <1>1, <1>3 DEF ListingPaid
  <2>3. QED
    BY <2>1, <2>2, NoAddonCharge, QuietStep
<1>4. ASSUME NEW a \in Addons, Unsold(l, a), purchases' = Sold(l, {a}, FALSE),
             books' = Debit(Prepaid(l), "addon_debit", AddonRef(l, a), AddonCost[a])
      PROVE  RowPerChargeNext
  <2>1. RowsKept /\ purchases'[l][a].status # "none"
    BY <1>2, <1>4, SoldRows DEF RowsKept
  <2>2. \A m \in Listings, c \in Addons :
          AddonCharges(Prepaid(l).ledger, m, c) = AddonCharges(Ledger, m, c)
    <3> TAKE m \in Listings, c \in Addons
    <3>1. /\ books \in Books /\ Ledger = books.ledger
          /\ tenant.cost \in Nat \ {0} /\ ListingRef(l) \in Refs
      BY PrepaidTyped DEF Typed, Ledger
    <3>2. Prepaid(l).ledger = Append(books.ledger, Entry("listing_debit", ListingRef(l),
                                        -tenant.cost, books.account.balance - tenant.cost))
      BY <3>1, DebitFacts DEF Prepaid
    <3>3. QED
      BY <3>1, <3>2, PostNoCharge
  <2>3. QED
    BY <1>4, <2>1, <2>2, PrepaidTyped, ChargeStep
<1>5. CASE /\ ListingAndAddonPaid(l, BundleRef(l), BundleCost)
           /\ purchases' = Sold(l, Addons, TRUE)
  <2>1. RowsKept
    BY <1>2, <1>5, SoldRows DEF RowsKept
  <2>2. QED
    BY <1>5, <2>1, NoAddonCharge, QuietStep
<1>6. QED
  BY <1>1, <1>3, <1>4, <1>5 DEF StartPipeline, Prepaid, ListingAndAddonPaid

LEMMA ListingRows ==
    ASSUME Typed, RowPerCharge, NEW l \in Listings, ListingStep(l)
    PROVE  RowPerChargeNext
<1>1. CASE StartPipeline(l)
  BY <1>1, StartRows
<1>2. CASE Cancel(l)
  <2>1. RowsKept
    BY <1>2 DEF Cancel, RowsKept, Unsold, Typed
  <2>2. ListingRefunded(l) \/ UNCHANGED books
    BY <1>2, RefundStep DEF Cancel
  <2>3. QED
    BY <2>1, <2>2, NoAddonCharge, QuietStep
<1>3. CASE Delete(l)
  <2>1. RowsKept
    BY <1>3 DEF Delete, RowsKept, Unsold, Typed
  <2>2. ListingRefunded(l) \/ UNCHANGED books
    BY <1>3, RefundStep DEF Delete
  <2>3. QED
    BY <2>1, <2>2, NoAddonCharge, QuietStep
<1>4. CASE Progress(l)
  <2>1. RowsKept
    BY <1>4 DEF Progress, RowsKept, Unsold, Typed
  <2>2. QED
    BY <1>4, <2>1, NoAddonCharge, QuietStep DEF Progress
<1>5. QED
  BY <1>1, <1>2, <1>3, <1>4 DEF ListingStep

LEMMA RequestRows ==
    ASSUME Typed, RowPerCharge, NEW p \in Requests, RequestEnd(p) \/ AdjustEnd(p)
    PROVE  RowPerChargeNext
<1>1. UNCHANGED state
  BY DEF RequestEnd, ActivateAddonEnd, ActivateBundleEnd, RemoveAddonEnd, TopUpEnd, AdjustEnd, End
<1>2. UNCHANGED purchases => RowsKept
  BY <1>1 DEF RowsKept, Unsold
<1>3. UNCHANGED <<books, purchases>> => RowPerChargeNext
  BY <1>2, NoAddonCharge, QuietStep
<1>4. ASSUME ActivateAddonEnd(p) PROVE RowPerChargeNext
  <2> DEFINE l == request[p].l
             a == request[p].a
  <2>1. l \in Listings /\ a \in Addons
    BY <1>4, RequestFields DEF ActivateAddonEnd, Typed
  <2>2. \/ UNCHANGED <<books, purchases>>
        \/ /\ Unsold(l, a) /\ purchases' = Sold(l, {a}, FALSE)
           /\ books' = Debit(books, "addon_debit", AddonRef(l, a), AddonCost[a])
    BY <1>4 DEF ActivateAddonEnd, End
  <2> HIDE DEF l, a
  <2>3. CASE /\ Unsold(l, a) /\ purchases' = Sold(l, {a}, FALSE)
             /\ books' = Debit(books, "addon_debit", AddonRef(l, a), AddonCost[a])
    <3>1. RowsKept /\ purchases'[l][a].status # "none"
      BY <1>1, <2>1, <2>3, SoldRows DEF RowsKept
    <3>2. books \in Books /\ books.ledger = Ledger
      BY DEF Typed, Ledger
    <3>3. QED
      BY <2>1, <2>3, <3>1, <3>2, ChargeStep
  <2>4. QED
    BY <1>3, <2>2, <2>3
<1>5. ASSUME ActivateBundleEnd(p) PROVE RowPerChargeNext
  <2> DEFINE l == request[p].l
             S == {a \in Addons : Unsold(l, a)}
  <2>1. l \in Listings
    BY <1>5, RequestFields DEF ActivateBundleEnd, Typed
  <2>2. \/ UNCHANGED <<books, purchases>>
        \/ purchases' = Sold(l, S, TRUE) /\ AddonPaid(BundleRef(l), BundleCost)
    BY <1>5 DEF ActivateBundleEnd, End, AddonPaid
  <2> HIDE DEF l, S
  <2>3. CASE purchases' = Sold(l, S, TRUE) /\ AddonPaid(BundleRef(l), BundleCost)
    <3>1. RowsKept
      BY <1>1, <2>1, <2>3, SoldRows DEF RowsKept
    <3>2. QED
      BY <2>1, <2>3, <3>1, NoAddonCharge, QuietStep
  <2>4. QED
    BY <1>3, <2>2, <2>3
<1>6. ASSUME RemoveAddonEnd(p) PROVE RowPerChargeNext
  <2> DEFINE l == request[p].l
             a == request[p].a
  <2>1. l \in Listings /\ a \in Addons
    BY <1>6, RequestFields DEF RemoveAddonEnd, Typed
  <2>2. \/ UNCHANGED <<books, purchases>>
        \/ purchases' = Removed(l, a) /\ AddonRefunded(l, a)
    BY <1>6 DEF RemoveAddonEnd, End, AddonRefunded
  <2> HIDE DEF l, a
  <2>3. CASE purchases' = Removed(l, a) /\ AddonRefunded(l, a)
    <3>1. \A m \in Listings, c \in Addons : ~Unsold(m, c) => purchases'[m][c].status # "none"
      BY <2>1, <2>3, RemovedRows
    <3>2. RowsKept
      BY <1>1, <3>1 DEF RowsKept
    <3>3. QED
      BY <2>1, <2>3, <3>2, NoAddonCharge, QuietStep
  <2>4. QED
    BY <1>3, <2>2, <2>3
<1>7. ASSUME TopUpEnd(p) PROVE RowPerChargeNext
  <2>1. request[p].e \in TopUps
    BY <1>7, RequestFields DEF TopUpEnd, Typed
  <2>2. ToppedUp(request[p].e) /\ UNCHANGED purchases
    BY <1>7 DEF TopUpEnd, End, ToppedUp
  <2>3. QED
    BY <1>2, <2>1, <2>2, NoAddonCharge, QuietStep
<1>8. ASSUME AdjustEnd(p) PROVE RowPerChargeNext
  <2>1. Adjusted /\ UNCHANGED purchases
    BY <1>8 DEF Adjusted, AdjustEnd, End
  <2>2. QED
    BY <1>2, <2>1, NoAddonCharge, QuietStep
<1>9. QED
  BY <1>4, <1>5, <1>6, <1>7, <1>8 DEF RequestEnd

LEMMA NextRows ==
    ASSUME Typed, RowPerCharge, [Next]_vars
    PROVE  RowPerChargeNext
<1>1. UNCHANGED <<books, state, purchases>> => RowPerChargeNext
  <2> SUFFICES ASSUME UNCHANGED <<books, state, purchases>> PROVE RowPerChargeNext
    OBVIOUS
  <2>1. RowsKept
    BY DEF RowsKept, Unsold
  <2>2. QED
    BY <2>1, NoAddonCharge, QuietStep
<1>2. ASSUME InvoicePaid PROVE RowPerChargeNext
  <2>1. RowsKept /\ PeriodRenewed
    BY <1>2 DEF InvoicePaid, RowsKept, Unsold, PeriodRenewed
  <2>2. QED
    BY <2>1, NoAddonCharge, QuietStep
<1>3. ASSUME NEW p \in Requests,
             RequestBegin(p) \/ \E amount \in Adjustments : AdjustBegin(p, amount)
      PROVE  RowPerChargeNext
  <2>1. UNCHANGED <<books, state, purchases>>
    BY <1>3 DEF RequestBegin, ActivateAddonBegin, RemoveAddonBegin, ActivateBundleBegin,
                TopUpBegin, AdjustBegin, Begin
  <2>2. QED
    BY <1>1, <2>1
<1>4. ASSUME ChangePlan \/ UNCHANGED vars PROVE RowPerChargeNext
  BY <1>1, <1>4 DEF ChangePlan, vars
<1>5. QED
  BY <1>2, <1>3, <1>4, ListingRows, RequestRows DEF Next, CustomerNext

\* Two requests for the same add-on of an existing listing never both charge it.
THEOREM ChargesAreSingle == Spec => []AddonChargedOnce
<1> DEFINE AInv == Typed /\ RowPerCharge
<1>1. Init => AInv
  <2> SUFFICES ASSUME Init PROVE AInv
    OBVIOUS
  <2>1. DOMAIN Ledger = {}
    BY EmptySeq DEF Init, Ledger
  <2>2. QED
    BY <2>1, InitTyped DEF RowPerCharge, AddonCharges
<1>2. AInv /\ [Next]_vars => AInv'
  BY NextTyped, NextRows DEF RowPerCharge, RowPerChargeNext, AddonCharges, Ledger, Unsold
<1>3. AInv => AddonChargedOnce
  BY DEF RowPerCharge, AddonChargedOnce, AddonCharges, Entries
<1>4. QED
  BY <1>1, <1>2, <1>3, PTL DEF Spec
=============================================================================
