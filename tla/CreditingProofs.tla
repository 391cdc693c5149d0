---------------------------- MODULE CreditingProofs ----------------------------
(***************************************************************************)
(* Crediting, for every set of purchases, clicks, runs and operators, and  *)
(* any number of lost transactions: what can be withdrawn was earned, no   *)
(* state stands without its posting and one click backs one credit.  Under *)
(* the scheduler's lock, one purchase is one credit; and as long as no     *)
(* purchase is reported more than twice, which is all the sweeps can do,   *)
(* the ledger agrees with the entries.                                     *)
(***************************************************************************)
EXTENDS Crediting, Sums

------------------------------------------------------------------------------
(* What holds whether or not the lock does.                                *)

Actors == Runs \cup Operators

Known(r) == status[r] # "none"

(* Reports about a purchase are numbered in the order they were stored. *)
ChainsInv == \A p \in Purchases : \E k \in 0 .. MaxReports[p] : Said(p) = 1 .. k

(* A credit rests on a stored report that names a click, and only a credit *)
(* is undone: by the operator who rejects it while it is held, or by a     *)
(* later report that declines the purchase.                                *)
CreditOK(r) ==
    /\ IsCredit(r) => Known(r) /\ ref[r] \in Clicks
    /\ undone[r] # NoReport =>
         /\ IsCredit(r)
         /\ \/ undone[r] = r /\ credit[r] = "held"
            \/ /\ undone[r][1] = r[1] /\ undone[r][2] > r[2]
               /\ status[undone[r]] = "declined"

CreditsInv == \A r \in Reports : CreditOK(r)

(* ConfirmedIsEarned and Backed, of one report. *)
Earned(r) == credit[r] \in {"confirmed", "reserved"} =>
    /\ r[1] \in covered
    /\ \E n \in Said(r[1]) : status[<<r[1], n>>] = "confirmed"

Opened(r) == \E s \in {"held", "pending"} :
    posted[openingKey(r, s)] = Moved(r, "receivable", s)

BackedBy(r) == IsCredit(r) =>
    /\ Opened(r)
    /\ credit[r] \in {"confirmed", "reserved"} =>
         \E c \in Reports : posted[idempotencyKey(r, c, "confirmed")] = Moved(r, "pending", "confirmed")
    /\ undone[r] # NoReport => \E s \in Stages :
         posted[idempotencyKey(r, undone[r], "reversed")] = Moved(r, s, "receivable")

(* What an item of each pass rests on, for as long as it is used. *)
ToCredit(i) ==
    /\ Known(i.credit) /\ i.cause = i.credit /\ i.state = "pending"

ToConfirm(i) ==
    /\ IsCredit(i.credit) /\ i.state = "pending"
    /\ i.cause[1] = i.credit[1] /\ status[i.cause] = "confirmed"

ToReverse(i) ==
    /\ IsCredit(i.credit) /\ i.state \in {"held", "pending", "confirmed"}
    /\ i.cause[1] = i.credit[1] /\ i.cause[2] > i.credit[2]
    /\ status[i.cause] = "declined"

(* The transfer an actor has posted and not yet recorded, and its key. *)
Carried(x) ==
    LET i == item[x] IN
    CASE pc[x] = "opening"    -> Moved(i.credit, "receivable", i.state)
      [] pc[x] = "confirming" -> Moved(i.credit, "pending", "confirmed")
      [] pc[x] = "reversing"  -> Moved(i.credit, i.state, "receivable")
      [] pc[x] = "releasing"  -> Moved(i.credit, "held", "pending")
      [] pc[x] = "rejecting"  -> Moved(i.credit, "held", "receivable")

KeyOf(x) ==
    LET i == item[x] IN
    CASE pc[x] = "opening"    -> openingKey(i.credit, i.state)
      [] pc[x] = "confirming" -> idempotencyKey(i.credit, i.cause, "confirmed")
      [] pc[x] = "reversing"  -> idempotencyKey(i.credit, i.cause, "reversed")
      [] pc[x] = "releasing"  -> idempotencyKey(i.credit, i.credit, "pending")
      [] pc[x] = "rejecting"  -> idempotencyKey(i.credit, i.credit, "reversed")

(* An actor about to commit has posted, about a stored report of a click.  *)
PostingOK(x) == pc[x] \in Posting =>
    /\ item[x] \in Items
    /\ Known(item[x].credit) /\ ref[item[x].credit] \in Clicks
    /\ posted[KeyOf(x)] = Carried(x)

(* A run works on the items of its page; what it confirms, a statement     *)
(* covers.                                                                 *)
Opening == {"credit", "opening"}
Confirming == {"confirm", "confirming"}
Reversing  == {"reverse", "reversing"}

RunOK(w) ==
    /\ pc[w] \in {"idle"} \cup Opening \cup Confirming \cup Reversing
    /\ \A i \in page[w] :
         /\ pc[w] \in Opening => ToCredit(i)
         /\ pc[w] \in Confirming => ToConfirm(i)
         /\ pc[w] \in Reversing  => ToReverse(i)
    /\ pc[w] = "opening" =>
         /\ item[w].state \in {"held", "pending"}
         /\ \E i \in page[w] : i.credit = item[w].credit
    /\ pc[w] \in {"confirming", "reversing"} => item[w] \in page[w]
    /\ pc[w] = "confirming" => item[w].credit[1] \in covered

(* An operator decides about a held credit, whose row it has locked. *)
OperatorOK(o) ==
    /\ pc[o] \in {"idle", "releasing", "rejecting"}
    /\ pc[o] # "idle" =>
         /\ lock[item[o].credit] = o
         /\ credit[item[o].credit] = "held" /\ undone[item[o].credit] = NoReport

ActorsInv ==
    /\ \A x \in Actors : PostingOK(x)
    /\ \A w \in Runs : RunOK(w)
    /\ \A o \in Operators : OperatorOK(o)

(* One click backs one credit, one that is being inserted too. *)
ClicksInv ==
    /\ \A r, q \in Reports : IsCredit(r) /\ IsCredit(q) /\ ref[r] = ref[q] => r = q
    /\ \A w \in Runs : pc[w] = "opening" =>
         /\ ~ClickCredited(ref[item[w].credit])
         /\ \A v \in Runs \ {w} : pc[v] = "opening" =>
              ref[item[v].credit] # ref[item[w].credit]

BaseInv ==
    /\ TypeOK /\ ChainsInv /\ CreditsInv /\ ActorsInv
    /\ ClicksInv /\ ConfirmedIsEarned /\ Backed

------------------------------------------------------------------------------
(* What the lock adds.                                                     *)

(* One run works, on pages nobody else takes from: nothing it is to credit *)
(* has been, and it meets every purchase once; what it is to confirm is    *)
(* still pending, and what it is to reverse only an operator has undone.   *)
SoloInv == \A v, w \in Runs : pc[v] # "idle" /\ pc[w] # "idle" => v = w

CreditedOnce == \A r, q \in Reports : IsCredit(r) /\ IsCredit(q) /\ r[1] = q[1] => r = q

Untouched(w, i) ==
    /\ pc[w] \in Opening =>
         \A r \in Reports : IsCredit(r) => r[1] # i.credit[1]
    /\ pc[w] \in Confirming => credit[i.credit] = "pending"
    /\ pc[w] \in Reversing => undone[i.credit] \in {NoReport, i.credit}

PagesInv == \A w \in Runs : \A i \in page[w] :
    /\ Untouched(w, i)
    /\ \A j \in page[w] : i.credit[1] = j.credit[1] => i = j

LockInv == SoloInv /\ CreditedOnce /\ PagesInv

(* Where no purchase is reported more than twice, nothing to be confirmed  *)
(* was undone: the report that undid it would be the last one.             *)
StandsInv == \A w \in Runs : \A i \in page[w] :
    pc[w] \in Confirming => undone[i.credit] = NoReport

(* The row a transfer's key speaks of shows it. *)
Settled(k) == \A r, c \in Reports :
    /\ \A s \in {"held", "pending"} : k = openingKey(r, s) => IsCredit(r)
    /\ k = idempotencyKey(r, c, "confirmed") => credit[r] \in {"confirmed", "reserved"}
    /\ k = idempotencyKey(r, c, "pending") => credit[r] \notin {"none", "held"}
    /\ k = idempotencyKey(r, c, "reversed") => undone[r] = c

(* As long as no transaction was lost, a transfer has a row or an actor to *)
(* show for it.                                                            *)
KeysInv == \A k \in Keys : posted[k] # NoTransfer =>
    Settled(k) \/ \E x \in Actors : pc[x] \in Posting /\ KeyOf(x) = k

(* What a credit that stands puts in an account, and what an actor has     *)
(* moved there ahead of the rows.                                          *)
Due(r, a) == IF Stands(r) /\ credit[r] = a[2] /\ Owner(r) = a[1] THEN AmountOf[r] ELSE 0

Moving(x, a) == IF pc[x] \in Posting THEN Carried(x)[a] ELSE 0

DueTotal(a) == Sum([r \in Reports |-> Due(r, a)], Reports)
MovingTotal(a) == Sum([x \in Actors |-> Moving(x, a)], Actors)

Balanced == \A a \in Members \X Stages : balance[a] = DueTotal(a) + MovingTotal(a)

ClaimsStand == \A r \in Reports : credit[r] = "reserved" => undone[r] = NoReport

Books == ClaimsStand /\ KeysInv /\ Balanced

BooksInv == StandsInv /\ (~torn => Books)

(* What the sweeps can produce: a report, and one that supersedes it. *)
ReportedTwice == \A p \in Purchases : MaxReports[p] <= 2
------------------------------------------------------------------------------
(* Reports, keys and transfers.                                            *)

(* A report is a purchase and a number. *)
LEMMA ReportShape ==
    /\ \A r \in Reports : r[1] \in Purchases /\ r[2] \in 1 .. MaxReports[r[1]] /\ r = <<r[1], r[2]>>
    /\ \A p \in Purchases : \A n \in 1 .. MaxReports[p] : <<p, n>> \in Reports
BY DEF Reports

(* There are finitely many reports. *)
LEMMA ReportsFinite == IsFiniteSet(Reports)
<1> DEFINE Of(p) == {p} \X (1 .. MaxReports[p])
           S == {Of(p) : p \in Purchases}
           f == [p \in Purchases |-> Of(p)]
<1>1. IsFiniteSet(S)
  <2>1. f \in Surjection(Purchases, S)
    <3>1. f \in [Purchases -> S] /\ \A T \in S : \E p \in Purchases : f[p] = T
      OBVIOUS
    <3> HIDE DEF f, S
    <3> QED  BY <3>1 DEF Surjection
  <2> HIDE DEF f, S
  <2> QED  BY <2>1, CreditingAssumption, FS_Surjection
<1>2. ASSUME NEW T \in S PROVE IsFiniteSet(T)
  <2>1. PICK p \in Purchases : T = Of(p)
    OBVIOUS
  <2>2. MaxReports[p] \in Int
    BY CreditingAssumption
  <2>3. IsFiniteSet(1 .. MaxReports[p])
    BY <2>2, FS_Interval
  <2>4. IsFiniteSet({p})
    BY FS_Singleton
  <2> QED  BY <2>1, <2>3, <2>4, FS_Product
<1>3. IsFiniteSet(UNION S)
  <2> HIDE DEF S
  <2> QED  BY <1>1, <1>2, FS_UNION
<1> QED  BY <1>3 DEF Reports

(* The keys of different postings differ. *)
LEMMA KeyShape ==
    /\ \A r \in Reports, s \in {"held", "pending"} : openingKey(r, s) \in Keys
    /\ \A r, c \in Reports, s \in {"pending", "confirmed", "reversed"} :
         idempotencyKey(r, c, s) \in Keys
    /\ \A r, q \in Reports : \A s, t : openingKey(r, s) = openingKey(q, t) => r = q /\ s = t
    /\ \A r, q, c, d \in Reports : \A s, t :
         idempotencyKey(r, c, s) = idempotencyKey(q, d, t) => r = q /\ c = d /\ s = t
    /\ \A r, q, c \in Reports : \A s, t : openingKey(r, s) # idempotencyKey(q, c, t)
BY CreditingAssumption DEF Keys, openingKey, idempotencyKey

(* A movement of a member's money is a transfer, and no transfer is none.  *)
LEMMA MoveType ==
    ASSUME TypeOK, NEW r \in Reports, ref[r] \in Clicks,
           NEW s \in Stages \cup {"receivable"}, NEW t \in Stages \cup {"receivable"}
    PROVE  /\ Moved(r, s, t) \in Transfers
           /\ Moved(r, s, t) \in [Accounts -> Int]
           /\ Moved(r, s, t) # NoTransfer
<1>1. Owner(r) \in Members
  BY DEF Owner, Members
<1>2. Moved(r, s, t) \in Transfers
  <2>1. <<s, t>> \in (Stages \cup {"receivable"}) \X (Stages \cup {"receivable"})
    OBVIOUS
  <2>2. Moved(r, s, t) = Move(Owner(r), <<s, t>>[1], <<s, t>>[2], AmountOf[r])
    BY DEF Moved
  <2> QED  BY <1>1, <2>1, <2>2 DEF Transfers
<1>3. AmountOf[r] \in Int
  BY CreditingAssumption
<1>4. Moved(r, s, t) \in [Accounts -> Int]
  BY <1>3 DEF Moved, Move
<1> QED  BY <1>2, <1>4, TransferAssumption

(* Entries.post records a transfer under its key, once, or finds it there. *)
LEMMA Posts ==
    ASSUME TypeOK, NEW k \in Keys, NEW t \in Transfers, t \in [Accounts -> Int], Post(k, t)
    PROVE  /\ L!LedgerTypeOK'
           /\ posted'[k] = t
           /\ \A j \in Keys : posted[j] # NoTransfer \/ j # k => posted'[j] = posted[j]
           /\ posted[k] = NoTransfer => \A a \in Accounts : balance'[a] = balance[a] + t[a]
           /\ posted[k] # NoTransfer => balance' = balance
<1>1. balance \in [Accounts -> Int] /\ posted \in [Keys -> Transfers \cup {NoTransfer}]
  BY DEF TypeOK, L!LedgerTypeOK, Accounts, L!Accounts
<1>2. CASE posted[k] = NoTransfer
  <2>1. /\ balance' = [a \in Accounts |-> balance[a] + t[a]]
        /\ posted' = [posted EXCEPT ![k] = t]
    BY <1>2 DEF Post, L!Record, Accounts, L!Accounts
  <2> QED  BY <1>1, <1>2, <2>1 DEF L!LedgerTypeOK, Accounts, L!Accounts
<1>3. CASE posted[k] # NoTransfer
  BY <1>1, <1>3 DEF Post, Accepted, money, L!LedgerTypeOK, Accounts, L!Accounts
<1> QED  BY <1>2, <1>3

(* The tip of a chain that has a report is its last report. *)
LEMMA TipIsLast ==
    ASSUME TypeOK, ChainsInv, NEW p \in Purchases
    PROVE  /\ \E k \in 0 .. MaxReports[p] : Said(p) = 1 .. k /\ tip(p) = <<p, k>>
           /\ Said(p) # {} => tip(p) \in Reports /\ Known(tip(p))
           /\ \A n \in Said(p) : <<p, n>> \in Reports /\ n <= tip(p)[2]
<1>1. PICK k \in 0 .. MaxReports[p] : Said(p) = 1 .. k
  BY DEF ChainsInv
<1>2. MaxReports[p] \in Nat
  BY CreditingAssumption
<1>3. Cardinality(1 .. k) = k
  BY <1>1, <1>2, FS_Interval
<1>4. tip(p) = <<p, k>>
  BY <1>1, <1>3 DEF tip
<1>5. ASSUME Said(p) # {} PROVE tip(p) \in Reports /\ Known(tip(p))
  <2>1. k \in Said(p) /\ k \in 1 .. MaxReports[p]
    BY <1>1, <1>2, <1>5
  <2> QED  BY <1>4, <2>1, ReportShape DEF Said, Known
<1>6. \A n \in Said(p) : <<p, n>> \in Reports /\ n <= k
  BY <1>1, <1>2, ReportShape DEF Said
<1> QED  BY <1>1, <1>4, <1>5, <1>6

------------------------------------------------------------------------------
(* Every step keeps the types, and what is stored is not unsaid.           *)

Grow ==
    /\ \A r \in Reports : Known(r) => status'[r] = status[r] /\ ref'[r] = ref[r]
    /\ covered \subseteq covered'
    /\ \A r \in Reports : IsCredit(r) => credit'[r] # "none"
    /\ \A k \in Keys : posted[k] # NoTransfer => posted'[k] = posted[k]

(* A new report is stored at the end of its chain. *)
LEMMA ReportGrows ==
    ASSUME BaseInv, NEW p \in Purchases, NEW s \in {"pending", "confirmed", "declined"},
           NEW k \in Cites[p], Report(p, s, k)
    PROVE  TypeOK' /\ Grow /\ ChainsInv'
<1> USE DEF BaseInv
<1>1. PICK n \in 0 .. MaxReports[p] : Said(p) = 1 .. n /\ tip(p) = <<p, n>>
  BY TipIsLast
<1>2. MaxReports[p] \in Nat /\ k \in Clicks \cup {NoClick}
  BY CreditingAssumption
<1> DEFINE r == <<p, n + 1>>
<1>3. Cardinality(Said(p)) = n
  BY <1>1, <1>2, FS_Interval
<1>4. /\ r \in Reports
      /\ status' = [status EXCEPT ![r] = s] /\ ref' = [ref EXCEPT ![r] = k]
      /\ UNCHANGED <<statement, entries, lock, money, pc, page, item, torn, faults>>
  BY <1>3 DEF Report
<1>5. n + 1 \in 1 .. MaxReports[p] /\ n + 1 \notin Said(p)
  BY <1>1, <1>2, <1>4, ReportShape
<1>6. ~Known(r)
  BY <1>5 DEF Said, Known
<1>7. TypeOK'
  BY <1>2, <1>4 DEF TypeOK, L!LedgerTypeOK, statement, entries, money
<1>8. Grow
  BY <1>4, <1>6 DEF Grow, TypeOK, statement, entries, money, Known, IsCredit
<1>9. ASSUME NEW q \in Purchases PROVE \E j \in 0 .. MaxReports[q] : Said(q)' = 1 .. j
  <2>1. CASE q # p
    <3>1. \A j \in 1 .. MaxReports[q] : <<q, j>> \in Reports /\ <<q, j>> # r
      BY <2>1, ReportShape
    <3>2. Said(q)' = Said(q)
      BY <1>4, <3>1 DEF Said, TypeOK
    <3> QED  BY <3>2 DEF ChainsInv
  <2>2. CASE q = p
    <3>1. \A j \in 1 .. MaxReports[p] : <<p, j>> \in Reports
      BY ReportShape
    <3>2. \A j \in 1 .. MaxReports[p] :
            status'[<<p, j>>] # "none" <=> (status[<<p, j>>] # "none" \/ j = n + 1)
      BY <1>4, <3>1 DEF TypeOK
    <3>3. Said(p)' = Said(p) \cup {n + 1}
      BY <1>5, <3>2 DEF Said
    <3>4. Said(p)' = 1 .. (n + 1)
      BY <1>1, <1>2, <3>3
    <3>5. n + 1 \in 0 .. MaxReports[p]
      BY <1>2, <1>5
    <3> QED  BY <2>2, <3>4, <3>5
  <2> QED  BY <2>1, <2>2
<1>10. ChainsInv'
  BY <1>9 DEF ChainsInv
<1> QED  BY <1>7, <1>8, <1>10

(* Chains do not change where reports do not. *)
LEMMA ChainsKeep ==
    ASSUME BaseInv, UNCHANGED status
    PROVE  ChainsInv'
BY DEF BaseInv, ChainsInv, Said

(* Statements, differences and withdrawals keep the types. *)
LEMMA OutsideGrows ==
    ASSUME BaseInv,
           \/ \E st \in Statements : ImportStatement(st) \/ DetectDifferences(st)
           \/ \E r \in Reports : Claim(r) \/ GiveBack(r) \/ ResolveDifference(r)
    PROVE  TypeOK' /\ Grow /\ ChainsInv'
<1> USE DEF BaseInv
<1>1. ASSUME NEW st \in Statements, ImportStatement(st)
      PROVE  TypeOK' /\ Grow /\ UNCHANGED status
  <2>1. DOMAIN st \subseteq Purchases /\ \A p \in DOMAIN st : st[p] \in Nat
    BY CreditingAssumption
  <2> QED  BY <1>1, <2>1 DEF ImportStatement, TypeOK, L!LedgerTypeOK, Grow, entries, money, Known, IsCredit
<1>2. ASSUME NEW st \in Statements, DetectDifferences(st)
      PROVE  TypeOK' /\ Grow /\ UNCHANGED status
  BY <1>2 DEF DetectDifferences, TypeOK, L!LedgerTypeOK, Grow, entries, money, Known, IsCredit
<1>3. ASSUME NEW r \in Reports, ResolveDifference(r)
      PROVE  TypeOK' /\ Grow /\ UNCHANGED status
  BY <1>3 DEF ResolveDifference, TypeOK, L!LedgerTypeOK, Grow, entries, money, Known, IsCredit
<1>4. ASSUME NEW r \in Reports, Claim(r) \/ GiveBack(r)
      PROVE  TypeOK' /\ Grow /\ UNCHANGED status
  <2>1. IsCredit(r)
    BY <1>4 DEF Claim, GiveBack, IsCredit
  <2>2. ref[r] \in Clicks
    BY <2>1 DEF CreditsInv, CreditOK
  <2>3. /\ Moved(r, "confirmed", "reserved") \in [Accounts -> Int]
        /\ Moved(r, "reserved", "confirmed") \in [Accounts -> Int]
    BY <2>2, MoveType DEF Stages
  <2>4. balance' \in [Accounts -> Int] /\ posted' = posted
    BY <1>4, <2>3 DEF Claim, GiveBack, TypeOK, L!LedgerTypeOK, Accounts, L!Accounts
  <2>5. L!LedgerTypeOK'
    BY <2>4 DEF TypeOK, L!LedgerTypeOK, Accounts, L!Accounts
  <2>6. /\ credit' \in [Reports -> Stages \cup {"none"}]
        /\ \A q \in Reports : IsCredit(q) => credit'[q] # "none"
    BY <1>4 DEF Claim, GiveBack, TypeOK, Stages, IsCredit
  <2>7. UNCHANGED <<evidence, queued, undone, lock, pc, page, item, torn, faults>>
    BY <1>4 DEF Claim, GiveBack
  <2> QED  BY <2>4, <2>5, <2>6, <2>7 DEF TypeOK, Grow, evidence, statement, Known
<1> QED  BY <1>1, <1>2, <1>3, <1>4, ChainsKeep

(* What a pass reads is a page of items. *)
LEMMA PagesType ==
    ASSUME BaseInv
    PROVE  /\ ReportsAwaitingCredit \subseteq Reports
           /\ {[credit |-> r, cause |-> r, state |-> "pending"] : r \in ReportsAwaitingCredit}
                 \subseteq Items
           /\ \A r \in Reports : IsCredit(r) => tip(r[1]) \in Reports /\ r[2] <= tip(r[1])[2]
           /\ ItemsOf(AwaitingConfirmation) \subseteq Items
           /\ ItemsOf(AwaitingReversal) \subseteq Items
<1> USE DEF BaseInv
<1>1. ReportsAwaitingCredit \subseteq Reports
  BY TipIsLast DEF ReportsAwaitingCredit
<1>2. {[credit |-> r, cause |-> r, state |-> "pending"] : r \in ReportsAwaitingCredit}
          \subseteq Items
  BY <1>1 DEF Items, Stages
<1>3. ASSUME NEW r \in Reports, IsCredit(r)
      PROVE  tip(r[1]) \in Reports /\ r[2] <= tip(r[1])[2] /\ credit[r] \in Stages
  <2>1. r[1] \in Purchases /\ r[2] \in Said(r[1])
    BY <1>3, ReportShape DEF CreditsInv, CreditOK, Said, Known
  <2>2. credit[r] \in Stages
    BY <1>3 DEF IsCredit, TypeOK
  <2> QED  BY <2>1, <2>2, TipIsLast
<1>4. \A r \in AwaitingConfirmation \cup AwaitingReversal : r \in Reports /\ IsCredit(r)
  BY DEF AwaitingConfirmation, AwaitingReversal, IsCredit
<1> QED  BY <1>1, <1>2, <1>3, <1>4 DEF ItemsOf, Items

(* The three passes and their ends keep the types. *)
LEMMA PassGrows ==
    ASSUME BaseInv, NEW w \in Runs,
           \/ Begin(w) \/ BeginConfirm(w) \/ BeginReverse(w) \/ EndRun(w)
           \/ \E i \in page[w] : QueueReport(w, i) \/ AlreadyCredited(w, i)
                                   \/ SkipConfirm(w, i) \/ SkipReverse(w, i)
    PROVE  TypeOK' /\ Grow /\ ChainsInv'
<1> USE DEF BaseInv, Actors
<1>1. CASE Begin(w) \/ BeginConfirm(w) \/ BeginReverse(w) \/ EndRun(w)
  <2>1. page' \in [Runs -> SUBSET Items]
    BY <1>1, PagesType DEF Begin, BeginConfirm, BeginReverse, EndRun, TypeOK
  <2>2. /\ pc' \in [Actors -> {"idle", "credit", "confirm", "reverse", "opening",
                               "confirming", "reversing", "releasing", "rejecting"}]
        /\ UNCHANGED <<evidence, entries, lock, money, item, torn, faults>>
    BY <1>1 DEF Begin, BeginConfirm, BeginReverse, EndRun, TypeOK
  <2> QED  BY <2>1, <2>2, ChainsKeep DEF TypeOK, L!LedgerTypeOK, Grow, evidence, statement,
                                         entries, money, Known, IsCredit
<1>2. ASSUME NEW i \in page[w], \/ QueueReport(w, i) \/ AlreadyCredited(w, i)
                                \/ SkipConfirm(w, i) \/ SkipReverse(w, i)
      PROVE  TypeOK' /\ Grow /\ ChainsInv'
  <2>1. i \in Items /\ i.credit \in Reports
    BY DEF TypeOK, Items
  <2>2. \E l \in {"credit", "confirm", "reverse"} : NextItem(w, i, l)
    BY <1>2 DEF QueueReport, AlreadyCredited, SkipConfirm, SkipReverse
  <2>3. /\ pc' \in [Actors -> {"idle", "credit", "confirm", "reverse", "opening",
                               "confirming", "reversing", "releasing", "rejecting"}]
        /\ item' \in [Actors -> Items \cup {NoReport}]
        /\ page' \in [Runs -> SUBSET Items]
    BY <2>2 DEF NextItem, Goto, TypeOK
  <2>4. queued' \subseteq Reports
    BY <1>2, <2>1 DEF QueueReport, AlreadyCredited, SkipConfirm, SkipReverse, TypeOK, entries
  <2>5. UNCHANGED <<evidence, credit, undone, lock, money, torn, faults>>
    BY <1>2 DEF QueueReport, AlreadyCredited, SkipConfirm, SkipReverse, entries
  <2> QED  BY <2>3, <2>4, <2>5, ChainsKeep DEF TypeOK, L!LedgerTypeOK, Grow, evidence, statement,
                                               money, Known, IsCredit
<1> QED  BY <1>1, <1>2

(* What a run is about to post: the item, its key and its transfer. *)
LEMMA RunPosts ==
    ASSUME BaseInv, NEW w \in Runs, NEW i \in page[w], NEW v \in Evaluate,
           Open(w, i, v) \/ Confirm(w, i) \/ Reverse(w, i)
    PROVE  \E l \in {"opening", "confirming", "reversing"}, j \in Items,
              k \in Keys, t \in Transfers \cap [Accounts -> Int] :
             /\ j.credit = i.credit /\ ref[i.credit] \in Clicks /\ Known(i.credit)
             /\ Post(k, t) /\ Goto(w, l, j)
             /\ l = "opening" =>
                  /\ Open(w, i, v) /\ j = [i EXCEPT !.state = v] /\ j.state = v
                  /\ k = openingKey(i.credit, v) /\ t = Moved(i.credit, "receivable", v)
             /\ l = "confirming" =>
                  /\ Confirm(w, i) /\ j = i /\ i.state = "pending"
                  /\ k = idempotencyKey(i.credit, i.cause, "confirmed")
                  /\ t = Moved(i.credit, "pending", "confirmed")
             /\ l = "reversing" =>
                  /\ Reverse(w, i) /\ j = i
                  /\ k = idempotencyKey(i.credit, i.cause, "reversed")
                  /\ t = Moved(i.credit, i.state, "receivable")
<1> USE DEF BaseInv
<1>1. i \in Items /\ i.credit \in Reports /\ i.cause \in Reports /\ i.state \in Stages
  BY DEF TypeOK, Items
<1>2. RunOK(w)
  BY DEF ActorsInv
<1>3. CASE Open(w, i, v)
  <2>1. v \in Stages /\ v \in {"held", "pending"}
    BY DEF Evaluate, Stages
  <2> DEFINE j == [i EXCEPT !.state = v]
  <2>2. j \in Items /\ j.credit = i.credit /\ j.state = v
    BY <1>1, <2>1 DEF Items
  <2>3. ref[i.credit] \in Clicks
    BY <1>1, <1>3 DEF Open, TypeOK
  <2>4. Known(i.credit)
    BY <1>2, <1>3 DEF Open, RunOK, Opening, ToCredit
  <2>5. Moved(i.credit, "receivable", v) \in Transfers \cap [Accounts -> Int]
    BY <1>1, <2>1, <2>3, MoveType
  <2>6. openingKey(i.credit, v) \in Keys
    BY <1>1, <2>1, KeyShape
  <2>7. Post(openingKey(i.credit, v), Moved(i.credit, "receivable", v)) /\ Goto(w, "opening", j)
    BY <1>3 DEF Open
  <2> HIDE DEF j
  <2> QED  BY <1>3, <2>2, <2>3, <2>4, <2>5, <2>6, <2>7 DEF j
<1>4. CASE Confirm(w, i)
  <2>1. ToConfirm(i)
    BY <1>2, <1>4 DEF Confirm, RunOK, Confirming
  <2>2. ref[i.credit] \in Clicks /\ Known(i.credit) /\ i.state = "pending"
    BY <1>1, <2>1 DEF ToConfirm, CreditsInv, CreditOK
  <2>3. Moved(i.credit, "pending", "confirmed") \in Transfers \cap [Accounts -> Int]
    BY <1>1, <2>2, MoveType DEF Stages
  <2>4. idempotencyKey(i.credit, i.cause, "confirmed") \in Keys
    BY <1>1, KeyShape
  <2>5. /\ Post(idempotencyKey(i.credit, i.cause, "confirmed"), Moved(i.credit, "pending", "confirmed"))
        /\ Goto(w, "confirming", i)
    BY <1>4, <2>2 DEF Confirm
  <2> QED  BY <1>1, <1>4, <2>2, <2>3, <2>4, <2>5
<1>5. CASE Reverse(w, i)
  <2>1. ToReverse(i)
    BY <1>2, <1>5 DEF Reverse, RunOK, Reversing
  <2>2. ref[i.credit] \in Clicks /\ Known(i.credit)
    BY <1>1, <2>1 DEF ToReverse, CreditsInv, CreditOK
  <2>3. Moved(i.credit, i.state, "receivable") \in Transfers \cap [Accounts -> Int]
    BY <1>1, <2>2, MoveType DEF Stages
  <2>4. idempotencyKey(i.credit, i.cause, "reversed") \in Keys
    BY <1>1, KeyShape
  <2>5. /\ Post(idempotencyKey(i.credit, i.cause, "reversed"), Moved(i.credit, i.state, "receivable"))
        /\ Goto(w, "reversing", i)
    BY <1>5 DEF Reverse, ReversalTransfer
  <2> QED  BY <1>1, <1>5, <2>2, <2>3, <2>4, <2>5
<1> QED  BY <1>3, <1>4, <1>5

(* Posting keeps the types. *)
LEMMA PostGrows ==
    ASSUME BaseInv, NEW x \in Actors, NEW l \in Posting, NEW j \in Items,
           NEW k \in Keys, NEW t \in Transfers \cap [Accounts -> Int],
           Post(k, t), Goto(x, l, j),
           UNCHANGED <<evidence, entries, page, torn, faults>>,
           lock' \in [Reports -> Operators \cup {NoOne}]
    PROVE  TypeOK' /\ Grow /\ ChainsInv'
<1> USE DEF BaseInv, Actors
<1>1. /\ L!LedgerTypeOK'
      /\ \A m \in Keys : posted[m] # NoTransfer => posted'[m] = posted[m]
  BY Posts
<1>2. /\ pc' \in [Actors -> {"idle", "credit", "confirm", "reverse", "opening",
                             "confirming", "reversing", "releasing", "rejecting"}]
      /\ item' \in [Actors -> Items \cup {NoReport}]
  BY DEF Goto, TypeOK, Posting
<1> QED  BY <1>1, <1>2, ChainsKeep DEF TypeOK, Grow, evidence, statement, entries, Known, IsCredit

(* What an operator decides about, the key and the transfer of it. *)
LEMMA OperatorPosts ==
    ASSUME BaseInv, NEW o \in Operators, NEW r \in Reports, Release(o, r) \/ Reject(o, r)
    PROVE  \E l \in {"releasing", "rejecting"}, k \in Keys, t \in Transfers \cap [Accounts -> Int] :
             /\ ref[r] \in Clicks /\ Known(r) /\ Held(r) \in Items
             /\ pc[o] = "idle" /\ heldForDecision(r)
             /\ Post(k, t) /\ Goto(o, l, Held(r)) /\ LockEntry(o, r)
             /\ UNCHANGED <<evidence, entries, page, torn, faults>>
             /\ l = "releasing" =>
                  k = idempotencyKey(r, r, "pending") /\ t = Moved(r, "held", "pending")
             /\ l = "rejecting" =>
                  k = idempotencyKey(r, r, "reversed") /\ t = Moved(r, "held", "receivable")
<1> USE DEF BaseInv
<1>1. pc[o] = "idle" /\ heldForDecision(r) /\ IsCredit(r)
  BY DEF Release, Reject, Decide, heldForDecision, IsCredit
<1>2. ref[r] \in Clicks /\ Known(r)
  BY <1>1 DEF CreditsInv, CreditOK
<1>3. /\ Moved(r, "held", "pending") \in Transfers \cap [Accounts -> Int]
      /\ Moved(r, "held", "receivable") \in Transfers \cap [Accounts -> Int]
  BY <1>2, MoveType DEF Stages
<1>4. idempotencyKey(r, r, "pending") \in Keys /\ idempotencyKey(r, r, "reversed") \in Keys
  BY KeyShape
<1>5. Held(r) \in Items
  BY DEF Held, Items, Stages
<1>6. CASE Release(o, r)
  BY <1>1, <1>2, <1>3, <1>4, <1>5, <1>6 DEF Release, Decide
<1>7. CASE Reject(o, r)
  BY <1>1, <1>2, <1>3, <1>4, <1>5, <1>7 DEF Reject, Decide
<1> QED  BY <1>6, <1>7

(* So do the decisions of operators, *)
LEMMA OperatorPostGrows ==
    ASSUME BaseInv, NEW o \in Operators, NEW r \in Reports, Release(o, r) \/ Reject(o, r)
    PROVE  TypeOK' /\ Grow /\ ChainsInv'
<1>1. PICK l \in {"releasing", "rejecting"}, k \in Keys, t \in Transfers \cap [Accounts -> Int] :
        /\ Held(r) \in Items /\ Post(k, t) /\ Goto(o, l, Held(r)) /\ LockEntry(o, r)
        /\ UNCHANGED <<evidence, entries, page, torn, faults>>
  BY OperatorPosts
<1>2. lock' \in [Reports -> Operators \cup {NoOne}]
  BY <1>1 DEF LockEntry, BaseInv, TypeOK
<1> QED  BY <1>1, <1>2, PostGrows DEF Actors, Posting

(* the postings of a run, *)
LEMMA RunPostGrows ==
    ASSUME BaseInv, NEW w \in Runs, NEW i \in page[w], NEW v \in Evaluate,
           Open(w, i, v) \/ Confirm(w, i) \/ Reverse(w, i)
    PROVE  TypeOK' /\ Grow /\ ChainsInv'
<1>1. PICK l \in {"opening", "confirming", "reversing"}, j \in Items,
           k \in Keys, t \in Transfers \cap [Accounts -> Int] : Post(k, t) /\ Goto(w, l, j)
  BY RunPosts
<1>2. UNCHANGED <<evidence, entries, page, torn, faults, lock>>
  BY DEF Open, Confirm, Reverse
<1>3. lock' \in [Reports -> Operators \cup {NoOne}]
  BY <1>2 DEF BaseInv, TypeOK
<1> QED  BY <1>1, <1>2, <1>3, PostGrows DEF Actors, Posting

(* the ends of transactions, *)
LEMMA CommitGrows ==
    ASSUME BaseInv, NEW x \in Actors,
           \/ x \in Runs /\ (CommitOpen(x) \/ CommitConfirm(x) \/ CommitReverse(x))
           \/ x \in Operators /\ (CommitRelease(x) \/ CommitReject(x))
    PROVE  TypeOK' /\ Grow /\ ChainsInv'
<1> USE DEF BaseInv, Actors
<1>1. item[x] \in Items
  BY DEF ActorsInv, PostingOK, Posting, CommitOpen, CommitConfirm, CommitReverse,
         CommitRelease, CommitReject
<1>2. item[x].credit \in Reports /\ item[x].cause \in Reports /\ item[x].state \in Stages
  BY <1>1 DEF Items
<1>3. /\ pc' \in [Actors -> {"idle", "credit", "confirm", "reverse", "opening",
                             "confirming", "reversing", "releasing", "rejecting"}]
      /\ item' \in [Actors -> Items \cup {NoReport}]
      /\ page' \in [Runs -> SUBSET Items]
  BY DEF NextItem, Goto, TypeOK, CommitOpen, CommitConfirm, CommitReverse,
         CommitRelease, CommitReject
<1>4. /\ credit' \in [Reports -> Stages \cup {"none"}]
      /\ \A q \in Reports : IsCredit(q) => credit'[q] # "none"
  BY <1>2 DEF TypeOK, Stages, IsCredit, CommitOpen, CommitConfirm, CommitReverse,
              CommitRelease, CommitReject
<1>5. undone' \in [Reports -> Reports \cup {NoReport}]
  BY <1>2 DEF TypeOK, CommitOpen, CommitConfirm, CommitReverse, CommitRelease, CommitReject
<1>6. lock' \in [Reports -> Operators \cup {NoOne}] /\ torn' \in BOOLEAN
  <2>1. lock' \in [Reports -> Operators \cup {NoOne}]
    BY DEF TypeOK, CommitOpen, CommitConfirm, CommitReverse, CommitRelease, CommitReject, Unlock
  <2>2. \/ torn' = torn \/ torn' = TRUE
        \/ torn' = (torn \/ undone' = undone \/ credit[item[x].credit] # item[x].state)
    BY DEF CommitOpen, CommitConfirm, CommitReverse, CommitRelease, CommitReject
  <2>3. torn' \in BOOLEAN
    BY <2>2, Zenon DEF TypeOK
  <2> QED  BY <2>1, <2>3
<1>7. UNCHANGED <<evidence, queued, money, faults>>
  BY DEF CommitOpen, CommitConfirm, CommitReverse, CommitRelease, CommitReject
<1> QED  BY <1>3, <1>4, <1>5, <1>6, <1>7, ChainsKeep
         DEF TypeOK, L!LedgerTypeOK, Grow, evidence, statement, money, Known

(* and what is lost. *)
LEMMA FaultGrows ==
    ASSUME BaseInv, NEW x \in Actors, Crash(x) \/ (x \in Runs /\ ItemFails(x))
    PROVE  TypeOK' /\ Grow /\ ChainsInv'
<1> USE DEF BaseInv, Actors
<1>1. /\ pc' \in [Actors -> {"idle", "credit", "confirm", "reverse", "opening",
                             "confirming", "reversing", "releasing", "rejecting"}]
      /\ item' \in [Actors -> Items \cup {NoReport}]
      /\ page' \in [Runs -> SUBSET Items]
  <2>1. CASE Crash(x)
    BY <2>1 DEF Goto, TypeOK, Crash
  <2>2. CASE x \in Runs /\ ItemFails(x)
    <3>1. PassOf[pc[x]] \in {"credit", "confirm", "reverse"}
      BY <2>2 DEF ItemFails, PassOf
    <3> QED  BY <2>2, <3>1 DEF Goto, TypeOK, ItemFails
  <2> QED  BY <2>1, <2>2
<1>2. lock' \in [Reports -> Operators \cup {NoOne}] /\ torn' \in BOOLEAN
  <2>1. lock' \in [Reports -> Operators \cup {NoOne}]
    BY DEF TypeOK, Crash, ItemFails, Unlock
  <2>2. torn' = TRUE \/ torn' = (torn \/ pc[x] \in Posting)
    BY DEF Crash, ItemFails
  <2>3. torn' \in BOOLEAN
    BY <2>2, Zenon DEF TypeOK
  <2> QED  BY <2>1, <2>3
<1>3. faults' \in 0 .. MaxFaults /\ UNCHANGED <<evidence, entries, money>>
  BY CreditingAssumption DEF Crash, ItemFails, TypeOK
<1> QED  BY <1>1, <1>2, <1>3, ChainsKeep
         DEF TypeOK, L!LedgerTypeOK, Grow, evidence, statement, entries, money, Known, IsCredit

------------------------------------------------------------------------------
(* What a step leaves alone stays as it was.                               *)

(* The transfer a stored report stands for does not change. *)
LEMMA MovedKeeps ==
    ASSUME Grow, NEW r \in Reports, Known(r)
    PROVE  \A s, t : Moved(r, s, t)' = Moved(r, s, t)
BY DEF Grow, Moved, Owner

(* What an item rests on stays true. *)
LEMMA ItemKeeps ==
    ASSUME Grow, NEW i \in Items
    PROVE  /\ ToCredit(i) => ToCredit(i)'
           /\ ToConfirm(i) => ToConfirm(i)'
           /\ ToReverse(i) => ToReverse(i)'
<1>1. i.credit \in Reports /\ i.cause \in Reports
  BY DEF Items
<1> QED  BY <1>1 DEF Grow, ToCredit, ToConfirm, ToReverse, Known, IsCredit

(* An actor about to commit has a key and a transfer to show for it. *)
LEMMA PostingType ==
    ASSUME BaseInv, NEW x \in Actors, pc[x] \in Posting
    PROVE  /\ item[x] \in Items /\ item[x].credit \in Reports /\ item[x].cause \in Reports
           /\ item[x].state \in Stages
           /\ KeyOf(x) \in Keys /\ Carried(x) \in Transfers \cap [Accounts -> Int]
           /\ posted[KeyOf(x)] # NoTransfer
<1> USE DEF BaseInv
<1>1. PostingOK(x) /\ (x \in Runs => RunOK(x)) /\ (x \in Operators => OperatorOK(x))
  BY DEF ActorsInv
<1>2. item[x] \in Items /\ Known(item[x].credit) /\ ref[item[x].credit] \in Clicks
  BY <1>1 DEF PostingOK
<1>3. item[x].credit \in Reports /\ item[x].cause \in Reports /\ item[x].state \in Stages
  BY <1>2 DEF Items
<1>4. pc[x] = "opening" => item[x].state \in {"held", "pending"}
  BY <1>1 DEF RunOK, OperatorOK, Actors
<1>5. \A s, t \in Stages \cup {"receivable"} :
        Moved(item[x].credit, s, t) \in Transfers \cap [Accounts -> Int]
  BY <1>2, <1>3, MoveType
<1>6. Carried(x) \in Transfers \cap [Accounts -> Int]
  BY <1>3, <1>5 DEF Carried, Posting, Stages
<1>7. KeyOf(x) \in Keys
  BY <1>3, <1>4, KeyShape DEF KeyOf, Posting
<1>8. posted[KeyOf(x)] = Carried(x)
  BY <1>1 DEF PostingOK
<1> QED  BY <1>2, <1>3, <1>6, <1>7, <1>8, TransferAssumption

(* An actor that is elsewhere knows what it knew. *)
LEMMA ActorKeeps ==
    ASSUME BaseInv, Grow, NEW x \in Actors, pc'[x] = pc[x], item'[x] = item[x],
           x \in Runs => page'[x] = page[x]
    PROVE  PostingOK(x)' /\ (x \in Runs => RunOK(x)')
<1> USE DEF BaseInv
<1>1. PostingOK(x) /\ (x \in Runs => RunOK(x))
  BY DEF ActorsInv
<1>2. ASSUME pc[x] \in Posting PROVE PostingOK(x)'
  <2>1. /\ item[x].credit \in Reports /\ KeyOf(x) \in Keys
        /\ posted[KeyOf(x)] # NoTransfer
    BY <1>2, PostingType
  <2>2. Known(item[x].credit) /\ ref[item[x].credit] \in Clicks /\ item[x] \in Items
    BY <1>1, <1>2 DEF PostingOK
  <2>3. KeyOf(x)' = KeyOf(x)
    BY DEF KeyOf
  <2>4. Carried(x)' = Carried(x)
    <3>1. \A s, t : Moved(item[x].credit, s, t)' = Moved(item[x].credit, s, t)
      BY <2>1, <2>2, MovedKeeps
    <3> QED  BY <1>2, <3>1 DEF Carried, Posting, Moved, Owner
  <2>5. posted'[KeyOf(x)] = Carried(x)
    BY <1>1, <1>2, <2>1 DEF Grow, PostingOK
  <2>6. Known(item[x].credit)' /\ ref'[item[x].credit] \in Clicks
    BY <2>1, <2>2 DEF Grow, Known
  <2> QED  BY <2>2, <2>3, <2>4, <2>5, <2>6 DEF PostingOK
<1>3. ASSUME x \in Runs PROVE RunOK(x)'
  <2>1. \A i \in page[x] : i \in Items
    BY <1>3 DEF TypeOK
  <2>2. \A i \in page[x] :
          /\ ToCredit(i) => ToCredit(i)'
          /\ ToConfirm(i) => ToConfirm(i)'
          /\ ToReverse(i) => ToReverse(i)'
    BY <2>1, ItemKeeps
  <2>3. covered \subseteq covered'
    BY DEF Grow
  <2> QED  BY <1>1, <1>3, <2>2, <2>3 DEF RunOK
<1> QED  BY <1>2, <1>3 DEF PostingOK

(* So it is enough to look at the actors that act. *)
LEMMA ActorsStep ==
    ASSUME BaseInv, Grow, NEW X,
           \A y \in Actors \ X : /\ pc'[y] = pc[y] /\ item'[y] = item[y]
                                 /\ y \in Runs => page'[y] = page[y],
           \A y \in Actors \cap X : PostingOK(y)',
           \A w \in Runs \cap X : RunOK(w)',
           \A o \in Operators \cap X : OperatorOK(o)',
           \A o \in Operators \ X : pc[o] # "idle" =>
             /\ lock'[item[o].credit] = lock[item[o].credit]
             /\ credit'[item[o].credit] = credit[item[o].credit]
             /\ undone'[item[o].credit] = undone[item[o].credit]
    PROVE  ActorsInv'
<1> USE DEF BaseInv
<1>1. ASSUME NEW y \in Actors PROVE PostingOK(y)' /\ (y \in Runs => RunOK(y)')
  BY ActorKeeps DEF Actors
<1>2. ASSUME NEW o \in Operators PROVE OperatorOK(o)'
  <2>1. CASE o \notin X
    <3>1. OperatorOK(o) /\ o \in Actors
      BY DEF ActorsInv, Actors
    <3>2. pc'[o] = pc[o] /\ item'[o] = item[o]
      BY <2>1, <3>1
    <3>3. CASE pc[o] = "idle"
      BY <3>2, <3>3 DEF OperatorOK
    <3>4. CASE pc[o] # "idle"
      BY <2>1, <3>1, <3>2, <3>4 DEF OperatorOK
    <3> QED  BY <3>3, <3>4
  <2> QED  BY <2>1
<1> QED  BY <1>1, <1>2 DEF ActorsInv, Actors

(* Claimed or given back, a credit rests on the same facts. *)
SameRow(r) ==
    /\ undone'[r] = undone[r]
    /\ \/ credit'[r] = credit[r]
       \/ {credit[r], credit'[r]} \subseteq {"confirmed", "reserved"}

(* And at the rows that change. *)
LEMMA RowsStep ==
    ASSUME BaseInv, TypeOK', Grow, NEW R,
           \A r \in Reports \ R : SameRow(r),
           \A r \in Reports \cap R : CreditOK(r)' /\ Earned(r)' /\ BackedBy(r)'
    PROVE  CreditsInv' /\ ConfirmedIsEarned' /\ Backed'
<1> USE DEF BaseInv
<1>1. ASSUME NEW r \in Reports, r \notin R PROVE CreditOK(r)' /\ Earned(r)' /\ BackedBy(r)'
  <2>1. /\ undone'[r] = undone[r]
        /\ IsCredit(r)' <=> IsCredit(r)
        /\ credit'[r] = "held" <=> credit[r] = "held"
        /\ credit'[r] \in {"confirmed", "reserved"} <=> credit[r] \in {"confirmed", "reserved"}
    BY <1>1 DEF SameRow, IsCredit
  <2>2. CreditOK(r) /\ Earned(r) /\ BackedBy(r)
    BY DEF CreditsInv, ConfirmedIsEarned, Earned, Backed, BackedBy, Opened
  <2>3. undone[r] \in Reports \cup {NoReport}
    BY DEF TypeOK
  <2>4. CreditOK(r)'
    BY <2>1, <2>2, <2>3 DEF CreditOK, Grow, Known, IsCredit
  <2>5. Earned(r)'
    <3>1. SUFFICES ASSUME credit[r] \in {"confirmed", "reserved"} PROVE Earned(r)'
      BY <2>1 DEF Earned
    <3>2. PICK n \in Said(r[1]) : status[<<r[1], n>>] = "confirmed"
      BY <2>2, <3>1 DEF Earned
    <3>3. n \in 1 .. MaxReports[r[1]] /\ r[1] \in covered
      BY <2>2, <3>1, <3>2 DEF Said, Earned
    <3>4. <<r[1], n>> \in Reports
      BY <3>3, ReportShape
    <3>5. status'[<<r[1], n>>] = "confirmed"
      BY <3>2, <3>4 DEF Grow, Known
    <3>6. n \in Said(r[1])'
      BY <3>3, <3>5 DEF Said
    <3> QED  BY <3>3, <3>5, <3>6 DEF Earned, Grow
  <2>6. BackedBy(r)'
    <3>1. SUFFICES ASSUME IsCredit(r) PROVE BackedBy(r)'
      BY <2>1 DEF BackedBy, IsCredit
    <3>2. Known(r) /\ ref[r] \in Clicks
      BY <2>2, <3>1 DEF CreditOK
    <3>3. \A s, t : Moved(r, s, t)' = Moved(r, s, t)
      BY <3>2, MovedKeeps
    <3>4. \A s, t \in Stages \cup {"receivable"} : Moved(r, s, t) # NoTransfer
      BY <3>2, MoveType
    <3>5. \A k \in Keys : posted[k] # NoTransfer => posted'[k] = posted[k]
      BY DEF Grow
    <3>6. Opened(r)'
      <4>1. PICK s \in {"held", "pending"} : posted[openingKey(r, s)] = Moved(r, "receivable", s)
        BY <2>2, <3>1 DEF BackedBy, Opened
      <4>2. posted'[openingKey(r, s)] = Moved(r, "receivable", s)'
        BY <3>3, <3>4, <3>5, <4>1, KeyShape DEF Stages
      <4> QED  BY <4>2 DEF Opened, openingKey
    <3>7. ASSUME credit[r] \in {"confirmed", "reserved"}
          PROVE  \E c \in Reports :
                   posted'[idempotencyKey(r, c, "confirmed")] = Moved(r, "pending", "confirmed")'
      <4>1. PICK c \in Reports : posted[idempotencyKey(r, c, "confirmed")] = Moved(r, "pending", "confirmed")
        BY <2>2, <3>1, <3>7 DEF BackedBy
      <4> QED  BY <3>3, <3>4, <3>5, <4>1, KeyShape DEF Stages
    <3>8. ASSUME undone[r] # NoReport
          PROVE  \E s \in Stages :
                   posted'[idempotencyKey(r, undone[r], "reversed")] = Moved(r, s, "receivable")'
      <4>1. PICK s \in Stages : posted[idempotencyKey(r, undone[r], "reversed")] = Moved(r, s, "receivable")
        BY <2>2, <3>1, <3>8 DEF BackedBy
      <4>2. undone[r] \in Reports
        BY <2>3, <3>8
      <4> QED  BY <3>3, <3>4, <3>5, <4>1, <4>2, KeyShape
    <3> QED  BY <2>1, <3>6, <3>7, <3>8 DEF BackedBy, idempotencyKey
  <2> QED  BY <2>4, <2>5, <2>6
<1>2. \A r \in Reports : CreditOK(r)' /\ Earned(r)' /\ BackedBy(r)'
  BY <1>1
<1> QED  BY <1>2 DEF CreditsInv, ConfirmedIsEarned, Earned, Backed, BackedBy, Opened

(* A click backs no new credit where no credit is new. *)
LEMMA ClicksStep ==
    ASSUME BaseInv, Grow,
           \A r \in Reports : credit'[r] # "none" => IsCredit(r),
           \A w \in Runs : pc'[w] = "opening" => pc[w] = "opening" /\ item'[w] = item[w]
    PROVE  ClicksInv'
<1> USE DEF BaseInv
<1>1. \A r \in Reports : IsCredit(r) => Known(r)
  BY DEF CreditsInv, CreditOK
<1>2. \A r, q \in Reports : (IsCredit(r) /\ IsCredit(q) /\ ref[r] = ref[q] => r = q)'
  BY <1>1 DEF ClicksInv, Grow, IsCredit
<1>3. \A w \in Runs : pc[w] = "opening" => item[w].credit \in Reports /\ Known(item[w].credit)
  BY PostingType DEF ActorsInv, PostingOK, Actors, Posting
<1>4. ASSUME NEW w \in Runs, pc'[w] = "opening"
      PROVE  /\ ~ClickCredited(ref[item[w].credit])'
             /\ \A v \in Runs \ {w} : pc'[v] = "opening" =>
                  ref'[item'[v].credit] # ref'[item'[w].credit]
  <2>1. pc[w] = "opening" /\ item'[w] = item[w] /\ ref'[item[w].credit] = ref[item[w].credit]
    BY <1>3, <1>4 DEF Grow
  <2>2. ~ClickCredited(ref[item[w].credit])
    BY <2>1 DEF ClicksInv
  <2>3. ~ClickCredited(ref[item[w].credit])'
    BY <1>1, <2>1, <2>2 DEF ClickCredited, Grow, IsCredit
  <2>4. ASSUME NEW v \in Runs \ {w}, pc'[v] = "opening"
        PROVE  ref'[item'[v].credit] # ref'[item'[w].credit]
    <3>1. pc[v] = "opening" /\ item'[v] = item[v] /\ ref'[item[v].credit] = ref[item[v].credit]
      BY <1>3, <2>4 DEF Grow
    <3> QED  BY <2>1, <3>1 DEF ClicksInv
  <2> QED  BY <2>3, <2>4
<1> QED  BY <1>2, <1>4 DEF ClicksInv

------------------------------------------------------------------------------
(* BaseInv is inductive.                                                   *)

(* Reports, statements, differences and withdrawals. *)
LEMMA OutsideBase ==
    ASSUME BaseInv,
           \/ \E p \in Purchases, s \in {"pending", "confirmed", "declined"} :
                \E k \in Cites[p] : Report(p, s, k)
           \/ \E st \in Statements : ImportStatement(st) \/ DetectDifferences(st)
           \/ \E r \in Reports : Claim(r) \/ GiveBack(r) \/ ResolveDifference(r)
    PROVE  BaseInv'
<1>1. TypeOK' /\ Grow /\ ChainsInv'
  BY ReportGrows, OutsideGrows
<1>2. UNCHANGED <<pc, page, item, lock, undone>>
  BY DEF Report, ImportStatement, DetectDifferences, Claim, GiveBack, ResolveDifference, entries
<1>3. /\ \A r \in Reports : SameRow(r)
      /\ \A r \in Reports : lock[r] # NoOne => credit'[r] = credit[r]
      /\ \A r \in Reports : credit'[r] # "none" => IsCredit(r)
  <2>1. CASE UNCHANGED credit
    BY <1>2, <2>1 DEF SameRow, IsCredit
  <2>2. ASSUME NEW r \in Reports, Claim(r) \/ GiveBack(r)
        PROVE  /\ \A q \in Reports : SameRow(q)
               /\ \A q \in Reports : lock[q] # NoOne => credit'[q] = credit[q]
               /\ \A q \in Reports : credit'[q] # "none" => IsCredit(q)
    <3>1. /\ lock[r] = NoOne
          /\ {credit[r], credit'[r]} \subseteq {"confirmed", "reserved"}
          /\ \A q \in Reports : q # r => credit'[q] = credit[q]
      BY <2>2 DEF Claim, GiveBack, BaseInv, TypeOK
    <3> QED  BY <1>2, <3>1 DEF SameRow, IsCredit
  <2>3. UNCHANGED credit \/ \E r \in Reports : Claim(r) \/ GiveBack(r)
    BY DEF Report, ImportStatement, DetectDifferences, ResolveDifference, entries
  <2> QED  BY <2>1, <2>2, <2>3
<1>4. CreditsInv' /\ ConfirmedIsEarned' /\ Backed'
  <2>1. \A r \in Reports \ {} : SameRow(r)
    BY <1>3
  <2>2. \A r \in Reports \cap {} : CreditOK(r)' /\ Earned(r)' /\ BackedBy(r)'
    OBVIOUS
  <2> QED  BY <1>1, <2>1, <2>2, RowsStep
<1>5. \A o \in Operators : pc[o] # "idle" =>
        lock[item[o].credit] = o /\ item[o].credit \in Reports /\ o # NoOne
  <2>1. ASSUME NEW o \in Operators, pc[o] # "idle"
        PROVE  lock[item[o].credit] = o /\ item[o].credit \in Reports /\ o # NoOne
    <3>1. OperatorOK(o)
      BY DEF BaseInv, ActorsInv
    <3>2. pc[o] \in Posting
      BY <2>1, <3>1 DEF OperatorOK, Posting
    <3> QED  BY <2>1, <3>1, <3>2, PostingType, CreditingAssumption DEF OperatorOK, Actors
  <2> QED  BY <2>1
<1>6. ActorsInv'
  <2>1. \A y \in Actors \ {} : /\ pc'[y] = pc[y] /\ item'[y] = item[y]
                               /\ y \in Runs => page'[y] = page[y]
    BY <1>2
  <2>2. \A o \in Operators \ {} : pc[o] # "idle" =>
          /\ lock'[item[o].credit] = lock[item[o].credit]
          /\ credit'[item[o].credit] = credit[item[o].credit]
          /\ undone'[item[o].credit] = undone[item[o].credit]
    BY <1>2, <1>3, <1>5
  <2>3. /\ \A y \in Actors \cap {} : PostingOK(y)'
        /\ \A v \in Runs \cap {} : RunOK(v)'
        /\ \A o \in Operators \cap {} : OperatorOK(o)'
    OBVIOUS
  <2> QED  BY <1>1, <2>1, <2>2, <2>3, ActorsStep
<1>7. ClicksInv'
  BY <1>1, <1>2, <1>3, ClicksStep
<1> QED  BY <1>1, <1>4, <1>6, <1>7 DEF BaseInv

(* One actor acts. *)
Alone(x) == \A y \in Actors \ {x} : /\ pc'[y] = pc[y] /\ item'[y] = item[y]
                                    /\ y \in Runs => page'[y] = page[y]

(* The rows other operators have locked stay as they are. *)
Respects(x) == \A o \in Operators \ {x} : pc[o] # "idle" =>
    /\ lock'[item[o].credit] = lock[item[o].credit]
    /\ credit'[item[o].credit] = credit[item[o].credit]
    /\ undone'[item[o].credit] = undone[item[o].credit]

(* A run's step that changes no row of a credit. *)
LEMMA RunStep ==
    ASSUME BaseInv, TypeOK', Grow, ChainsInv', NEW w \in Runs, Alone(w),
           UNCHANGED <<credit, undone, lock>>,
           PostingOK(w)', RunOK(w)', ClicksInv'
    PROVE  BaseInv'
<1>1. CreditsInv' /\ ConfirmedIsEarned' /\ Backed'
  <2>1. \A r \in Reports \ {} : SameRow(r)
    BY DEF SameRow
  <2>2. \A r \in Reports \cap {} : CreditOK(r)' /\ Earned(r)' /\ BackedBy(r)'
    OBVIOUS
  <2> QED  BY <2>1, <2>2, RowsStep
<1>2. w \notin Operators
  BY CreditingAssumption
<1>3. ActorsInv'
  <2>1. \A y \in Actors \cap {w} : PostingOK(y)'
    OBVIOUS
  <2>2. \A v \in Runs \cap {w} : RunOK(v)'
    OBVIOUS
  <2>3. \A o \in Operators \cap {w} : OperatorOK(o)'
    BY <1>2
  <2> QED  BY <2>1, <2>2, <2>3, ActorsStep DEF Alone
<1> QED  BY <1>1, <1>3 DEF BaseInv

(* A run reads a page, leaves an item or ends. *)
LEMMA PassBase ==
    ASSUME BaseInv, NEW w \in Runs,
           \/ Begin(w) \/ BeginConfirm(w) \/ BeginReverse(w) \/ EndRun(w)
           \/ \E i \in page[w] : QueueReport(w, i) \/ AlreadyCredited(w, i)
                                   \/ SkipConfirm(w, i) \/ SkipReverse(w, i)
    PROVE  BaseInv'
<1>1. TypeOK' /\ Grow /\ ChainsInv'
  BY PassGrows
<1>2. Alone(w) /\ UNCHANGED <<credit, undone, lock>>
  BY DEF Alone, Actors, Begin, BeginConfirm, BeginReverse, EndRun, QueueReport, AlreadyCredited,
         SkipConfirm, SkipReverse, NextItem, Goto, entries, BaseInv, TypeOK
<1>3. pc'[w] \in {"idle", "credit", "confirm", "reverse"}
  BY DEF Begin, BeginConfirm, BeginReverse, EndRun, QueueReport, AlreadyCredited,
         SkipConfirm, SkipReverse, NextItem, Goto, BaseInv, TypeOK
<1>4. PostingOK(w)'
  BY <1>3 DEF PostingOK, Posting
<1>5. ClicksInv'
  <2>1. \A r \in Reports : credit'[r] # "none" => IsCredit(r)
    BY <1>2 DEF IsCredit
  <2>2. \A v \in Runs : pc'[v] = "opening" => pc[v] = "opening" /\ item'[v] = item[v]
    BY <1>2, <1>3 DEF Alone, Actors
  <2> QED  BY <1>1, <2>1, <2>2, ClicksStep
<1>6. RunOK(w)'
  <2>1. CASE Begin(w)
    <3>1. /\ pc'[w] = "credit"
          /\ page'[w] = {[credit |-> r, cause |-> r, state |-> "pending"] : r \in ReportsAwaitingCredit}
      BY <2>1 DEF Begin, BaseInv, TypeOK
    <3>2. \A r \in ReportsAwaitingCredit : r \in Reports /\ Known(r)
      BY TipIsLast DEF ReportsAwaitingCredit, BaseInv
    <3>3. \A r \in ReportsAwaitingCredit : Known(r)'
      BY <1>1, <3>2 DEF Grow, Known
    <3> QED  BY <3>1, <3>3 DEF RunOK, Opening, Confirming, Reversing, ToCredit
  <2>2. CASE BeginConfirm(w)
    <3>1. pc'[w] = "confirm" /\ page'[w] = ItemsOf(AwaitingConfirmation) /\ UNCHANGED <<status, credit>>
      BY <2>2 DEF BeginConfirm, BaseInv, TypeOK, evidence, entries
    <3>2. \A r \in AwaitingConfirmation :
            /\ r \in Reports /\ IsCredit(r) /\ credit[r] = "pending"
            /\ status[tip(r[1])] = "confirmed" /\ tip(r[1])[1] = r[1]
      BY DEF AwaitingConfirmation, IsCredit, tip
    <3> QED  BY <3>1, <3>2 DEF RunOK, Opening, Confirming, Reversing, ToConfirm, ItemsOf, IsCredit
  <2>3. CASE BeginReverse(w)
    <3>1. pc'[w] = "reverse" /\ page'[w] = ItemsOf(AwaitingReversal) /\ UNCHANGED <<status, credit>>
      BY <2>3 DEF BeginReverse, BaseInv, TypeOK, evidence, entries
    <3>2. ASSUME NEW r \in AwaitingReversal
          PROVE  /\ IsCredit(r) /\ credit[r] \in {"held", "pending", "confirmed"}
                 /\ status[tip(r[1])] = "declined" /\ tip(r[1])[1] = r[1] /\ tip(r[1])[2] > r[2]
      <4>1. /\ r \in Reports /\ IsCredit(r) /\ credit[r] \in {"held", "pending", "confirmed"}
            /\ status[tip(r[1])] = "declined" /\ tip(r[1]) # r
        BY DEF AwaitingReversal, IsCredit, TakenBack
      <4>2. tip(r[1]) \in Reports /\ r[2] <= tip(r[1])[2]
        BY <4>1, PagesType
      <4>3. tip(r[1])[1] = r[1]
        BY DEF tip
      <4>4. r[2] \in Int /\ tip(r[1])[2] \in Int /\ r = <<r[1], r[2]>>
              /\ tip(r[1]) = <<tip(r[1])[1], tip(r[1])[2]>>
        BY <4>1, <4>2, ReportShape, CreditingAssumption
      <4>5. r[2] # tip(r[1])[2]
        BY <4>1, <4>3, <4>4
      <4> QED  BY <4>1, <4>2, <4>3, <4>4, <4>5
    <3> QED  BY <3>1, <3>2 DEF RunOK, Opening, Confirming, Reversing, ToReverse, ItemsOf, IsCredit
  <2>4. CASE EndRun(w)
    <3>1. pc'[w] = "idle"
      BY <2>4 DEF EndRun, BaseInv, TypeOK
    <3> QED  BY <3>1 DEF RunOK, Opening, Confirming, Reversing
  <2>5. ASSUME NEW i \in page[w], \/ QueueReport(w, i) \/ AlreadyCredited(w, i)
                                  \/ SkipConfirm(w, i) \/ SkipReverse(w, i)
        PROVE  RunOK(w)'
    <3>1. pc'[w] = pc[w] /\ page'[w] \subseteq page[w]
      BY <2>5 DEF QueueReport, AlreadyCredited, SkipConfirm, SkipReverse, NextItem, Goto,
                  BaseInv, TypeOK
    <3>2. RunOK(w) /\ \A j \in page[w] : j \in Items
      BY DEF BaseInv, ActorsInv, TypeOK
    <3>3. \A j \in page[w] : /\ ToCredit(j) => ToCredit(j)'
                             /\ ToConfirm(j) => ToConfirm(j)'
                             /\ ToReverse(j) => ToReverse(j)'
      BY <1>1, <3>2, ItemKeeps
    <3> QED  BY <1>3, <3>1, <3>2, <3>3 DEF RunOK, Opening, Confirming, Reversing
  <2> QED  BY <2>1, <2>2, <2>3, <2>4, <2>5
<1> QED  BY <1>1, <1>2, <1>4, <1>5, <1>6, RunStep

(* A run posts. *)
LEMMA RunPostBase ==
    ASSUME BaseInv, NEW w \in Runs, NEW i \in page[w], NEW v \in Evaluate,
           Open(w, i, v) \/ Confirm(w, i) \/ Reverse(w, i)
    PROVE  BaseInv'
<1>1. TypeOK' /\ Grow /\ ChainsInv'
  BY RunPostGrows
<1>2. PICK l \in {"opening", "confirming", "reversing"}, j \in Items,
           k \in Keys, t \in Transfers \cap [Accounts -> Int] :
        /\ j.credit = i.credit /\ ref[i.credit] \in Clicks /\ Known(i.credit)
        /\ Post(k, t) /\ Goto(w, l, j)
        /\ l = "opening" =>
             /\ Open(w, i, v) /\ j = [i EXCEPT !.state = v] /\ j.state = v
             /\ k = openingKey(i.credit, v) /\ t = Moved(i.credit, "receivable", v)
        /\ l = "confirming" =>
             /\ Confirm(w, i) /\ j = i /\ i.state = "pending"
             /\ k = idempotencyKey(i.credit, i.cause, "confirmed")
             /\ t = Moved(i.credit, "pending", "confirmed")
        /\ l = "reversing" =>
             /\ Reverse(w, i) /\ j = i
             /\ k = idempotencyKey(i.credit, i.cause, "reversed")
             /\ t = Moved(i.credit, i.state, "receivable")
  BY RunPosts
<1>3. i \in Items /\ i.credit \in Reports /\ i.cause \in Reports /\ RunOK(w)
  BY DEF BaseInv, TypeOK, Items, ActorsInv
<1>4. UNCHANGED <<status, ref, covered, credit, undone, lock, page>>
  BY DEF Open, Confirm, Reverse, evidence, statement, entries
<1>5. pc'[w] = l /\ item'[w] = j /\ Alone(w)
  BY <1>2, <1>4 DEF Goto, Alone, Actors, BaseInv, TypeOK
<1>6. posted'[k] = t
  BY <1>2, Posts DEF BaseInv
<1>7. PostingOK(w)'
  <2>1. KeyOf(w)' = k /\ Carried(w)' = t
    BY <1>2, <1>4, <1>5 DEF KeyOf, Carried, Moved, Owner
  <2>2. Known(i.credit)'
    BY <1>2, <1>4 DEF Known
  <2> QED  BY <1>2, <1>4, <1>5, <1>6, <2>1, <2>2 DEF PostingOK
<1>8. RunOK(w)'
  <2>1. \A m \in page[w] : m \in Items
    BY DEF BaseInv, TypeOK
  <2>2. \A m \in page[w] : /\ ToCredit(m) => ToCredit(m)'
                           /\ ToConfirm(m) => ToConfirm(m)'
                           /\ ToReverse(m) => ToReverse(m)'
    BY <1>1, <2>1, ItemKeeps
  <2>3. CASE l = "opening"
    <3>1. pc[w] = "credit" /\ v \in {"held", "pending"}
      BY <1>2, <2>3 DEF Open, Evaluate
    <3> QED  BY <1>2, <1>3, <1>4, <1>5, <2>2, <2>3, <3>1
             DEF RunOK, Opening, Confirming, Reversing
  <2>4. CASE l = "confirming"
    <3>1. pc[w] = "confirm" /\ i.credit[1] \in covered
      BY <1>2, <2>4 DEF Confirm, ReportIsReconciled
    <3> QED  BY <1>2, <1>3, <1>4, <1>5, <2>2, <2>4, <3>1
             DEF RunOK, Opening, Confirming, Reversing
  <2>5. CASE l = "reversing"
    <3>1. pc[w] = "reverse"
      BY <1>2, <2>5 DEF Reverse
    <3> QED  BY <1>2, <1>3, <1>4, <1>5, <2>2, <2>5, <3>1
             DEF RunOK, Opening, Confirming, Reversing
  <2> QED  BY <2>3, <2>4, <2>5
<1>9. ClicksInv'
  <2>1. \A r \in Reports : credit'[r] # "none" => IsCredit(r)
    BY <1>4 DEF IsCredit
  <2>2. CASE l # "opening"
    <3>1. \A u \in Runs : pc'[u] = "opening" => pc[u] = "opening" /\ item'[u] = item[u]
      BY <1>5, <2>2 DEF Alone, Actors
    <3> QED  BY <1>1, <2>1, <3>1, ClicksStep
  <2>3. CASE l = "opening"
    <3>1. /\ ~ClickCredited(ref[i.credit])
          /\ \A u \in Runs \ {w} : pc[u] = "opening" => ref[item[u].credit] # ref[i.credit]
      BY <1>2, <2>3 DEF Open, InsertWaits
    <3>2. /\ \A r, q \in Reports : IsCredit(r) /\ IsCredit(q) /\ ref[r] = ref[q] => r = q
          /\ \A u \in Runs : pc[u] = "opening" =>
               /\ ~ClickCredited(ref[item[u].credit])
               /\ \A x \in Runs \ {u} : pc[x] = "opening" =>
                    ref[item[x].credit] # ref[item[u].credit]
      BY DEF BaseInv, ClicksInv
    <3>3. \A u \in Runs \ {w} : pc'[u] = pc[u] /\ item'[u] = item[u]
      BY <1>5 DEF Alone, Actors
    <3>4. item'[w].credit = i.credit
      BY <1>2, <1>5
    <3> QED  BY <1>4, <3>1, <3>2, <3>3, <3>4 DEF ClicksInv, ClickCredited, IsCredit
  <2> QED  BY <2>2, <2>3
<1> QED  BY <1>1, <1>4, <1>5, <1>7, <1>8, <1>9, RunStep

(* An operator's step. *)
LEMMA OperatorStep ==
    ASSUME BaseInv, TypeOK', Grow, ChainsInv', NEW o \in Operators, Alone(o), Respects(o),
           PostingOK(o)', OperatorOK(o)', NEW R,
           \A r \in Reports \ R : SameRow(r),
           \A r \in Reports \cap R : CreditOK(r)' /\ Earned(r)' /\ BackedBy(r)',
           \A r \in Reports : credit'[r] # "none" => IsCredit(r)
    PROVE  BaseInv'
<1>1. CreditsInv' /\ ConfirmedIsEarned' /\ Backed'
  BY RowsStep
<1>2. o \notin Runs
  BY CreditingAssumption
<1>3. ActorsInv'
  <2>1. \A y \in Actors \cap {o} : PostingOK(y)'
    OBVIOUS
  <2>2. \A v \in Runs \cap {o} : RunOK(v)'
    BY <1>2
  <2>3. \A q \in Operators \cap {o} : OperatorOK(q)'
    OBVIOUS
  <2> QED  BY <2>1, <2>2, <2>3, ActorsStep DEF Alone, Respects
<1>4. ClicksInv'
  <2>1. \A v \in Runs : pc'[v] = "opening" => pc[v] = "opening" /\ item'[v] = item[v]
    BY <1>2 DEF Alone, Actors
  <2> QED  BY <2>1, ClicksStep
<1> QED  BY <1>1, <1>3, <1>4 DEF BaseInv

(* An operator locks a held credit and posts. *)
LEMMA OperatorPostBase ==
    ASSUME BaseInv, NEW o \in Operators, NEW r \in Reports, Release(o, r) \/ Reject(o, r)
    PROVE  BaseInv'
<1>1. TypeOK' /\ Grow /\ ChainsInv'
  BY OperatorPostGrows
<1>2. PICK l \in {"releasing", "rejecting"}, k \in Keys, t \in Transfers \cap [Accounts -> Int] :
        /\ ref[r] \in Clicks /\ Known(r) /\ Held(r) \in Items
        /\ pc[o] = "idle" /\ heldForDecision(r)
        /\ Post(k, t) /\ Goto(o, l, Held(r)) /\ LockEntry(o, r)
        /\ UNCHANGED <<evidence, entries, page, torn, faults>>
        /\ l = "releasing" =>
             k = idempotencyKey(r, r, "pending") /\ t = Moved(r, "held", "pending")
        /\ l = "rejecting" =>
             k = idempotencyKey(r, r, "reversed") /\ t = Moved(r, "held", "receivable")
  BY OperatorPosts
<1>3. UNCHANGED <<status, ref, credit, undone>>
  BY <1>2 DEF evidence, entries
<1>4. pc'[o] = l /\ item'[o] = Held(r) /\ Alone(o) /\ Held(r).credit = r
  BY <1>2 DEF Goto, Alone, Actors, BaseInv, TypeOK, Held
<1>5. posted'[k] = t
  BY <1>2, Posts DEF BaseInv
<1>6. PostingOK(o)'
  <2>1. KeyOf(o)' = k /\ Carried(o)' = t
    BY <1>2, <1>3, <1>4 DEF KeyOf, Carried, Moved, Owner
  <2>2. Known(r)'
    BY <1>2, <1>3 DEF Known
  <2> QED  BY <1>2, <1>3, <1>4, <1>5, <2>1, <2>2 DEF PostingOK
<1>7. lock'[r] = o /\ \A q \in Reports : q # r => lock'[q] = lock[q]
  BY <1>2 DEF LockEntry, BaseInv, TypeOK
<1>8. OperatorOK(o)'
  BY <1>2, <1>3, <1>4, <1>7 DEF OperatorOK, heldForDecision
<1>9. Respects(o)
  <2>1. ASSUME NEW q \in Operators \ {o}, pc[q] # "idle"
        PROVE  lock'[item[q].credit] = lock[item[q].credit]
    <3>1. OperatorOK(q) /\ pc[q] \in Posting
      BY <2>1 DEF BaseInv, ActorsInv, OperatorOK, Posting
    <3>2. item[q].credit \in Reports /\ lock[item[q].credit] = q /\ q # NoOne
      BY <2>1, <3>1, PostingType, CreditingAssumption DEF OperatorOK, Actors
    <3>3. lock[r] = NoOne
      BY <1>2 DEF heldForDecision
    <3> QED  BY <1>7, <3>2, <3>3
  <2> QED  BY <1>3, <2>1 DEF Respects
<1>10. /\ \A q \in Reports \ {} : SameRow(q)
       /\ \A q \in Reports \cap {} : CreditOK(q)' /\ Earned(q)' /\ BackedBy(q)'
       /\ \A q \in Reports : credit'[q] # "none" => IsCredit(q)
  BY <1>3 DEF SameRow, IsCredit
<1> QED  BY <1>1, <1>4, <1>6, <1>8, <1>9, <1>10, OperatorStep

(* A run commits. *)
LEMMA RunCommitStep ==
    ASSUME BaseInv, TypeOK', Grow, ChainsInv', NEW w \in Runs, Alone(w), Respects(w),
           PostingOK(w)', RunOK(w)', ClicksInv', NEW R,
           \A r \in Reports \ R : SameRow(r),
           \A r \in Reports \cap R : CreditOK(r)' /\ Earned(r)' /\ BackedBy(r)'
    PROVE  BaseInv'
<1>1. CreditsInv' /\ ConfirmedIsEarned' /\ Backed'
  BY RowsStep
<1>2. w \notin Operators
  BY CreditingAssumption
<1>3. ActorsInv'
  <2>1. \A y \in Actors \cap {w} : PostingOK(y)'
    OBVIOUS
  <2>2. \A v \in Runs \cap {w} : RunOK(v)'
    OBVIOUS
  <2>3. \A o \in Operators \cap {w} : OperatorOK(o)'
    BY <1>2
  <2> QED  BY <2>1, <2>2, <2>3, ActorsStep DEF Alone, Respects
<1> QED  BY <1>1, <1>3 DEF BaseInv

(* What every commit of a run has in common. *)
LEMMA RunCommits ==
    ASSUME BaseInv, NEW w \in Runs, CommitOpen(w) \/ CommitConfirm(w) \/ CommitReverse(w)
    PROVE  /\ TypeOK' /\ Grow /\ ChainsInv' /\ Alone(w)
           /\ PostingOK(w) /\ RunOK(w) /\ PostingOK(w)' /\ RunOK(w)'
           /\ item[w] \in Items /\ item[w].credit \in Reports /\ item[w].cause \in Reports
           /\ item[w].state \in Stages
           /\ UNCHANGED <<status, ref, covered, posted, lock>>
           /\ pc'[w] # "opening"
<1>1. TypeOK' /\ Grow /\ ChainsInv'
  BY CommitGrows DEF Actors
<1>2. pc[w] \in Posting
  BY DEF CommitOpen, CommitConfirm, CommitReverse, Posting
<1>3. /\ item[w] \in Items /\ item[w].credit \in Reports /\ item[w].cause \in Reports
      /\ item[w].state \in Stages
  BY <1>2, PostingType DEF Actors
<1>4. PostingOK(w) /\ RunOK(w)
  BY DEF BaseInv, ActorsInv, Actors
<1>5. Alone(w) /\ UNCHANGED <<status, ref, covered, posted, lock>>
  BY DEF Alone, Actors, CommitOpen, CommitConfirm, CommitReverse, NextItem, Goto, evidence,
         statement, money, BaseInv, TypeOK
<1>6. /\ page'[w] \subseteq page[w]
      /\ \/ pc[w] = "opening" /\ pc'[w] = "credit"
         \/ pc[w] = "confirming" /\ pc'[w] = "confirm"
         \/ pc[w] = "reversing" /\ pc'[w] = "reverse"
  BY DEF CommitOpen, CommitConfirm, CommitReverse, NextItem, Goto, BaseInv, TypeOK
<1>7. PostingOK(w)'
  BY <1>6 DEF PostingOK, Posting
<1>8. RunOK(w)'
  <2>1. \A j \in page[w] : j \in Items
    BY DEF BaseInv, TypeOK
  <2>2. \A j \in page[w] : /\ ToCredit(j) => ToCredit(j)'
                           /\ ToConfirm(j) => ToConfirm(j)'
                           /\ ToReverse(j) => ToReverse(j)'
    BY <1>1, <2>1, ItemKeeps
  <2> QED  BY <1>4, <1>6, <2>2 DEF RunOK, Opening, Confirming, Reversing
<1> QED  BY <1>1, <1>3, <1>4, <1>5, <1>6, <1>7, <1>8

(* Every operator at work has locked a held credit. *)
LEMMA OperatorHolds ==
    ASSUME BaseInv, NEW o \in Operators, pc[o] # "idle"
    PROVE  /\ pc[o] \in {"releasing", "rejecting"}
           /\ item[o].credit \in Reports /\ lock[item[o].credit] = o /\ o # NoOne
           /\ credit[item[o].credit] = "held" /\ undone[item[o].credit] = NoReport
<1>1. OperatorOK(o) /\ pc[o] \in Posting
  BY DEF BaseInv, ActorsInv, OperatorOK, Posting
<1> QED  BY <1>1, PostingType, CreditingAssumption DEF OperatorOK, Actors

(* The new credit is inserted. *)
LEMMA CommitOpenBase ==
    ASSUME BaseInv, NEW w \in Runs, CommitOpen(w)
    PROVE  BaseInv'
<1> SUFFICES ASSUME NEW r \in Reports, NEW c \in Reports,
                    r = item[w].credit, c = item[w].cause
             PROVE  BaseInv'
  BY RunCommits
<1>1. /\ TypeOK' /\ Grow /\ ChainsInv' /\ Alone(w)
      /\ PostingOK(w) /\ RunOK(w) /\ PostingOK(w)' /\ RunOK(w)'
      /\ r \in Reports /\ pc'[w] # "opening"
      /\ UNCHANGED <<status, ref, covered, posted, lock>>
  BY RunCommits
<1>2. /\ pc[w] = "opening" /\ UNCHANGED undone
      /\ credit' = [credit EXCEPT ![r] = item[w].state]
  BY DEF CommitOpen
<1>3. item[w].state \in {"held", "pending"}
  BY <1>1, <1>2 DEF RunOK
<1>4. credit'[r] = item[w].state /\ \A q \in Reports : q # r => credit'[q] = credit[q]
  BY <1>1, <1>2 DEF BaseInv, TypeOK
<1>5. Known(r) /\ ref[r] \in Clicks /\ posted[openingKey(r, item[w].state)] = Moved(r, "receivable", item[w].state)
  BY <1>1, <1>2 DEF PostingOK, Posting, KeyOf, Carried
<1>6. ~ClickCredited(ref[r])
  BY <1>2 DEF BaseInv, ClicksInv
<1>7. credit[r] = "none" /\ undone[r] = NoReport
  BY <1>1, <1>6 DEF ClickCredited, IsCredit, BaseInv, CreditsInv, CreditOK
<1>8. CreditOK(r)' /\ Earned(r)' /\ BackedBy(r)'
  <2>1. CreditOK(r)'
    BY <1>1, <1>2, <1>5, <1>7 DEF CreditOK, Known
  <2>2. Earned(r)'
    BY <1>3, <1>4 DEF Earned
  <2>3. Opened(r)'
    BY <1>1, <1>3, <1>5 DEF Opened, Moved, Owner, openingKey
  <2>4. BackedBy(r)'
    BY <1>2, <1>3, <1>4, <1>7, <2>3 DEF BackedBy
  <2> QED  BY <2>1, <2>2, <2>4
<1>9. Respects(w)
  BY <1>1, <1>2, <1>4, <1>7, OperatorHolds DEF Respects
<1>10. ClicksInv'
  <2>1. \A q \in Reports : IsCredit(q) => ref[q] # ref[r]
    BY <1>6 DEF ClickCredited
  <2>2. \A q \in Reports : credit'[q] # "none" => IsCredit(q) \/ q = r
    BY <1>4 DEF IsCredit
  <2>3. \A u \in Runs \ {w} : /\ pc'[u] = pc[u] /\ item'[u] = item[u]
                              /\ pc[u] = "opening" => ref[item[u].credit] # ref[r]
    BY <1>1, <1>2 DEF Alone, Actors, BaseInv, ClicksInv
  <2>4. /\ \A p, q \in Reports : IsCredit(p) /\ IsCredit(q) /\ ref[p] = ref[q] => p = q
        /\ \A u \in Runs : pc[u] = "opening" =>
             /\ ~ClickCredited(ref[item[u].credit])
             /\ \A x \in Runs \ {u} : pc[x] = "opening" =>
                  ref[item[x].credit] # ref[item[u].credit]
    BY DEF BaseInv, ClicksInv
  <2>5. \A u \in Runs : pc'[u] = "opening" => u # w
    BY <1>1
  <2> QED  BY <1>1, <2>1, <2>2, <2>3, <2>4, <2>5 DEF ClicksInv, ClickCredited, IsCredit
<1>11. \A q \in Reports \ {r} : SameRow(q)
  BY <1>2, <1>4 DEF SameRow
<1>12. \A q \in Reports \cap {r} : CreditOK(q)' /\ Earned(q)' /\ BackedBy(q)'
  BY <1>8
<1> QED  BY <1>1, <1>9, <1>10, <1>11, <1>12, RunCommitStep

(* The credit becomes confirmed, if it still is what the page saw. *)
LEMMA CommitConfirmBase ==
    ASSUME BaseInv, NEW w \in Runs, CommitConfirm(w)
    PROVE  BaseInv'
<1> SUFFICES ASSUME NEW r \in Reports, NEW c \in Reports,
                    r = item[w].credit, c = item[w].cause
             PROVE  BaseInv'
  BY RunCommits
<1>1. /\ TypeOK' /\ Grow /\ ChainsInv' /\ Alone(w)
      /\ PostingOK(w) /\ RunOK(w) /\ PostingOK(w)' /\ RunOK(w)'
      /\ r \in Reports /\ c \in Reports /\ pc'[w] # "opening"
      /\ UNCHANGED <<status, ref, covered, posted, lock>>
  BY RunCommits
<1>2. /\ pc[w] = "confirming" /\ UNCHANGED undone /\ lock[r] = NoOne
      /\ \/ credit[r] = item[w].state /\ credit' = [credit EXCEPT ![r] = "confirmed"]
         \/ UNCHANGED credit
  BY DEF CommitConfirm
<1>3. ToConfirm(item[w]) /\ r[1] \in covered
  BY <1>1, <1>2 DEF RunOK, Confirming
<1>4. /\ posted[idempotencyKey(r, c, "confirmed")] = Moved(r, "pending", "confirmed")
      /\ Known(r) /\ ref[r] \in Clicks
  BY <1>1, <1>2 DEF PostingOK, Posting, KeyOf, Carried
<1>5. CreditOK(r) /\ BackedBy(r)
  BY <1>1 DEF BaseInv, CreditsInv, Backed, BackedBy, Opened
<1>6. \A q \in Reports : q # r => credit'[q] = credit[q]
  BY <1>2 DEF BaseInv, TypeOK
<1>7. Respects(w)
  BY <1>1, <1>2, <1>6, OperatorHolds DEF Respects
<1>8. ClicksInv'
  <2>1. \A q \in Reports : credit'[q] # "none" => IsCredit(q)
    BY <1>3, <1>6 DEF IsCredit, ToConfirm
  <2>2. \A v \in Runs : pc'[v] = "opening" => pc[v] = "opening" /\ item'[v] = item[v]
    BY <1>1 DEF Alone, Actors
  <2> QED  BY <1>1, <2>1, <2>2, ClicksStep
<1>9. \A q \in Reports \ {r} : SameRow(q)
  BY <1>2, <1>6 DEF SameRow
<1>10. CASE UNCHANGED credit
  <2>1. \A q \in Reports \ {} : SameRow(q)
    BY <1>2, <1>10 DEF SameRow
  <2>2. \A q \in Reports \cap {} : CreditOK(q)' /\ Earned(q)' /\ BackedBy(q)'
    OBVIOUS
  <2> QED  BY <1>1, <1>7, <1>8, <2>1, <2>2, RunCommitStep
<1>11. CASE credit[r] = item[w].state /\ credit' = [credit EXCEPT ![r] = "confirmed"]
  <2>1. credit[r] = "pending" /\ credit'[r] = "confirmed"
    BY <1>1, <1>3, <1>11 DEF ToConfirm, BaseInv, TypeOK
  <2>2. CreditOK(r)'
    BY <1>1, <1>2, <1>4, <1>5, <2>1 DEF CreditOK, Known, IsCredit
  <2>3. Earned(r)'
    <3>1. c[1] = r[1] /\ status[c] = "confirmed" /\ c = <<r[1], c[2]>> /\ c[2] \in 1 .. MaxReports[r[1]]
      BY <1>1, <1>3, ReportShape DEF ToConfirm
    <3>2. c[2] \in Said(r[1])' /\ status'[<<r[1], c[2]>>] = "confirmed"
      BY <1>1, <3>1 DEF Said
    <3> QED  BY <1>1, <1>3, <3>2 DEF Earned
  <2>4. BackedBy(r)'
    <3>1. Opened(r) /\ (undone[r] # NoReport => \E s \in Stages :
            posted[idempotencyKey(r, undone[r], "reversed")] = Moved(r, s, "receivable"))
      BY <1>3, <1>5 DEF BackedBy, ToConfirm
    <3>2. \A s, t : Moved(r, s, t)' = Moved(r, s, t)
      BY <1>1, <1>4, MovedKeeps
    <3>3. Opened(r)'
      BY <1>1, <3>1, <3>2 DEF Opened, openingKey
    <3> QED  BY <1>1, <1>2, <1>4, <3>1, <3>2, <3>3 DEF BackedBy, idempotencyKey
  <2>5. \A q \in Reports \cap {r} : CreditOK(q)' /\ Earned(q)' /\ BackedBy(q)'
    BY <2>2, <2>3, <2>4
  <2> QED  BY <1>1, <1>7, <1>8, <1>9, <2>5, RunCommitStep
<1> QED  BY <1>2, <1>10, <1>11

(* The reversing entry is inserted, if the credit has none. *)
LEMMA CommitReverseBase ==
    ASSUME BaseInv, NEW w \in Runs, CommitReverse(w)
    PROVE  BaseInv'
<1> SUFFICES ASSUME NEW r \in Reports, NEW c \in Reports,
                    r = item[w].credit, c = item[w].cause
             PROVE  BaseInv'
  BY RunCommits
<1>1. /\ TypeOK' /\ Grow /\ ChainsInv' /\ Alone(w)
      /\ PostingOK(w) /\ RunOK(w) /\ PostingOK(w)' /\ RunOK(w)'
      /\ r \in Reports /\ c \in Reports /\ item[w].state \in Stages /\ pc'[w] # "opening"
      /\ UNCHANGED <<status, ref, covered, posted, lock>>
  BY RunCommits
<1>2. /\ pc[w] = "reversing" /\ UNCHANGED credit /\ lock[r] = NoOne
      /\ \/ undone' = [undone EXCEPT ![r] = c]
         \/ UNCHANGED undone
  BY DEF CommitReverse
<1>3. ToReverse(item[w])
  BY <1>1, <1>2 DEF RunOK, Reversing
<1>4. /\ posted[idempotencyKey(r, c, "reversed")] = Moved(r, item[w].state, "receivable")
      /\ Known(r) /\ ref[r] \in Clicks
  BY <1>1, <1>2 DEF PostingOK, Posting, KeyOf, Carried
<1>5. CreditOK(r) /\ BackedBy(r) /\ Earned(r)
  BY <1>1 DEF BaseInv, CreditsInv, Backed, BackedBy, Opened, ConfirmedIsEarned, Earned
<1>6. \A q \in Reports : q # r => undone'[q] = undone[q]
  BY <1>2 DEF BaseInv, TypeOK
<1>7. Respects(w)
  BY <1>1, <1>2, <1>6, OperatorHolds DEF Respects
<1>8. ClicksInv'
  <2>1. \A q \in Reports : credit'[q] # "none" => IsCredit(q)
    BY <1>2 DEF IsCredit
  <2>2. \A v \in Runs : pc'[v] = "opening" => pc[v] = "opening" /\ item'[v] = item[v]
    BY <1>1 DEF Alone, Actors
  <2> QED  BY <1>1, <2>1, <2>2, ClicksStep
<1>9. \A q \in Reports \ {r} : SameRow(q)
  BY <1>2, <1>6 DEF SameRow
<1>10. CASE UNCHANGED undone
  <2>1. \A q \in Reports \ {} : SameRow(q)
    BY <1>2, <1>10 DEF SameRow
  <2>2. \A q \in Reports \cap {} : CreditOK(q)' /\ Earned(q)' /\ BackedBy(q)'
    OBVIOUS
  <2> QED  BY <1>1, <1>7, <1>8, <2>1, <2>2, RunCommitStep
<1>11. CASE undone' = [undone EXCEPT ![r] = c]
  <2>1. undone'[r] = c
    BY <1>1, <1>11 DEF BaseInv, TypeOK
  <2>2. CreditOK(r)'
    BY <1>1, <1>2, <1>3, <1>4, <2>1 DEF CreditOK, Known, IsCredit, ToReverse
  <2>3. Earned(r)'
    BY <1>1, <1>2, <1>5 DEF Earned, Said
  <2>4. BackedBy(r)'
    <3>1. Opened(r) /\ (credit[r] \in {"confirmed", "reserved"} => \E d \in Reports :
            posted[idempotencyKey(r, d, "confirmed")] = Moved(r, "pending", "confirmed"))
      BY <1>3, <1>5 DEF BackedBy, ToReverse
    <3>2. \A s, t : Moved(r, s, t)' = Moved(r, s, t)
      BY <1>1, <1>4, MovedKeeps
    <3>3. Opened(r)'
      BY <1>1, <3>1, <3>2 DEF Opened, openingKey
    <3> QED  BY <1>1, <1>2, <1>4, <2>1, <3>1, <3>2, <3>3 DEF BackedBy, idempotencyKey
  <2>5. \A q \in Reports \cap {r} : CreditOK(q)' /\ Earned(q)' /\ BackedBy(q)'
    BY <2>2, <2>3, <2>4
  <2> QED  BY <1>1, <1>7, <1>8, <1>9, <2>5, RunCommitStep
<1> QED  BY <1>2, <1>10, <1>11

(* An operator's transaction ends. *)
LEMMA OperatorCommitBase ==
    ASSUME BaseInv, NEW o \in Operators, CommitRelease(o) \/ CommitReject(o)
    PROVE  BaseInv'
<1>1. TypeOK' /\ Grow /\ ChainsInv'
  BY CommitGrows DEF Actors
<1>2. pc[o] \in {"releasing", "rejecting"} /\ pc[o] \in Posting
  BY DEF CommitRelease, CommitReject, Posting
<1>3. PICK r \in Reports : /\ r = item[o].credit /\ lock[r] = o
                           /\ credit[r] = "held" /\ undone[r] = NoReport
  BY <1>2, OperatorHolds
<1>4. /\ PostingOK(o) /\ CreditOK(r) /\ BackedBy(r) /\ IsCredit(r)
  BY <1>3 DEF BaseInv, ActorsInv, Actors, CreditsInv, Backed, BackedBy, Opened, IsCredit
<1>5. Known(r) /\ ref[r] \in Clicks /\ posted[KeyOf(o)] = Carried(o)
  BY <1>2, <1>3, <1>4 DEF PostingOK
<1>6. /\ Alone(o) /\ pc'[o] = "idle"
      /\ UNCHANGED <<status, ref, covered, posted>>
      /\ \A q \in Reports : lock'[q] = IF lock[q] = o THEN NoOne ELSE lock[q]
  BY DEF Alone, Actors, CommitRelease, CommitReject, Goto, Unlock, evidence, statement, money,
         BaseInv, TypeOK
<1>7. PostingOK(o)' /\ OperatorOK(o)'
  BY <1>6 DEF PostingOK, OperatorOK, Posting
<1>8. \A q \in Reports : q # r => credit'[q] = credit[q] /\ undone'[q] = undone[q]
  BY <1>3 DEF CommitRelease, CommitReject, BaseInv, TypeOK
<1>9. \/ /\ pc[o] = "releasing" /\ credit'[r] = "pending" /\ undone'[r] = NoReport
      \/ /\ pc[o] = "rejecting" /\ credit'[r] = "held" /\ undone'[r] = r
  BY <1>3 DEF CommitRelease, CommitReject, BaseInv, TypeOK
<1>10. Respects(o)
  <2>1. ASSUME NEW q \in Operators \ {o}, pc[q] # "idle"
        PROVE  item[q].credit \in Reports /\ item[q].credit # r /\ lock[item[q].credit] # o
    BY <1>3, <2>1, OperatorHolds
  <2> QED  BY <1>6, <1>8, <2>1 DEF Respects
<1>11. CreditOK(r)'
  BY <1>4, <1>5, <1>6, <1>9 DEF CreditOK, Known, IsCredit
<1>12. Earned(r)'
  BY <1>9 DEF Earned
<1>13. BackedBy(r)'
  <2>1. \A s, t : Moved(r, s, t)' = Moved(r, s, t)
    BY <1>1, <1>5, MovedKeeps
  <2>2. Opened(r)'
    BY <1>4, <1>6, <2>1 DEF BackedBy, Opened, openingKey
  <2>3. pc[o] = "rejecting" =>
          posted[idempotencyKey(r, r, "reversed")] = Moved(r, "held", "receivable")
    BY <1>3, <1>5 DEF KeyOf, Carried
  <2>4. undone'[r] # NoReport => undone'[r] = r /\
          posted'[idempotencyKey(r, r, "reversed")] = Moved(r, "held", "receivable")'
    BY <1>6, <1>9, <2>1, <2>3
  <2> QED  BY <1>9, <2>2, <2>4 DEF BackedBy, idempotencyKey, Stages
<1>14. /\ \A q \in Reports \ {r} : SameRow(q)
       /\ \A q \in Reports \cap {r} : CreditOK(q)' /\ Earned(q)' /\ BackedBy(q)'
       /\ \A q \in Reports : credit'[q] # "none" => IsCredit(q)
  BY <1>4, <1>8, <1>11, <1>12, <1>13 DEF SameRow, IsCredit
<1> QED  BY <1>1, <1>6, <1>7, <1>10, <1>14, OperatorStep

(* A transaction, a run or a request is lost. *)
LEMMA FaultBase ==
    ASSUME BaseInv, NEW x \in Actors, Crash(x) \/ (x \in Runs /\ ItemFails(x))
    PROVE  BaseInv'
<1>1. TypeOK' /\ Grow /\ ChainsInv'
  BY FaultGrows
<1>2. Alone(x) /\ UNCHANGED <<credit, undone>>
  BY DEF Alone, Actors, Crash, ItemFails, Goto, entries, BaseInv, TypeOK
<1>3. \A q \in Reports : lock[q] # x => lock'[q] = lock[q]
  BY DEF Crash, ItemFails, Unlock, BaseInv, TypeOK
<1>4. Respects(x)
  BY <1>2, <1>3, OperatorHolds DEF Respects
<1>5. /\ \A q \in Reports \ {} : SameRow(q)
      /\ \A q \in Reports \cap {} : CreditOK(q)' /\ Earned(q)' /\ BackedBy(q)'
      /\ \A q \in Reports : credit'[q] # "none" => IsCredit(q)
  BY <1>2 DEF SameRow, IsCredit
<1>6. CASE Crash(x)
  <2>1. pc'[x] = "idle" /\ (x \in Runs => page'[x] = {})
    BY <1>6 DEF Crash, Goto, Actors, BaseInv, TypeOK
  <2>2. PostingOK(x)' /\ (x \in Operators => OperatorOK(x)') /\ (x \in Runs => RunOK(x)')
    BY <2>1 DEF PostingOK, OperatorOK, RunOK, Posting, Opening, Confirming, Reversing
  <2>3. CASE x \in Operators
    BY <1>1, <1>2, <1>4, <1>5, <2>2, <2>3, OperatorStep
  <2>4. CASE x \in Runs
    <3>1. \A v \in Runs : pc'[v] = "opening" => pc[v] = "opening" /\ item'[v] = item[v]
      BY <1>2, <2>1 DEF Alone, Actors
    <3>2. ClicksInv'
      BY <1>1, <1>5, <3>1, ClicksStep
    <3> QED  BY <1>1, <1>2, <1>4, <1>5, <2>2, <2>4, <3>2, RunCommitStep
  <2> QED  BY <2>3, <2>4 DEF Actors
<1>7. CASE x \in Runs /\ ItemFails(x)
  <2>1. /\ page'[x] \subseteq page[x]
        /\ \/ pc[x] = "opening" /\ pc'[x] = "credit"
           \/ pc[x] = "confirming" /\ pc'[x] = "confirm"
           \/ pc[x] = "reversing" /\ pc'[x] = "reverse"
    <3>1. /\ pc[x] \in {"opening", "confirming", "reversing"} /\ pc'[x] = PassOf[pc[x]]
          /\ page'[x] \subseteq page[x]
      BY <1>7 DEF ItemFails, Goto, Actors, BaseInv, TypeOK, PassOf
    <3> QED  BY <3>1 DEF PassOf
  <2>2. PostingOK(x)'
    BY <2>1 DEF PostingOK, Posting
  <2>3. RunOK(x)'
    <3>1. RunOK(x) /\ \A j \in page[x] : j \in Items
      BY <1>7 DEF BaseInv, ActorsInv, TypeOK
    <3>2. \A j \in page[x] : /\ ToCredit(j) => ToCredit(j)'
                             /\ ToConfirm(j) => ToConfirm(j)'
                             /\ ToReverse(j) => ToReverse(j)'
      BY <1>1, <3>1, ItemKeeps
    <3> QED  BY <2>1, <3>1, <3>2 DEF RunOK, Opening, Confirming, Reversing
  <2>4. ClicksInv'
    <3>1. \A v \in Runs : pc'[v] = "opening" => pc[v] = "opening" /\ item'[v] = item[v]
      BY <1>2, <2>1 DEF Alone, Actors
    <3> QED  BY <1>1, <1>5, <3>1, ClicksStep
  <2> QED  BY <1>1, <1>2, <1>4, <1>5, <1>7, <2>2, <2>3, <2>4, RunCommitStep
<1> QED  BY <1>6, <1>7

(* The invariant holds before anything was reported. *)
LEMMA BaseInit == Init => BaseInv
<1> SUFFICES ASSUME Init PROVE BaseInv
  OBVIOUS
<1> USE DEF Init
<1>1. TypeOK
  <2>1. L!LedgerTypeOK
    BY DEF L!LedgerTypeOK, L!LedgerInit
  <2>2. faults \in 0 .. MaxFaults
    BY CreditingAssumption
  <2>3. page \in [Runs -> SUBSET Items] /\ paid \in [Purchases -> Nat]
    OBVIOUS
  <2>4. torn \in BOOLEAN
    BY Zenon
  <2> QED  BY <2>1, <2>2, <2>3, <2>4 DEF TypeOK
<1>2. ChainsInv
  <2>1. ASSUME NEW p \in Purchases PROVE \E k \in 0 .. MaxReports[p] : Said(p) = 1 .. k
    <3>1. Said(p) = {}
      BY ReportShape DEF Said
    <3>2. 0 \in 0 .. MaxReports[p] /\ 1 .. 0 = {}
      BY CreditingAssumption
    <3> QED  BY <3>1, <3>2
  <2> QED  BY <2>1 DEF ChainsInv
<1>3. \A r \in Reports : credit[r] = "none" /\ undone[r] = NoReport
  OBVIOUS
<1>4. CreditsInv /\ ConfirmedIsEarned /\ Backed
  BY <1>3 DEF CreditsInv, CreditOK, ConfirmedIsEarned, Backed, IsCredit
<1>5. /\ \A x \in Actors : pc[x] = "idle"
      /\ \A w \in Runs : page[w] = {}
  BY DEF Actors
<1>6. ActorsInv
  BY <1>5 DEF ActorsInv, Actors, PostingOK, RunOK, OperatorOK, Posting, Opening, Confirming, Reversing
<1>7. ClicksInv
  BY <1>3, <1>5 DEF ClicksInv, IsCredit, Actors
<1> QED  BY <1>1, <1>2, <1>4, <1>6, <1>7 DEF BaseInv

(* A step that changes nothing keeps it. *)
LEMMA BaseStutter == BaseInv /\ UNCHANGED vars => BaseInv'
<1> SUFFICES ASSUME BaseInv, UNCHANGED vars PROVE BaseInv'
  OBVIOUS
<1> USE DEF vars, evidence, statement, entries, money
<1>1. TypeOK'
  BY DEF BaseInv, TypeOK, L!LedgerTypeOK
<1>2. Grow
  BY DEF Grow, IsCredit
<1>3. ChainsInv'
  BY ChainsKeep
<1>4. CreditsInv' /\ ConfirmedIsEarned' /\ Backed'
  <2>1. \A r \in Reports \ {} : SameRow(r)
    BY DEF SameRow
  <2>2. \A r \in Reports \cap {} : CreditOK(r)' /\ Earned(r)' /\ BackedBy(r)'
    OBVIOUS
  <2> QED  BY <1>1, <1>2, <2>1, <2>2, RowsStep
<1>5. ActorsInv'
  <2>1. \A y \in Actors \ {} : /\ pc'[y] = pc[y] /\ item'[y] = item[y]
                               /\ y \in Runs => page'[y] = page[y]
    OBVIOUS
  <2>2. \A o \in Operators \ {} : pc[o] # "idle" =>
          /\ lock'[item[o].credit] = lock[item[o].credit]
          /\ credit'[item[o].credit] = credit[item[o].credit]
          /\ undone'[item[o].credit] = undone[item[o].credit]
    OBVIOUS
  <2>3. /\ \A y \in Actors \cap {} : PostingOK(y)'
        /\ \A v \in Runs \cap {} : RunOK(v)'
        /\ \A o \in Operators \cap {} : OperatorOK(o)'
    OBVIOUS
  <2> QED  BY <1>2, <2>1, <2>2, <2>3, ActorsStep
<1>6. ClicksInv'
  <2>1. \A r \in Reports : credit'[r] # "none" => IsCredit(r)
    BY DEF IsCredit
  <2> QED  BY <1>2, <2>1, ClicksStep
<1> QED  BY <1>1, <1>3, <1>4, <1>5, <1>6 DEF BaseInv

(* Every step of the job, the operators and the world keeps it. *)
LEMMA BaseStep == BaseInv /\ [Next]_vars => BaseInv'
<1> SUFFICES ASSUME BaseInv, [Next]_vars PROVE BaseInv'
  OBVIOUS
<1>1. CASE UNCHANGED vars
  BY <1>1, BaseStutter
<1>2. CASE \/ \E p \in Purchases, s \in {"pending", "confirmed", "declined"} :
                \E k \in Cites[p] : Report(p, s, k)
           \/ \E st \in Statements : ImportStatement(st) \/ DetectDifferences(st)
           \/ \E r \in Reports : Claim(r) \/ GiveBack(r) \/ ResolveDifference(r)
  BY <1>2, OutsideBase
<1>3. ASSUME NEW w \in Runs, Begin(w) \/ Step(w) \/ ItemFails(w) \/ Crash(w)
      PROVE  BaseInv'
  <2>1. CASE ItemFails(w) \/ Crash(w)
    <3>1. w \in Actors
      BY DEF Actors
    <3>2. Crash(w) \/ (w \in Runs /\ ItemFails(w))
      BY <2>1, Zenon
    <3> QED  BY <3>1, <3>2, FaultBase
  <2>2. CASE \/ Begin(w) \/ BeginConfirm(w) \/ BeginReverse(w) \/ EndRun(w)
             \/ \E i \in page[w] : QueueReport(w, i) \/ AlreadyCredited(w, i)
                                     \/ SkipConfirm(w, i) \/ SkipReverse(w, i)
    BY <2>2, PassBase
  <2>3. CASE CommitOpen(w) \/ CommitConfirm(w) \/ CommitReverse(w)
    BY <2>3, CommitOpenBase, CommitConfirmBase, CommitReverseBase
  <2>4. ASSUME NEW i \in page[w],
               Confirm(w, i) \/ Reverse(w, i) \/ \E v \in Evaluate : Open(w, i, v)
        PROVE  BaseInv'
    <3>1. "held" \in Evaluate
      BY DEF Evaluate
    <3> QED  BY <2>4, <3>1, RunPostBase
  <2> QED  BY <1>3, <2>1, <2>2, <2>3, <2>4 DEF Step
<1>4. ASSUME NEW o \in Operators,
             \/ \E r \in Reports : Release(o, r) \/ Reject(o, r)
             \/ CommitRelease(o) \/ CommitReject(o) \/ Crash(o)
      PROVE  BaseInv'
  <2>1. CASE \E r \in Reports : Release(o, r) \/ Reject(o, r)
    BY <2>1, OperatorPostBase
  <2>2. CASE CommitRelease(o) \/ CommitReject(o)
    BY <2>2, OperatorCommitBase
  <2>3. CASE Crash(o)
    <3>1. o \in Actors
      BY DEF Actors
    <3>2. Crash(o) \/ (o \in Runs /\ ItemFails(o))
      BY <2>3, Zenon
    <3> QED  BY <3>1, <3>2, FaultBase
  <2> QED  BY <1>4, <2>1, <2>2, <2>3
<1> QED  BY <1>1, <1>2, <1>3, <1>4 DEF Next

(* It holds throughout. *)
LEMMA Base == Spec => []BaseInv
BY BaseInit, BaseStep, PTL DEF Spec

(* Tables, pages and the ledger keep their types, whatever overlaps and    *)
(* whatever is lost.                                                       *)
THEOREM TypeCorrect == Spec => []TypeOK
<1>1. BaseInv => TypeOK
  BY DEF BaseInv
<1> QED  BY <1>1, Base, PTL

(* FR-043: what a member can withdraw was approved by the network and lies *)
(* in a period a statement covers, although a confirmation is decided from *)
(* a page and committed after its transfer.                                *)
THEOREM ConfirmedIsEarnedHolds == Spec => []ConfirmedIsEarned
<1>1. BaseInv => ConfirmedIsEarned
  BY DEF BaseInv
<1> QED  BY <1>1, Base, PTL

(* D7: no state without its posting, although no rollback undoes one and   *)
(* any transaction may be lost after it.                                   *)
THEOREM BackedHolds == Spec => []Backed
<1>1. BaseInv => Backed
  BY DEF BaseInv
<1> QED  BY <1>1, Base, PTL


------------------------------------------------------------------------------
(* Under the lock.                                                         *)

(* Items of the pass a run is in stay untouched, and no others appear. *)
PageKeeps(w) ==
    /\ page'[w] \subseteq page[w]
    /\ pc'[w] # "idle" => pc[w] # "idle"
    /\ pc'[w] \in Opening => pc[w] \in Opening \/ page'[w] = {}
    /\ pc'[w] \in Confirming => pc[w] \in Confirming \/ page'[w] = {}
    /\ pc'[w] \in Reversing => pc[w] \in Reversing \/ page'[w] = {}
    /\ \A i \in page'[w] :
         /\ pc[w] \in Confirming /\ credit[i.credit] = "pending" => credit'[i.credit] = "pending"
         /\ pc[w] \in Reversing => undone'[i.credit] \in {undone[i.credit], i.credit}

(* What is neither a new credit nor a new page keeps the invariant. *)
LEMMA LockKeeps ==
    ASSUME LockInv, \A w \in Runs : PageKeeps(w),
           \A r \in Reports : credit'[r] # "none" => IsCredit(r)
    PROVE  LockInv'
<1>1. SoloInv'
  BY DEF LockInv, SoloInv, PageKeeps
<1>2. CreditedOnce'
  BY DEF LockInv, CreditedOnce, IsCredit
<1>3. ASSUME NEW w \in Runs, NEW i \in page'[w]
      PROVE  Untouched(w, i)' /\ \A j \in page'[w] : i.credit[1] = j.credit[1] => i = j
  <2>1. PageKeeps(w) /\ i \in page[w] /\ page'[w] \subseteq page[w]
    BY <1>3 DEF PageKeeps
  <2>2. Untouched(w, i) /\ \A j \in page[w] : i.credit[1] = j.credit[1] => i = j
    BY <2>1 DEF LockInv, PagesInv
  <2>3. Untouched(w, i)'
    BY <1>3, <2>1, <2>2 DEF Untouched, PageKeeps, IsCredit
  <2> QED  BY <2>1, <2>2, <2>3
<1>4. PagesInv'
  BY <1>3 DEF PagesInv
<1> QED  BY <1>1, <1>2, <1>4 DEF LockInv

(* A new credit is the only one of its purchase. *)
LEMMA LockCommitOpen ==
    ASSUME BaseInv, LockInv, NEW w \in Runs, CommitOpen(w)
    PROVE  LockInv'
<1> SUFFICES ASSUME NEW r \in Reports, r = item[w].credit PROVE LockInv'
  BY RunCommits
<1>1. /\ Alone(w) /\ pc[w] = "opening" /\ pc'[w] = "credit" /\ undone' = undone
      /\ \A q \in Reports : q # r => credit'[q] = credit[q]
      /\ page'[w] = {j \in page[w] : j.credit # r}
  <2>1. Alone(w)
    BY RunCommits
  <2>2. /\ pc[w] = "opening" /\ pc'[w] = "credit" /\ undone' = undone
        /\ page'[w] = {j \in page[w] : j.credit # r}
    BY DEF CommitOpen, Goto, BaseInv, TypeOK
  <2>3. \A q \in Reports : q # r => credit'[q] = credit[q]
    BY DEF CommitOpen, BaseInv, TypeOK
  <2> QED  BY <2>1, <2>2, <2>3
<1>2. PICK i \in page[w] : i.credit = r
  BY <1>1 DEF BaseInv, ActorsInv, RunOK
<1>3. \A q \in Reports : IsCredit(q) => q[1] # r[1]
  BY <1>1, <1>2 DEF LockInv, PagesInv, Untouched, Opening
<1>4. SoloInv'
  BY <1>1 DEF LockInv, SoloInv, Alone, Actors
<1>5. CreditedOnce'
  BY <1>1, <1>3 DEF LockInv, CreditedOnce, IsCredit
<1>6. ASSUME NEW v \in Runs, NEW j \in page'[v]
      PROVE  Untouched(v, j)' /\ \A k \in page'[v] : j.credit[1] = k.credit[1] => j = k
  <2>1. CASE v = w
    <3>1. j \in page[w] /\ j.credit # r /\ page'[v] \subseteq page[w]
      BY <1>1, <1>6, <2>1
    <3>2. j.credit[1] # r[1]
      BY <1>2, <3>1 DEF LockInv, PagesInv
    <3>3. Untouched(v, j)'
      BY <1>1, <2>1, <3>1, <3>2 DEF LockInv, PagesInv, Untouched, Opening, Confirming,
                                    Reversing, IsCredit
    <3> QED  BY <3>1, <3>3 DEF LockInv, PagesInv
  <2>2. CASE v # w
    <3>1. pc'[v] = "idle" /\ page'[v] = page[v]
      BY <1>1, <2>2 DEF LockInv, SoloInv, Alone, Actors
    <3> QED  BY <1>6, <3>1 DEF LockInv, PagesInv, Untouched, Opening, Confirming, Reversing
  <2> QED  BY <2>1, <2>2
<1>7. PagesInv'
  BY <1>6 DEF PagesInv
<1> QED  BY <1>4, <1>5, <1>7 DEF LockInv

(* A new page: of purchases without a credit, or of credits. *)
LEMMA LockPage ==
    ASSUME Exclusive, BaseInv, LockInv, NEW w \in Runs,
           Begin(w) \/ BeginConfirm(w) \/ BeginReverse(w)
    PROVE  LockInv'
<1>1. /\ Alone(w) /\ credit' = credit /\ undone' = undone
      /\ pc'[w] \in {"credit", "confirm", "reverse"}
      /\ \A v \in Runs \ {w} : pc[v] = "idle"
  BY DEF Begin, BeginConfirm, BeginReverse, Alone, Actors, entries, BaseInv, TypeOK,
         LockInv, SoloInv
<1>2. SoloInv'
  BY <1>1 DEF SoloInv, Alone, Actors
<1>3. CreditedOnce'
  BY <1>1 DEF LockInv, CreditedOnce, IsCredit
<1>4. ASSUME NEW i \in page'[w]
      PROVE  Untouched(w, i)' /\ \A j \in page'[w] : i.credit[1] = j.credit[1] => i = j
  <2>1. CASE Begin(w)
    <3>1. /\ pc'[w] = "credit"
          /\ page'[w] = {[credit |-> r, cause |-> r, state |-> "pending"] :
                           r \in ReportsAwaitingCredit}
      BY <2>1 DEF Begin, BaseInv, TypeOK
    <3>2. \A j \in page'[w] : \E p \in Purchases :
            /\ j = [credit |-> tip(p), cause |-> tip(p), state |-> "pending"]
            /\ \A n \in Said(p) : ~IsCredit(<<p, n>>)
      BY <3>1 DEF ReportsAwaitingCredit
    <3>3. \A p \in Purchases : tip(p)[1] = p
      BY DEF tip
    <3>4. \A j \in page'[w] : i.credit[1] = j.credit[1] => i = j
      BY <1>4, <3>2, <3>3
    <3>5. ASSUME NEW r \in Reports, IsCredit(r) PROVE r[1] # i.credit[1]
      <4>1. r[1] \in Purchases /\ r[2] \in Said(r[1]) /\ r = <<r[1], r[2]>>
        BY <3>5, ReportShape DEF BaseInv, CreditsInv, CreditOK, Known, Said
      <4>2. PICK p \in Purchases : i.credit = tip(p) /\ \A n \in Said(p) : ~IsCredit(<<p, n>>)
        BY <1>4, <3>2
      <4> QED  BY <3>3, <3>5, <4>1, <4>2
    <3>6. Untouched(w, i)'
      BY <1>1, <3>1, <3>5 DEF Untouched, Opening, Confirming, Reversing, IsCredit
    <3> QED  BY <3>4, <3>6
  <2>2. CASE BeginConfirm(w) \/ BeginReverse(w)
    <3>1. PICK S \in {AwaitingConfirmation, AwaitingReversal} : page'[w] = ItemsOf(S)
      BY <2>2 DEF BeginConfirm, BeginReverse, BaseInv, TypeOK
    <3>2. \A r \in S : r \in Reports /\ IsCredit(r)
      BY <3>1 DEF AwaitingConfirmation, AwaitingReversal, IsCredit
    <3>3. \A j \in page'[w] : \E r \in S :
            j = [credit |-> r, cause |-> tip(r[1]), state |-> credit[r]]
      BY <3>1 DEF ItemsOf
    <3>4. \A j \in page'[w] : i.credit[1] = j.credit[1] => i = j
      BY <1>4, <3>2, <3>3 DEF LockInv, CreditedOnce
    <3>5. CASE BeginConfirm(w)
      <4>1. pc'[w] = "confirm" /\ page'[w] = ItemsOf(AwaitingConfirmation)
        BY <3>5 DEF BeginConfirm, BaseInv, TypeOK
      <4>2. credit[i.credit] = "pending"
        BY <1>4, <4>1 DEF ItemsOf, AwaitingConfirmation
      <4> QED  BY <1>1, <3>4, <4>1, <4>2 DEF Untouched, Opening, Confirming, Reversing
    <3>6. CASE BeginReverse(w)
      <4>1. pc'[w] = "reverse" /\ page'[w] = ItemsOf(AwaitingReversal)
        BY <3>6 DEF BeginReverse, BaseInv, TypeOK
      <4>2. undone[i.credit] = NoReport
        BY <1>4, <4>1 DEF ItemsOf, AwaitingReversal
      <4> QED  BY <1>1, <3>4, <4>1, <4>2 DEF Untouched, Opening, Confirming, Reversing
    <3> QED  BY <2>2, <3>5, <3>6
  <2> QED  BY <2>1, <2>2
<1>5. ASSUME NEW v \in Runs \ {w}, NEW i \in page'[v]
      PROVE  Untouched(v, i)' /\ \A j \in page'[v] : i.credit[1] = j.credit[1] => i = j
  <2>1. pc'[v] = "idle" /\ page'[v] = page[v]
    BY <1>1 DEF Alone, Actors
  <2> QED  BY <1>5, <2>1 DEF LockInv, PagesInv, Untouched, Opening, Confirming, Reversing
<1>6. PagesInv'
  BY <1>4, <1>5 DEF PagesInv
<1> QED  BY <1>2, <1>3, <1>6 DEF LockInv

(* Nobody but the run takes from its page: what arrives and what operators *)
(* decide leaves a pending credit pending, and undoes only a held one.     *)
LEMMA OthersKeepPages ==
    ASSUME BaseInv,
           \/ UNCHANGED vars
           \/ \E p \in Purchases, s \in {"pending", "confirmed", "declined"} :
                \E k \in Cites[p] : Report(p, s, k)
           \/ \E st \in Statements : ImportStatement(st) \/ DetectDifferences(st)
           \/ \E r \in Reports : Claim(r) \/ GiveBack(r) \/ ResolveDifference(r)
           \/ \E o \in Operators :
                \/ \E r \in Reports : Release(o, r) \/ Reject(o, r)
                \/ CommitRelease(o) \/ CommitReject(o) \/ Crash(o)
    PROVE  /\ \A w \in Runs : pc'[w] = pc[w] /\ page'[w] = page[w]
           /\ \A r \in Reports : /\ credit'[r] # "none" => IsCredit(r)
                                 /\ credit[r] = "pending" => credit'[r] = "pending"
                                 /\ undone'[r] \in {undone[r], r}
                                 /\ credit[r] # "held" => undone'[r] = undone[r]
<1> DEFINE Pages == \A w \in Runs : pc'[w] = pc[w] /\ page'[w] = page[w]
           Rows == \A r \in Reports : /\ credit'[r] # "none" => IsCredit(r)
                                      /\ credit[r] = "pending" => credit'[r] = "pending"
                                      /\ undone'[r] \in {undone[r], r}
                                      /\ credit[r] # "held" => undone'[r] = undone[r]
<1>1. CASE UNCHANGED vars
  BY <1>1 DEF vars, entries, IsCredit
<1>2. ASSUME NEW p \in Purchases, NEW s \in {"pending", "confirmed", "declined"},
             NEW k \in Cites[p], Report(p, s, k)
      PROVE  Pages /\ Rows
  BY <1>2 DEF Report, entries, IsCredit
<1>3. ASSUME NEW st \in Statements, ImportStatement(st) \/ DetectDifferences(st)
      PROVE  Pages /\ Rows
  BY <1>3 DEF ImportStatement, DetectDifferences, entries, IsCredit
<1>4. ASSUME NEW r \in Reports, Claim(r) \/ GiveBack(r) \/ ResolveDifference(r)
      PROVE  Pages /\ Rows
  <2>1. CASE ResolveDifference(r)
    BY <2>1 DEF ResolveDifference, entries, IsCredit
  <2>2. CASE Claim(r) \/ GiveBack(r)
    <3>1. /\ pc' = pc /\ page' = page /\ undone' = undone
          /\ credit[r] \in {"confirmed", "reserved"}
          /\ \A q \in Reports : q # r => credit'[q] = credit[q]
      BY <2>2 DEF Claim, GiveBack, BaseInv, TypeOK
    <3> QED  BY <3>1 DEF IsCredit
  <2> QED  BY <1>4, <2>1, <2>2
<1>5. ASSUME NEW o \in Operators, NEW r \in Reports, Release(o, r) \/ Reject(o, r)
      PROVE  Pages /\ Rows
  BY <1>5, CreditingAssumption DEF Release, Reject, Decide, Goto, entries, IsCredit, BaseInv, TypeOK
<1>6. ASSUME NEW o \in Operators, CommitRelease(o) \/ CommitReject(o)
      PROVE  Pages /\ Rows
  <2>1. /\ pc[o] \in {"releasing", "rejecting"} /\ o \notin Runs
    BY <1>6, CreditingAssumption DEF CommitRelease, CommitReject
  <2>2. PICK r \in Reports : r = item[o].credit /\ credit[r] = "held"
    BY <2>1, OperatorHolds
  <2>3. Pages
    BY <1>6, <2>1 DEF CommitRelease, CommitReject, Goto, BaseInv, TypeOK
  <2>4. /\ \A q \in Reports : q # r => credit'[q] = credit[q] /\ undone'[q] = undone[q]
        /\ undone'[r] \in {undone[r], r}
    BY <1>6, <2>2 DEF CommitRelease, CommitReject, BaseInv, TypeOK
  <2> QED  BY <2>2, <2>3, <2>4 DEF IsCredit
<1>7. ASSUME NEW o \in Operators, Crash(o)
      PROVE  Pages /\ Rows
  BY <1>7, CreditingAssumption DEF Crash, Goto, entries, IsCredit, BaseInv, TypeOK
<1> QED  BY <1>1, <1>2, <1>3, <1>4, <1>5, <1>6, <1>7

(* A run drops items it is done with, and leaves the others as they were. *)
LEMMA RunKeepsPage ==
    ASSUME BaseInv, LockInv, NEW w \in Runs,
           \/ EndRun(w) \/ CommitConfirm(w) \/ CommitReverse(w) \/ ItemFails(w) \/ Crash(w)
           \/ \E i \in page[w] :
                \/ QueueReport(w, i) \/ AlreadyCredited(w, i)
                \/ SkipConfirm(w, i) \/ SkipReverse(w, i)
                \/ Confirm(w, i) \/ Reverse(w, i) \/ \E v \in Evaluate : Open(w, i, v)
    PROVE  /\ \A v \in Runs : PageKeeps(v)
           /\ \A r \in Reports : credit'[r] # "none" => IsCredit(r)
<1> USE DEF BaseInv, TypeOK
<1>1. pc[w] # "idle" /\ Alone(w)
  <2>1. CASE \/ EndRun(w) \/ CommitConfirm(w) \/ CommitReverse(w) \/ ItemFails(w) \/ Crash(w)
    BY <2>1 DEF EndRun, CommitConfirm, CommitReverse, ItemFails, Crash, NextItem, Goto, Alone, Actors, PassOf
  <2>2. ASSUME NEW i \in page[w],
               \/ QueueReport(w, i) \/ AlreadyCredited(w, i)
               \/ SkipConfirm(w, i) \/ SkipReverse(w, i)
        PROVE  pc[w] # "idle" /\ Alone(w)
    BY <2>2 DEF QueueReport, AlreadyCredited, SkipConfirm, SkipReverse, NextItem, Goto, Alone, Actors
  <2>3. ASSUME NEW i \in page[w],
               Confirm(w, i) \/ Reverse(w, i) \/ \E v \in Evaluate : Open(w, i, v)
        PROVE  pc[w] # "idle" /\ Alone(w)
    BY <2>3 DEF Confirm, Reverse, Open, Goto, Alone, Actors
  <2> QED  BY <2>1, <2>2, <2>3
<1>2. ASSUME NEW v \in Runs, v # w PROVE PageKeeps(v)
  <2>1. pc[v] = "idle" /\ pc'[v] = "idle" /\ page'[v] = page[v]
    BY <1>1, <1>2 DEF LockInv, SoloInv, Alone, Actors
  <2> QED  BY <2>1 DEF PageKeeps, Opening, Confirming, Reversing
<1>3. ASSUME credit' = credit, undone' = undone, page'[w] \subseteq page[w],
             \/ pc'[w] = "idle"
             \/ pc[w] \in Opening /\ pc'[w] \in Opening
             \/ pc[w] \in Confirming /\ pc'[w] \in Confirming
             \/ pc[w] \in Reversing /\ pc'[w] \in Reversing
      PROVE  PageKeeps(w) /\ \A r \in Reports : credit'[r] # "none" => IsCredit(r)
  BY <1>1, <1>3 DEF PageKeeps, IsCredit, Opening, Confirming, Reversing
<1>4. CASE EndRun(w) \/ Crash(w)
  BY <1>2, <1>3, <1>4 DEF EndRun, Crash, Goto, entries
<1>5. CASE ItemFails(w)
  <2>1. /\ credit' = credit /\ undone' = undone /\ page'[w] \subseteq page[w]
        /\ pc[w] \in {"opening", "confirming", "reversing"} /\ pc'[w] = PassOf[pc[w]]
    BY <1>5 DEF ItemFails, Goto, entries, PassOf
  <2> QED  BY <1>2, <1>3, <2>1 DEF PassOf, Opening, Confirming, Reversing
<1>6. ASSUME NEW i \in page[w],
             \/ QueueReport(w, i) \/ AlreadyCredited(w, i)
             \/ SkipConfirm(w, i) \/ SkipReverse(w, i)
      PROVE  PageKeeps(w) /\ \A r \in Reports : credit'[r] # "none" => IsCredit(r)
  BY <1>3, <1>6 DEF QueueReport, AlreadyCredited, SkipConfirm, SkipReverse, NextItem, Goto, entries,
                    Opening, Confirming, Reversing
<1>7. ASSUME NEW i \in page[w],
             Confirm(w, i) \/ Reverse(w, i) \/ \E v \in Evaluate : Open(w, i, v)
      PROVE  PageKeeps(w) /\ \A r \in Reports : credit'[r] # "none" => IsCredit(r)
  BY <1>3, <1>7 DEF Confirm, Reverse, Open, Goto, entries, Opening, Confirming, Reversing
<1>8. CASE CommitConfirm(w) \/ CommitReverse(w)
  <2> SUFFICES ASSUME NEW r \in Reports, r = item[w].credit
               PROVE  PageKeeps(w) /\ \A q \in Reports : credit'[q] # "none" => IsCredit(q)
    BY <1>2, <1>8, RunCommits
  <2>1. /\ page'[w] = page[w] \ {item[w]} /\ item[w] \in page[w]
        /\ \/ pc[w] = "confirming" /\ pc'[w] = "confirm"
           \/ pc[w] = "reversing" /\ pc'[w] = "reverse"
    BY <1>8 DEF CommitConfirm, CommitReverse, NextItem, Goto, ActorsInv, RunOK
  <2>2. \A q \in Reports : q # r => credit'[q] = credit[q] /\ undone'[q] = undone[q]
    BY <1>8 DEF CommitConfirm, CommitReverse
  <2>3. \A j \in page'[w] : j.credit \in Reports /\ j.credit # r
    BY <2>1 DEF LockInv, PagesInv, Items
  <2>4. \A q \in Reports : credit'[q] # "none" => IsCredit(q)
    <3>1. IsCredit(r) /\ (pc[w] \in {"confirming", "reversing"})
      BY <2>1 DEF ActorsInv, RunOK, ToConfirm, ToReverse, Confirming, Reversing
    <3> QED  BY <2>2, <3>1 DEF IsCredit
  <2> QED  BY <1>1, <2>1, <2>2, <2>3, <2>4 DEF PageKeeps, Opening, Confirming, Reversing
<1> QED  BY <1>2, <1>4, <1>5, <1>6, <1>7, <1>8

(* Before anything was reported. *)
LEMMA LockInit == Init => LockInv
BY DEF Init, LockInv, SoloInv, CreditedOnce, PagesInv, IsCredit

(* Every step keeps the invariant, as long as the lock holds. *)
LEMMA LockStep ==
    ASSUME Exclusive, BaseInv, LockInv, [Next]_vars
    PROVE  LockInv'
<1>1. CASE \/ UNCHANGED vars
           \/ \E p \in Purchases, s \in {"pending", "confirmed", "declined"} :
                \E k \in Cites[p] : Report(p, s, k)
           \/ \E st \in Statements : ImportStatement(st) \/ DetectDifferences(st)
           \/ \E r \in Reports : Claim(r) \/ GiveBack(r) \/ ResolveDifference(r)
           \/ \E o \in Operators :
                \/ \E r \in Reports : Release(o, r) \/ Reject(o, r)
                \/ CommitRelease(o) \/ CommitReject(o) \/ Crash(o)
  <2>1. /\ \A w \in Runs : pc'[w] = pc[w] /\ page'[w] = page[w]
        /\ \A r \in Reports : /\ credit'[r] # "none" => IsCredit(r)
                              /\ credit[r] = "pending" => credit'[r] = "pending"
                              /\ undone'[r] \in {undone[r], r}
    BY <1>1, OthersKeepPages
  <2>2. \A w \in Runs : \A i \in page[w] : i.credit \in Reports
    BY DEF BaseInv, TypeOK, Items
  <2>3. \A w \in Runs : PageKeeps(w)
    BY <2>1, <2>2 DEF PageKeeps
  <2> QED  BY <2>1, <2>3, LockKeeps
<1>2. ASSUME NEW w \in Runs, Begin(w) \/ Step(w) \/ ItemFails(w) \/ Crash(w)
      PROVE  LockInv'
  <2>1. CASE Begin(w) \/ BeginConfirm(w) \/ BeginReverse(w)
    BY <2>1, LockPage
  <2>2. CASE CommitOpen(w)
    BY <2>2, LockCommitOpen
  <2>3. CASE \/ EndRun(w) \/ CommitConfirm(w) \/ CommitReverse(w) \/ ItemFails(w) \/ Crash(w)
             \/ \E i \in page[w] :
                  \/ QueueReport(w, i) \/ AlreadyCredited(w, i)
                  \/ SkipConfirm(w, i) \/ SkipReverse(w, i)
                  \/ Confirm(w, i) \/ Reverse(w, i) \/ \E v \in Evaluate : Open(w, i, v)
    BY <2>3, RunKeepsPage, LockKeeps
  <2> QED  BY <1>2, <2>1, <2>2, <2>3 DEF Step
<1> QED  BY <1>1, <1>2 DEF Next

(* No purchase is credited twice: under the lock no two reports of it are  *)
(* credited, and without it no two that name one click.                    *)
THEOREM OneCreditPerPurchaseHolds == Spec => []OneCreditPerPurchase
<1>1. \A p \in Purchases : \A n \in Said(p) : <<p, n>> \in Reports
  BY ReportShape DEF Said
<1>2. CASE Exclusive
  <2>1. BaseInv /\ LockInv /\ [Next]_vars => LockInv'
    BY <1>2, LockStep
  <2>2. LockInv => OneCreditPerPurchase
    BY <1>1 DEF LockInv, CreditedOnce, OneCreditPerPurchase
  <2> QED  BY <2>1, <2>2, LockInit, Base, PTL DEF Spec
<1>3. CASE ~Exclusive
  <2>1. BaseInv => OneCreditPerPurchase
    BY <1>1, <1>3 DEF BaseInv, ClicksInv, OneCreditPerPurchase
  <2> QED  BY <2>1, Base, PTL
<1> QED  BY <1>2, <1>3

------------------------------------------------------------------------------
(* The books.                                                              *)

(* The accounts of members are accounts, and a transfer between stages     *)
(* moves an amount from the one to the other.                              *)
LEMMA MovedAt ==
    ASSUME NEW r \in Reports, NEW s \in Stages \cup {"receivable"},
           NEW t \in Stages \cup {"receivable"}, s # t, NEW a \in Members \X Stages
    PROVE  /\ a \in Accounts
           /\ Moved(r, s, t)[a] = (IF Owner(r) = a[1] /\ t = a[2] THEN AmountOf[r] ELSE 0)
                                - (IF Owner(r) = a[1] /\ s = a[2] THEN AmountOf[r] ELSE 0)
<1>1. a \in Accounts /\ AmountOf[r] \in Nat /\ a[2] \in Stages /\ a = <<a[1], a[2]>>
  BY CreditingAssumption DEF Accounts
<1>2. \A u \in Stages \cup {"receivable"} :
        a = Side(Owner(r), u) <=> Owner(r) = a[1] /\ u = a[2]
  BY <1>1 DEF Side, House, Stages
<1>3. Moved(r, s, t)[a] = IF a = Side(Owner(r), t) THEN AmountOf[r]
                          ELSE IF a = Side(Owner(r), s) THEN -AmountOf[r] ELSE 0
  BY <1>1 DEF Moved, Move
<1> QED  BY <1>1, <1>2, <1>3

(* What is due and what is moving are amounts. *)
LEMMA AmountsInt ==
    ASSUME BaseInv, NEW a \in Members \X Stages
    PROVE  /\ \A r \in Reports : Due(r, a) \in Int
           /\ \A x \in Actors : Moving(x, a) \in Int
           /\ DueTotal(a) \in Int /\ MovingTotal(a) \in Int
           /\ balance[a] \in Int
<1>1. \A r \in Reports : Due(r, a) \in Int
  BY CreditingAssumption DEF Due
<1>2. \A x \in Actors : Moving(x, a) \in Int
  <2>1. a \in Accounts
    BY DEF Accounts
  <2> QED  BY <2>1, PostingType DEF Moving
<1>3. DueTotal(a) \in Int
  BY <1>1, ReportsFinite, SumInt DEF DueTotal
<1>4. MovingTotal(a) \in Int
  BY <1>2, CreditingAssumption, SumInt DEF MovingTotal, Actors
<1>5. balance[a] \in Int
  BY DEF BaseInv, TypeOK, L!LedgerTypeOK, L!Accounts
<1> QED  BY <1>1, <1>2, <1>3, <1>4, <1>5

(* A row that does not change is due what it was. *)
LEMMA DueKeeps ==
    ASSUME BaseInv, Grow, NEW r \in Reports, credit'[r] = credit[r], undone'[r] = undone[r]
    PROVE  \A a : Due(r, a)' = Due(r, a)
<1>1. IsCredit(r) => Owner(r)' = Owner(r)
  BY DEF BaseInv, CreditsInv, CreditOK, Grow, Owner
<1> QED  BY <1>1 DEF Due, Stands, IsCredit

(* And an actor that does not move carries what it did. *)
LEMMA MovingKeeps ==
    ASSUME BaseInv, Grow, NEW x \in Actors, pc'[x] = pc[x], item'[x] = item[x]
    PROVE  KeyOf(x)' = KeyOf(x) /\ \A a : Moving(x, a)' = Moving(x, a)
<1>1. pc[x] \in Posting => \A s, t : Moved(item[x].credit, s, t)' = Moved(item[x].credit, s, t)
  BY PostingType, MovedKeeps DEF BaseInv, ActorsInv, PostingOK
<1>2. pc[x] \in Posting => Carried(x)' = Carried(x)
  BY <1>1 DEF Carried, Posting
<1>3. KeyOf(x)' = KeyOf(x)
  BY DEF KeyOf, openingKey, idempotencyKey
<1> QED  BY <1>2, <1>3 DEF Moving

(* Where one row changes, the total changes by as much. *)
LEMMA DueMoves ==
    ASSUME BaseInv, Grow, NEW a \in Members \X Stages, NEW r \in Reports,
           \A q \in Reports : q # r => credit'[q] = credit[q] /\ undone'[q] = undone[q]
    PROVE  DueTotal(a)' = DueTotal(a) + (Due(r, a)' - Due(r, a))
<1> SUFFICES ASSUME NEW f, f = [q \in Reports |-> Due(q, a)],
                    NEW g, g = [q \in Reports |-> Due(q, a)']
             PROVE  Sum(g, Reports) = Sum(f, Reports) + (g[r] - f[r])
  BY DEF DueTotal
<1>1. \A q \in Reports : f[q] \in Int
  BY AmountsInt
<1>2. \A q \in Reports : g[q] \in Int
  BY CreditingAssumption DEF Due
<1>3. \A q \in Reports : q # r => f[q] = g[q]
  BY DueKeeps
<1> QED  BY <1>1, <1>2, <1>3, ReportsFinite, SumChange

(* Where none does, it stays. *)
LEMMA DueSame ==
    ASSUME BaseInv, Grow, NEW a \in Members \X Stages,
           \A q \in Reports : credit'[q] = credit[q] /\ undone'[q] = undone[q]
    PROVE  DueTotal(a)' = DueTotal(a)
<1> SUFFICES ASSUME NEW f, f = [q \in Reports |-> Due(q, a)],
                    NEW g, g = [q \in Reports |-> Due(q, a)']
             PROVE  Sum(f, Reports) = Sum(g, Reports)
  BY DEF DueTotal
<1>1. \A q \in Reports : f[q] = g[q]
  BY DueKeeps
<1> QED  BY <1>1, ReportsFinite, SumSame

(* One actor moves. *)
LEMMA MovingMoves ==
    ASSUME BaseInv, Grow, NEW a \in Members \X Stages, NEW x \in Actors, Alone(x),
           Moving(x, a)' \in Int
    PROVE  MovingTotal(a)' = MovingTotal(a) + (Moving(x, a)' - Moving(x, a))
<1> SUFFICES ASSUME NEW f, f = [y \in Actors |-> Moving(y, a)],
                    NEW g, g = [y \in Actors |-> Moving(y, a)']
             PROVE  Sum(g, Actors) = Sum(f, Actors) + (g[x] - f[x])
  BY DEF MovingTotal
<1>1. \A y \in Actors : f[y] \in Int
  BY AmountsInt
<1>2. \A y \in Actors : y # x => f[y] = g[y]
  BY MovingKeeps DEF Alone
<1>3. g[x] \in Int
  OBVIOUS
<1>4. \A y \in Actors : g[y] \in Int
  BY <1>1, <1>2, <1>3
<1>5. IsFiniteSet(Actors)
  BY CreditingAssumption DEF Actors
<1> QED  BY <1>1, <1>2, <1>4, <1>5, SumChange

(* Nobody moves. *)
LEMMA MovingSame ==
    ASSUME BaseInv, Grow, NEW a \in Members \X Stages,
           \A y \in Actors : Moving(y, a)' = Moving(y, a)
    PROVE  MovingTotal(a)' = MovingTotal(a)
<1> SUFFICES ASSUME NEW f, f = [y \in Actors |-> Moving(y, a)],
                    NEW g, g = [y \in Actors |-> Moving(y, a)']
             PROVE  Sum(f, Actors) = Sum(g, Actors)
  BY DEF MovingTotal
<1>1. \A y \in Actors : f[y] = g[y]
  OBVIOUS
<1>2. IsFiniteSet(Actors)
  BY CreditingAssumption DEF Actors
<1> QED  BY <1>1, <1>2, SumSame

(* Rows go one way: opened, released, confirmed, undone. *)
Onward(r) ==
    /\ credit[r] \in {"confirmed", "reserved"} => credit'[r] \in {"confirmed", "reserved"}
    /\ credit[r] \notin {"none", "held"} => credit'[r] \notin {"none", "held"}
    /\ undone[r] # NoReport => undone'[r] = undone[r]

(* So what a row shows it goes on showing; a transfer that is new, or that *)
(* its actor lets go of, is shown too.                                     *)
LEMMA KeysStep ==
    ASSUME BaseInv, KeysInv, Grow, \A r \in Reports : Onward(r), NEW x, Alone(x),
           \A k \in Keys : posted'[k] # NoTransfer =>
             posted[k] # NoTransfer \/ (x \in Actors /\ pc'[x] \in Posting /\ KeyOf(x)' = k),
           \A k \in Keys : x \in Actors /\ pc[x] \in Posting /\ KeyOf(x) = k => Settled(k)'
    PROVE  KeysInv'
<1> SUFFICES ASSUME NEW k \in Keys, posted'[k] # NoTransfer
             PROVE  Settled(k)' \/ \E y \in Actors : pc'[y] \in Posting /\ KeyOf(y)' = k
  BY DEF KeysInv
<1>1. CASE posted[k] = NoTransfer
  BY <1>1
<1>2. CASE Settled(k)
  <2>1. \A r \in Reports : undone[r] \in Reports => undone'[r] = undone[r]
    BY CreditingAssumption DEF Onward
  <2>2. Settled(k)'
    BY <1>2, <2>1 DEF Settled, Onward, Grow, IsCredit
  <2> QED  BY <2>2
<1>3. ASSUME NEW y \in Actors, pc[y] \in Posting, KeyOf(y) = k
      PROVE  Settled(k)' \/ (pc'[y] \in Posting /\ KeyOf(y)' = k)
  <2>1. CASE y = x
    BY <1>3, <2>1
  <2>2. CASE y # x
    <3>1. pc'[y] = pc[y] /\ item'[y] = item[y]
      BY <2>2 DEF Alone
    <3> QED  BY <1>3, <3>1, MovingKeeps
  <2> QED  BY <2>1, <2>2
<1> QED  BY <1>1, <1>2, <1>3 DEF KeysInv

(* Nothing is posted and nothing recorded. *)
LEMMA BooksStill ==
    ASSUME BaseInv, Books, Grow, NEW x, Alone(x), UNCHANGED <<credit, undone, balance, posted>>,
           x \in Actors => pc[x] \notin Posting /\ pc'[x] \notin Posting
    PROVE  Books'
<1>1. ClaimsStand'
  BY DEF Books, ClaimsStand
<1>2. KeysInv'
  <2>1. \A r \in Reports : Onward(r)
    BY DEF Onward
  <2> QED  BY <2>1, KeysStep DEF Books
<1>3. \A y \in Actors : \A a : Moving(y, a)' = Moving(y, a)
  <2>1. ASSUME NEW y \in Actors PROVE \A a : Moving(y, a)' = Moving(y, a)
    <3>1. CASE y = x
      BY <3>1 DEF Moving
    <3>2. CASE y # x
      BY <3>2, MovingKeeps DEF Alone
    <3> QED  BY <3>1, <3>2
  <2> QED  BY <2>1
<1>4. ASSUME NEW a \in Members \X Stages PROVE balance'[a] = DueTotal(a)' + MovingTotal(a)'
  <2>1. DueTotal(a)' = DueTotal(a)
    BY DueSame
  <2>2. MovingTotal(a)' = MovingTotal(a)
    BY <1>3, MovingSame
  <2> QED  BY <2>1, <2>2 DEF Books, Balanced
<1>5. Balanced'
  BY <1>4 DEF Balanced
<1> QED  BY <1>1, <1>2, <1>5 DEF Books

(* A transfer is posted under a key that is new. *)
LEMMA BooksPost ==
    ASSUME BaseInv, Books, Grow, NEW x \in Actors, Alone(x), UNCHANGED <<credit, undone>>,
           pc[x] \notin Posting, pc'[x] \in Posting, NEW k \in Keys, KeyOf(x)' = k,
           \A j \in Keys : j # k => posted'[j] = posted[j],
           \A a \in Members \X Stages : Carried(x)'[a] \in Int /\
                                        balance'[a] = balance[a] + Carried(x)'[a]
    PROVE  Books'
<1>1. ClaimsStand'
  BY DEF Books, ClaimsStand
<1>2. KeysInv'
  <2>1. \A r \in Reports : Onward(r)
    BY DEF Onward
  <2>2. /\ \A j \in Keys : posted'[j] # NoTransfer =>
             posted[j] # NoTransfer \/ (x \in Actors /\ pc'[x] \in Posting /\ KeyOf(x)' = j)
        /\ \A j \in Keys : x \in Actors /\ pc[x] \in Posting /\ KeyOf(x) = j => Settled(j)'
    OBVIOUS
  <2> QED  BY <2>1, <2>2, KeysStep DEF Books
<1>3. ASSUME NEW a \in Members \X Stages PROVE balance'[a] = DueTotal(a)' + MovingTotal(a)'
  <2>1. DueTotal(a)' = DueTotal(a)
    BY DueSame
  <2>2. Moving(x, a) = 0 /\ Moving(x, a)' = Carried(x)'[a] /\ Moving(x, a)' \in Int
    BY DEF Moving
  <2>3. MovingTotal(a)' = MovingTotal(a) + (Moving(x, a)' - Moving(x, a))
    BY <2>2, MovingMoves
  <2>4. /\ balance[a] = DueTotal(a) + MovingTotal(a)
        /\ balance'[a] = balance[a] + Moving(x, a)'
        /\ DueTotal(a) \in Int /\ MovingTotal(a) \in Int
    BY <2>2, AmountsInt DEF Books, Balanced
  <2> QED  BY <2>1, <2>2, <2>3, <2>4
<1>4. Balanced'
  BY <1>3 DEF Balanced
<1> QED  BY <1>1, <1>2, <1>4 DEF Books

(* A transfer's row is written. *)
LEMMA BooksCommit ==
    ASSUME BaseInv, Books, Grow, NEW x \in Actors, Alone(x), UNCHANGED <<balance, posted>>,
           pc[x] \in Posting, pc'[x] \notin Posting, NEW r \in Reports, Onward(r),
           \A q \in Reports : q # r => credit'[q] = credit[q] /\ undone'[q] = undone[q],
           credit'[r] = "reserved" => undone'[r] = NoReport,
           \A k \in Keys : KeyOf(x) = k => Settled(k)',
           \A a \in Members \X Stages : Due(r, a)' = Due(r, a) + Carried(x)[a]
    PROVE  Books'
<1>1. ClaimsStand'
  BY DEF Books, ClaimsStand
<1>2. KeysInv'
  <2>1. \A q \in Reports : Onward(q)
    BY DEF Onward
  <2> QED  BY <2>1, KeysStep DEF Books
<1>3. ASSUME NEW a \in Members \X Stages PROVE balance'[a] = DueTotal(a)' + MovingTotal(a)'
  <2>1. DueTotal(a)' = DueTotal(a) + (Due(r, a)' - Due(r, a))
    BY DueMoves
  <2>2. Moving(x, a) = Carried(x)[a] /\ Moving(x, a)' = 0
    BY DEF Moving
  <2>3. MovingTotal(a)' = MovingTotal(a) + (Moving(x, a)' - Moving(x, a))
    BY <2>2, MovingMoves
  <2>4. /\ balance[a] = DueTotal(a) + MovingTotal(a) /\ balance'[a] = balance[a]
        /\ DueTotal(a) \in Int /\ MovingTotal(a) \in Int
        /\ Due(r, a) \in Int /\ Moving(x, a) \in Int
        /\ Due(r, a)' = Due(r, a) + Moving(x, a)
    BY <2>2, AmountsInt DEF Books, Balanced
  <2> QED  BY <2>1, <2>2, <2>3, <2>4
<1>4. Balanced'
  BY <1>3 DEF Balanced
<1> QED  BY <1>1, <1>2, <1>4 DEF Books

(* Evidence and pages are not money. *)
LEMMA BooksEvidence ==
    ASSUME BaseInv, Books,
           \/ UNCHANGED vars
           \/ \E p \in Purchases, s \in {"pending", "confirmed", "declined"} :
                \E k \in Cites[p] : Report(p, s, k)
           \/ \E st \in Statements : ImportStatement(st) \/ DetectDifferences(st)
           \/ \E r \in Reports : ResolveDifference(r)
    PROVE  Books'
<1>1. /\ UNCHANGED <<credit, undone, balance, posted>>
      /\ pc' = pc /\ item' = item /\ page' = page
  <2>1. CASE UNCHANGED vars
    BY <2>1 DEF vars, entries, money
  <2>2. ASSUME NEW p \in Purchases, NEW s \in {"pending", "confirmed", "declined"},
               NEW k \in Cites[p], Report(p, s, k)
        PROVE  /\ UNCHANGED <<credit, undone, balance, posted>>
               /\ pc' = pc /\ item' = item /\ page' = page
    BY <2>2 DEF Report, entries, money
  <2>3. ASSUME NEW st \in Statements, ImportStatement(st) \/ DetectDifferences(st)
        PROVE  /\ UNCHANGED <<credit, undone, balance, posted>>
               /\ pc' = pc /\ item' = item /\ page' = page
    BY <2>3 DEF ImportStatement, DetectDifferences, entries, money
  <2>4. ASSUME NEW r \in Reports, ResolveDifference(r)
        PROVE  /\ UNCHANGED <<credit, undone, balance, posted>>
               /\ pc' = pc /\ item' = item /\ page' = page
    BY <2>4 DEF ResolveDifference, entries, money
  <2> QED  BY <2>1, <2>2, <2>3, <2>4
<1>2. Grow
  <2>1. CASE UNCHANGED vars
    BY <2>1 DEF vars, evidence, statement, entries, money, Grow, IsCredit
  <2>2. CASE \E p \in Purchases, s \in {"pending", "confirmed", "declined"} :
               \E k \in Cites[p] : Report(p, s, k)
    BY <2>2, ReportGrows
  <2>3. CASE \/ \E st \in Statements : ImportStatement(st) \/ DetectDifferences(st)
             \/ \E r \in Reports : ResolveDifference(r)
    BY <2>3, OutsideGrows
  <2> QED  BY <2>1, <2>2, <2>3
<1>3. Alone(NoOne) /\ NoOne \notin Actors
  BY <1>1, CreditingAssumption DEF Alone, Actors
<1> QED  BY <1>1, <1>2, <1>3, BooksStill

(* A withdrawal takes a confirmed credit out of its stage, or puts it      *)
(* back, as one.                                                           *)
LEMMA BooksClaim ==
    ASSUME BaseInv, Books, NEW r \in Reports, Claim(r) \/ GiveBack(r)
    PROVE  Books'
<1>1. Grow
  BY OutsideGrows
<1>2. PICK s \in {"confirmed", "reserved"}, t \in {"confirmed", "reserved"} :
        /\ s # t /\ credit[r] = s /\ credit'[r] = t /\ undone[r] = NoReport
        /\ \A q \in Reports : q # r => credit'[q] = credit[q]
        /\ \A a \in Accounts : balance'[a] = balance[a] + Moved(r, s, t)[a]
  <2>1. CASE Claim(r)
    BY <2>1 DEF Claim, BaseInv, TypeOK
  <2>2. CASE GiveBack(r)
    BY <2>2 DEF GiveBack, BaseInv, TypeOK, Books, ClaimsStand
  <2> QED  BY <2>1, <2>2
<1>3. /\ undone' = undone /\ posted' = posted /\ pc' = pc /\ item' = item /\ page' = page
  BY DEF Claim, GiveBack
<1>4. Alone(NoOne) /\ NoOne \notin Actors
  BY <1>3, CreditingAssumption DEF Alone, Actors
<1>5. ClaimsStand'
  BY <1>2, <1>3 DEF Books, ClaimsStand
<1>6. KeysInv'
  <2>1. \A q \in Reports : Onward(q)
    BY <1>2, <1>3 DEF Onward
  <2> QED  BY <1>1, <1>3, <1>4, <2>1, KeysStep DEF Books
<1>7. ASSUME NEW a \in Members \X Stages PROVE balance'[a] = DueTotal(a)' + MovingTotal(a)'
  <2>1. DueTotal(a)' = DueTotal(a) + (Due(r, a)' - Due(r, a))
    BY <1>1, <1>2, <1>3, DueMoves
  <2>2. MovingTotal(a)' = MovingTotal(a)
    BY <1>1, <1>3, MovingKeeps, MovingSame
  <2>3. /\ a \in Accounts
        /\ Moved(r, s, t)[a] = (IF Owner(r) = a[1] /\ t = a[2] THEN AmountOf[r] ELSE 0)
                             - (IF Owner(r) = a[1] /\ s = a[2] THEN AmountOf[r] ELSE 0)
    BY <1>2, MovedAt DEF Stages
  <2>4. Owner(r)' = Owner(r) /\ Stands(r) /\ Stands(r)'
    BY <1>1, <1>2, <1>3 DEF BaseInv, CreditsInv, CreditOK, Grow, Owner, Stands, IsCredit
  <2>5. /\ Due(r, a) = (IF Owner(r) = a[1] /\ s = a[2] THEN AmountOf[r] ELSE 0)
        /\ Due(r, a)' = (IF Owner(r) = a[1] /\ t = a[2] THEN AmountOf[r] ELSE 0)
    BY <1>2, <2>4 DEF Due
  <2>6. /\ balance'[a] = balance[a] + (Due(r, a)' - Due(r, a))
        /\ Due(r, a) \in Int /\ Due(r, a)' \in Int
    BY <1>2, <2>3, <2>5, CreditingAssumption
  <2>7. balance[a] = DueTotal(a) + MovingTotal(a) /\ DueTotal(a) \in Int /\ MovingTotal(a) \in Int
    BY AmountsInt DEF Books, Balanced
  <2> QED  BY <2>1, <2>2, <2>6, <2>7
<1>8. Balanced'
  BY <1>7 DEF Balanced
<1> QED  BY <1>5, <1>6, <1>8 DEF Books

(* Steps of a run between transactions. *)
LEMMA BooksPass ==
    ASSUME BaseInv, Books, NEW w \in Runs,
           \/ Begin(w) \/ BeginConfirm(w) \/ BeginReverse(w) \/ EndRun(w)
           \/ \E i \in page[w] : QueueReport(w, i) \/ AlreadyCredited(w, i)
                                   \/ SkipConfirm(w, i) \/ SkipReverse(w, i)
    PROVE  Books'
<1>1. Grow
  BY PassGrows
<1>2. Alone(w) /\ w \in Actors /\ pc[w] \notin Posting /\ pc'[w] \notin Posting
      /\ UNCHANGED <<credit, undone, balance, posted>>
  <2>1. CASE Begin(w) \/ BeginConfirm(w) \/ BeginReverse(w) \/ EndRun(w)
    BY <2>1 DEF Begin, BeginConfirm, BeginReverse, EndRun, Alone, Actors, Posting, entries, money,
                BaseInv, TypeOK
  <2>2. ASSUME NEW i \in page[w], \/ QueueReport(w, i) \/ AlreadyCredited(w, i)
                                  \/ SkipConfirm(w, i) \/ SkipReverse(w, i)
        PROVE  Alone(w) /\ w \in Actors /\ pc[w] \notin Posting /\ pc'[w] \notin Posting
               /\ UNCHANGED <<credit, undone, balance, posted>>
    BY <2>2 DEF QueueReport, AlreadyCredited, SkipConfirm, SkipReverse, NextItem, Goto, Alone,
                Actors, Posting, entries, money, BaseInv, TypeOK
  <2> QED  BY <2>1, <2>2
<1> QED  BY <1>1, <1>2, BooksStill

(* An actor that dies with nothing posted. *)
LEMMA BooksCrash ==
    ASSUME BaseInv, Books, NEW x \in Actors, Crash(x), pc[x] \notin Posting
    PROVE  Books'
<1>1. Grow
  BY FaultGrows
<1>2. Alone(x) /\ pc'[x] \notin Posting /\ UNCHANGED <<credit, undone, balance, posted>>
  BY DEF Crash, Goto, Alone, Actors, Posting, entries, money, BaseInv, TypeOK
<1> QED  BY <1>1, <1>2, BooksStill

(* What a key in flight says of the actor that posted it. *)
LEMMA Flights ==
    ASSUME BaseInv, NEW x \in Actors, pc[x] \in Posting, NEW r \in Reports, NEW c \in Reports
    PROVE  /\ \A s : KeyOf(x) = openingKey(r, s) =>
                x \in Runs /\ pc[x] = "opening" /\ item[x].credit = r
           /\ KeyOf(x) = idempotencyKey(r, c, "confirmed") => x \in Runs /\ pc[x] = "confirming"
           /\ KeyOf(x) = idempotencyKey(r, c, "pending") =>
                x \in Operators /\ pc[x] = "releasing" /\ item[x].credit = r
           /\ KeyOf(x) = idempotencyKey(r, c, "reversed") =>
                /\ item[x].credit = r
                /\ \/ x \in Runs /\ pc[x] = "reversing" /\ item[x].cause = c
                   \/ x \in Operators /\ pc[x] = "rejecting" /\ c = r
<1>1. item[x].credit \in Reports /\ item[x].cause \in Reports
  BY PostingType
<1>2. /\ x \in Runs => pc[x] \in {"opening", "confirming", "reversing"}
      /\ x \in Operators => pc[x] \in {"releasing", "rejecting"}
  BY DEF BaseInv, ActorsInv, RunOK, OperatorOK, Posting, Opening, Confirming, Reversing
<1>3. x \in Runs \/ x \in Operators
  BY DEF Actors
<1>4. CASE pc[x] = "opening"
  <2>1. KeyOf(x) = openingKey(item[x].credit, item[x].state) /\ x \in Runs
    BY <1>2, <1>3, <1>4 DEF KeyOf
  <2> QED  BY <1>1, <1>4, <2>1, KeyShape
<1>5. CASE pc[x] = "confirming"
  <2>1. KeyOf(x) = idempotencyKey(item[x].credit, item[x].cause, "confirmed") /\ x \in Runs
    BY <1>2, <1>3, <1>5 DEF KeyOf
  <2> QED  BY <1>1, <1>5, <2>1, KeyShape
<1>6. CASE pc[x] = "reversing"
  <2>1. KeyOf(x) = idempotencyKey(item[x].credit, item[x].cause, "reversed") /\ x \in Runs
    BY <1>2, <1>3, <1>6 DEF KeyOf
  <2> QED  BY <1>1, <1>6, <2>1, KeyShape
<1>7. CASE pc[x] = "releasing"
  <2>1. KeyOf(x) = idempotencyKey(item[x].credit, item[x].credit, "pending") /\ x \in Operators
    BY <1>2, <1>3, <1>7 DEF KeyOf
  <2> QED  BY <1>1, <1>7, <2>1, KeyShape
<1>8. CASE pc[x] = "rejecting"
  <2>1. KeyOf(x) = idempotencyKey(item[x].credit, item[x].credit, "reversed") /\ x \in Operators
    BY <1>2, <1>3, <1>8 DEF KeyOf
  <2> QED  BY <1>1, <1>8, <2>1, KeyShape
<1> QED  BY <1>4, <1>5, <1>6, <1>7, <1>8 DEF Posting

(* A run posts nothing twice: not an opening, ... *)
LEMMA OpenIsNew ==
    ASSUME BaseInv, Books, NEW w \in Runs, NEW i \in page[w], NEW v \in Evaluate, Open(w, i, v)
    PROVE  posted[openingKey(i.credit, v)] = NoTransfer
<1> SUFFICES ASSUME NEW r \in Reports, r = i.credit, posted[openingKey(r, v)] # NoTransfer
             PROVE  FALSE
  BY DEF BaseInv, TypeOK, Items
<1>1. pc[w] = "credit" /\ ~InsertWaits(w, r) /\ ~ClickCredited(ref[r])
  BY DEF Open
<1>2. openingKey(r, v) \in Keys
  BY KeyShape DEF Evaluate
<1>3. CASE Settled(openingKey(r, v))
  BY <1>1, <1>3 DEF Settled, Evaluate, ClickCredited
<1>4. ASSUME NEW x \in Actors, pc[x] \in Posting, KeyOf(x) = openingKey(r, v)
      PROVE  FALSE
  BY <1>1, <1>4, Flights DEF InsertWaits
<1> QED  BY <1>2, <1>3, <1>4 DEF Books, KeysInv

(* ... not a confirmation, ... *)
LEMMA ConfirmIsNew ==
    ASSUME BaseInv, LockInv, Books, NEW w \in Runs, NEW i \in page[w], Confirm(w, i)
    PROVE  posted[idempotencyKey(i.credit, i.cause, "confirmed")] = NoTransfer
<1> SUFFICES ASSUME NEW r \in Reports, r = i.credit, NEW c \in Reports, c = i.cause,
                    posted[idempotencyKey(r, c, "confirmed")] # NoTransfer
             PROVE  FALSE
  BY DEF BaseInv, TypeOK, Items
<1>1. pc[w] = "confirm" /\ credit[r] = "pending"
  BY DEF Confirm, LockInv, PagesInv, Untouched, Confirming
<1>2. idempotencyKey(r, c, "confirmed") \in Keys
  BY KeyShape
<1>3. CASE Settled(idempotencyKey(r, c, "confirmed"))
  BY <1>1, <1>3 DEF Settled
<1>4. ASSUME NEW x \in Actors, pc[x] \in Posting, KeyOf(x) = idempotencyKey(r, c, "confirmed")
      PROVE  FALSE
  BY <1>1, <1>4, Flights DEF LockInv, SoloInv
<1> QED  BY <1>2, <1>3, <1>4 DEF Books, KeysInv

(* ... and not a reversal. *)
LEMMA ReverseIsNew ==
    ASSUME BaseInv, LockInv, Books, NEW w \in Runs, NEW i \in page[w], Reverse(w, i)
    PROVE  posted[idempotencyKey(i.credit, i.cause, "reversed")] = NoTransfer
<1> SUFFICES ASSUME NEW r \in Reports, r = i.credit, NEW c \in Reports, c = i.cause,
                    posted[idempotencyKey(r, c, "reversed")] # NoTransfer
             PROVE  FALSE
  BY DEF BaseInv, TypeOK, Items
<1>1. pc[w] = "reverse" /\ undone[r] \in {NoReport, r}
  BY DEF Reverse, LockInv, PagesInv, Untouched, Reversing
<1>2. c # r
  <2>1. c[2] > r[2] /\ r[2] \in Nat
    BY <1>1, ReportShape, CreditingAssumption DEF BaseInv, ActorsInv, RunOK, ToReverse, Reversing
  <2> QED  BY <2>1
<1>3. idempotencyKey(r, c, "reversed") \in Keys
  BY KeyShape
<1>4. CASE Settled(idempotencyKey(r, c, "reversed"))
  BY <1>1, <1>2, <1>4, CreditingAssumption DEF Settled
<1>5. ASSUME NEW x \in Actors, pc[x] \in Posting, KeyOf(x) = idempotencyKey(r, c, "reversed")
      PROVE  FALSE
  BY <1>1, <1>2, <1>5, Flights DEF LockInv, SoloInv
<1> QED  BY <1>3, <1>4, <1>5 DEF Books, KeysInv

(* Nor does an operator, whose row lock no one shares. *)
LEMMA DecisionIsNew ==
    ASSUME BaseInv, Books, NEW r \in Reports, heldForDecision(r)
    PROVE  /\ posted[idempotencyKey(r, r, "pending")] = NoTransfer
           /\ posted[idempotencyKey(r, r, "reversed")] = NoTransfer
<1>1. lock[r] = NoOne /\ credit[r] = "held" /\ undone[r] = NoReport
  BY DEF heldForDecision
<1>2. idempotencyKey(r, r, "pending") \in Keys /\ idempotencyKey(r, r, "reversed") \in Keys
  BY KeyShape
<1>3. ASSUME NEW x \in Operators, pc[x] # "idle" PROVE item[x].credit # r
  BY <1>1, <1>3, OperatorHolds
<1>4. ASSUME NEW x \in Runs, pc[x] = "reversing" PROVE item[x].cause # item[x].credit
  <2>1. item[x] \in page[x] /\ ToReverse(item[x]) /\ item[x].credit \in Reports
    BY <1>4 DEF BaseInv, ActorsInv, RunOK, Reversing, TypeOK, Items
  <2>2. item[x].cause[2] > item[x].credit[2] /\ item[x].credit[2] \in Nat
    BY <2>1, ReportShape, CreditingAssumption DEF ToReverse
  <2> QED  BY <2>2
<1>5. ASSUME NEW x \in Actors, pc[x] \in Posting,
             \/ KeyOf(x) = idempotencyKey(r, r, "pending")
             \/ KeyOf(x) = idempotencyKey(r, r, "reversed")
      PROVE  FALSE
  BY <1>3, <1>4, <1>5, Flights
<1>6. ~Settled(idempotencyKey(r, r, "pending")) /\ ~Settled(idempotencyKey(r, r, "reversed"))
  BY <1>1, CreditingAssumption DEF Settled
<1> QED  BY <1>2, <1>5, <1>6 DEF Books, KeysInv

(* So a run's posting moves the money once, ahead of its row. *)
LEMMA BooksRunPost ==
    ASSUME BaseInv, LockInv, Books, NEW w \in Runs, NEW i \in page[w], NEW v \in Evaluate,
           Open(w, i, v) \/ Confirm(w, i) \/ Reverse(w, i)
    PROVE  Books'
<1>1. Grow
  BY RunPostGrows
<1> SUFFICES ASSUME NEW r \in Reports, r = i.credit, NEW c \in Reports, c = i.cause
             PROVE  Books'
  BY DEF BaseInv, TypeOK, Items
<1>2. /\ Alone(w) /\ w \in Actors /\ UNCHANGED <<credit, undone>> /\ pc[w] \notin Posting
  BY DEF Open, Confirm, Reverse, Goto, Alone, Actors, Posting, entries, BaseInv, TypeOK
<1>3. Known(r) /\ ref[r] \in Clicks /\ \A s, t : Moved(r, s, t)' = Moved(r, s, t)
  BY <1>1, RunPosts, MovedKeeps
<1>4. ASSUME NEW k \in Keys, NEW s \in Stages \cup {"receivable"},
             NEW t \in Stages \cup {"receivable"}, s # t,
             Post(k, Moved(r, s, t)), posted[k] = NoTransfer,
             pc'[w] \in Posting, KeyOf(w)' = k, Carried(w)' = Moved(r, s, t)
      PROVE  Books'
  <2>1. Moved(r, s, t) \in Transfers /\ Moved(r, s, t) \in [Accounts -> Int]
    BY <1>3, MoveType DEF BaseInv
  <2>2. /\ \A j \in Keys : j # k => posted'[j] = posted[j]
        /\ \A a \in Accounts : balance'[a] = balance[a] + Moved(r, s, t)[a]
    BY <1>4, <2>1, Posts DEF BaseInv
  <2>3. \A a \in Members \X Stages : Carried(w)'[a] \in Int /\
                                     balance'[a] = balance[a] + Carried(w)'[a]
    BY <1>4, <2>1, <2>2 DEF Accounts
  <2> QED  BY <1>1, <1>2, <1>4, <2>2, <2>3, BooksPost
<1>5. CASE Open(w, i, v)
  <2>1. /\ pc'[w] = "opening" /\ item'[w] = [i EXCEPT !.state = v]
        /\ Post(openingKey(r, v), Moved(r, "receivable", v)) /\ v \in {"held", "pending"}
    BY <1>5 DEF Open, Goto, Evaluate, BaseInv, TypeOK
  <2>2. item'[w].credit = r /\ item'[w].state = v
    BY <2>1 DEF BaseInv, TypeOK, Items
  <2>3. /\ KeyOf(w)' = openingKey(r, v) /\ Carried(w)' = Moved(r, "receivable", v)
        /\ pc'[w] \in Posting
    BY <1>3, <2>1, <2>2 DEF KeyOf, Carried, openingKey, Posting
  <2>4. posted[openingKey(r, v)] = NoTransfer
    BY <1>5, OpenIsNew
  <2> QED  BY <1>4, <2>1, <2>3, <2>4, KeyShape DEF Stages
<1>6. CASE Confirm(w, i)
  <2>1. /\ pc'[w] = "confirming" /\ item'[w] = i /\ i.state = "pending"
        /\ Post(idempotencyKey(r, c, "confirmed"), Moved(r, "pending", "confirmed"))
    BY <1>6 DEF Confirm, Goto, BaseInv, TypeOK, ActorsInv, RunOK, ToConfirm, Confirming
  <2>2. /\ KeyOf(w)' = idempotencyKey(r, c, "confirmed")
        /\ Carried(w)' = Moved(r, "pending", "confirmed") /\ pc'[w] \in Posting
    BY <1>3, <2>1 DEF KeyOf, Carried, idempotencyKey, Posting
  <2>3. posted[idempotencyKey(r, c, "confirmed")] = NoTransfer
    BY <1>6, ConfirmIsNew
  <2> QED  BY <1>4, <2>1, <2>2, <2>3, KeyShape DEF Stages
<1>7. CASE Reverse(w, i)
  <2>1. /\ pc'[w] = "reversing" /\ item'[w] = i /\ i.state \in Stages
        /\ Post(idempotencyKey(r, c, "reversed"), Moved(r, i.state, "receivable"))
    BY <1>7 DEF Reverse, ReversalTransfer, Goto, BaseInv, TypeOK, Items
  <2>2. /\ KeyOf(w)' = idempotencyKey(r, c, "reversed")
        /\ Carried(w)' = Moved(r, i.state, "receivable") /\ pc'[w] \in Posting
    BY <1>3, <2>1 DEF KeyOf, Carried, idempotencyKey, Posting
  <2>3. posted[idempotencyKey(r, c, "reversed")] = NoTransfer
    BY <1>7, ReverseIsNew
  <2> QED  BY <1>4, <2>1, <2>2, <2>3, KeyShape DEF Stages
<1> QED  BY <1>5, <1>6, <1>7

(* And so does an operator's. *)
LEMMA BooksOperatorPost ==
    ASSUME BaseInv, Books, NEW o \in Operators, NEW r \in Reports, Release(o, r) \/ Reject(o, r)
    PROVE  Books'
<1>1. Grow
  BY OperatorPostGrows
<1>2. Known(r) /\ ref[r] \in Clicks /\ heldForDecision(r) /\ pc[o] = "idle"
  BY OperatorPosts
<1>3. \A s, t : Moved(r, s, t)' = Moved(r, s, t)
  BY <1>1, <1>2, MovedKeeps
<1>4. PICK t \in {"pending", "receivable"}, l \in {"pending", "reversed"} :
        /\ Post(idempotencyKey(r, r, l), Moved(r, "held", t))
        /\ \/ l = "pending" /\ t = "pending" /\ pc'[o] = "releasing"
           \/ l = "reversed" /\ t = "receivable" /\ pc'[o] = "rejecting"
  BY DEF Release, Reject, Decide, Goto, BaseInv, TypeOK
<1>5. /\ Alone(o) /\ o \in Actors /\ UNCHANGED <<credit, undone>> /\ item'[o] = Held(r)
      /\ pc[o] \notin Posting /\ pc'[o] \in Posting
  BY <1>2, <1>4 DEF Release, Reject, Decide, Goto, Alone, Actors, Posting, entries, BaseInv, TypeOK
<1>6. KeyOf(o)' = idempotencyKey(r, r, l) /\ Carried(o)' = Moved(r, "held", t)
  BY <1>3, <1>4, <1>5 DEF KeyOf, Carried, Held, idempotencyKey
<1>7. posted[idempotencyKey(r, r, l)] = NoTransfer /\ idempotencyKey(r, r, l) \in Keys
  BY <1>2, DecisionIsNew, KeyShape
<1>8. Moved(r, "held", t) \in Transfers /\ Moved(r, "held", t) \in [Accounts -> Int]
  BY <1>2, MoveType DEF BaseInv, Stages
<1>9. /\ \A j \in Keys : j # idempotencyKey(r, r, l) => posted'[j] = posted[j]
      /\ \A a \in Accounts : balance'[a] = balance[a] + Moved(r, "held", t)[a]
  BY <1>4, <1>7, <1>8, Posts DEF BaseInv
<1>10. \A a \in Members \X Stages : Carried(o)'[a] \in Int /\
                                    balance'[a] = balance[a] + Carried(o)'[a]
  BY <1>6, <1>8, <1>9 DEF Accounts
<1> QED  BY <1>1, <1>5, <1>6, <1>7, <1>9, <1>10, BooksPost

(* A row that goes where its transfer went is due what was moved. *)
LEMMA DueFollows ==
    ASSUME BaseInv, Grow, NEW r \in Reports, Known(r),
           NEW s \in Stages \cup {"receivable"}, NEW t \in Stages \cup {"receivable"}, s # t,
           IF s = "receivable" THEN ~Stands(r) ELSE Stands(r) /\ credit[r] = s,
           IF t = "receivable" THEN ~Stands(r)' ELSE Stands(r)' /\ credit'[r] = t
    PROVE  \A a \in Members \X Stages : Due(r, a)' = Due(r, a) + Moved(r, s, t)[a]
<1> SUFFICES ASSUME NEW a \in Members \X Stages
             PROVE  Due(r, a)' = Due(r, a) + Moved(r, s, t)[a]
  OBVIOUS
<1>1. a[2] # "receivable" /\ AmountOf[r] \in Nat
  BY CreditingAssumption DEF Stages
<1>2. Owner(r)' = Owner(r)
  BY DEF Grow, Owner
<1>3. Due(r, a) = IF Owner(r) = a[1] /\ s = a[2] THEN AmountOf[r] ELSE 0
  BY <1>1 DEF Due
<1>4. Due(r, a)' = IF Owner(r) = a[1] /\ t = a[2] THEN AmountOf[r] ELSE 0
  BY <1>1, <1>2 DEF Due
<1>5. Moved(r, s, t)[a] = (IF Owner(r) = a[1] /\ t = a[2] THEN AmountOf[r] ELSE 0)
                        - (IF Owner(r) = a[1] /\ s = a[2] THEN AmountOf[r] ELSE 0)
  BY MovedAt
<1> QED  BY <1>1, <1>3, <1>4, <1>5

(* The entry of an opening is inserted. *)
LEMMA BooksOpened ==
    ASSUME BaseInv, LockInv, Books, NEW w \in Runs, CommitOpen(w)
    PROVE  Books'
<1> SUFFICES ASSUME NEW r \in Reports, r = item[w].credit, NEW s \in Stages, s = item[w].state
             PROVE  Books'
  BY RunCommits
<1>1. Grow /\ Alone(w) /\ posted' = posted
  BY RunCommits
<1>2. /\ pc[w] = "opening" /\ pc[w] \in Posting /\ pc'[w] \notin Posting /\ w \in Actors
      /\ balance' = balance /\ undone' = undone
  BY DEF CommitOpen, Goto, money, Actors, Posting, BaseInv, TypeOK
<1>3. credit'[r] = s /\ \A q \in Reports : q # r => credit'[q] = credit[q]
  BY DEF CommitOpen, BaseInv, TypeOK
<1>4. Known(r) /\ s \in {"held", "pending"}
  BY <1>2 DEF BaseInv, ActorsInv, PostingOK, Actors, RunOK
<1>5. credit[r] = "none" /\ undone[r] = NoReport
  <2>1. PICK i \in page[w] : i.credit = r
    BY <1>2 DEF BaseInv, ActorsInv, RunOK
  <2>2. ~IsCredit(r)
    BY <1>2, <2>1 DEF LockInv, PagesInv, Untouched, Opening
  <2> QED  BY <2>2 DEF IsCredit, BaseInv, CreditsInv, CreditOK
<1>6. KeyOf(w) = openingKey(r, s) /\ Carried(w) = Moved(r, "receivable", s)
  BY <1>2 DEF KeyOf, Carried
<1>7. \A a \in Members \X Stages : Due(r, a)' = Due(r, a) + Carried(w)[a]
  BY <1>1, <1>2, <1>3, <1>4, <1>5, <1>6, DueFollows DEF Stands, IsCredit, Stages
<1>8. \A k \in Keys : KeyOf(w) = k => Settled(k)'
  <2>1. \A q \in Reports : \A t : openingKey(r, s) = openingKey(q, t) => q = r
    BY KeyShape
  <2>2. \A q, c \in Reports : \A t : openingKey(r, s) # idempotencyKey(q, c, t)
    BY KeyShape
  <2>3. IsCredit(r)'
    BY <1>3, <1>4 DEF IsCredit
  <2>4. Settled(openingKey(r, s))'
    BY <2>1, <2>2, <2>3 DEF Settled, openingKey
  <2> QED  BY <1>6, <2>4
<1>9. Onward(r)
  BY <1>2, <1>5 DEF Onward
<1> QED  BY <1>1, <1>2, <1>3, <1>4, <1>7, <1>8, <1>9, BooksCommit

(* A confirmation is recorded: its credit is pending, and stands. *)
LEMMA BooksConfirmed ==
    ASSUME BaseInv, LockInv, StandsInv, Books, NEW w \in Runs, CommitConfirm(w)
    PROVE  Books'
<1> SUFFICES ASSUME NEW r \in Reports, r = item[w].credit, NEW c \in Reports, c = item[w].cause
             PROVE  Books'
  BY RunCommits
<1>1. Grow /\ Alone(w) /\ posted' = posted
  BY RunCommits
<1>2. /\ pc[w] = "confirming" /\ pc[w] \in Posting /\ pc'[w] \notin Posting /\ w \in Actors
      /\ balance' = balance /\ undone' = undone
  BY DEF CommitConfirm, NextItem, Goto, money, Actors, Posting, BaseInv, TypeOK
<1>3. item[w] \in page[w] /\ item[w].state = "pending" /\ Known(r)
  BY <1>2 DEF BaseInv, ActorsInv, PostingOK, Actors, RunOK, ToConfirm, Confirming
<1>4. credit[r] = "pending" /\ undone[r] = NoReport
  BY <1>2, <1>3 DEF LockInv, PagesInv, Untouched, Confirming, StandsInv
<1>5. credit'[r] = "confirmed" /\ \A q \in Reports : q # r => credit'[q] = credit[q]
  BY <1>3, <1>4 DEF CommitConfirm, BaseInv, TypeOK
<1>6. KeyOf(w) = idempotencyKey(r, c, "confirmed") /\ Carried(w) = Moved(r, "pending", "confirmed")
  BY <1>2 DEF KeyOf, Carried
<1>7. \A a \in Members \X Stages : Due(r, a)' = Due(r, a) + Carried(w)[a]
  BY <1>1, <1>2, <1>3, <1>4, <1>5, <1>6, DueFollows DEF Stands, IsCredit, Stages
<1>8. \A k \in Keys : KeyOf(w) = k => Settled(k)'
  BY <1>5, <1>6, KeyShape DEF Settled
<1>9. Onward(r)
  BY <1>2, <1>4, <1>5 DEF Onward
<1> QED  BY <1>1, <1>2, <1>4, <1>5, <1>7, <1>8, <1>9, BooksCommit

(* A reversal is recorded, of a credit that is where the page saw it. *)
LEMMA BooksReversed ==
    ASSUME BaseInv, Books, NEW w \in Runs, CommitReverse(w), ~torn'
    PROVE  Books'
<1> SUFFICES ASSUME NEW r \in Reports, r = item[w].credit, NEW c \in Reports, c = item[w].cause,
                    NEW s \in Stages, s = item[w].state
             PROVE  Books'
  BY RunCommits
<1>1. Grow /\ Alone(w) /\ posted' = posted
  BY RunCommits
<1>2. /\ pc[w] = "reversing" /\ pc[w] \in Posting /\ pc'[w] \notin Posting /\ w \in Actors
      /\ balance' = balance /\ credit' = credit
  BY DEF CommitReverse, NextItem, Goto, money, Actors, Posting, BaseInv, TypeOK
<1>3. item[w] \in page[w] /\ s \in {"held", "pending", "confirmed"} /\ IsCredit(r) /\ Known(r)
  BY <1>2 DEF BaseInv, ActorsInv, PostingOK, Actors, RunOK, ToReverse, Reversing
<1>4. undone' # undone /\ credit[r] = s
  <2>1. torn' = (torn \/ undone' = undone \/ credit[r] # s)
    BY DEF CommitReverse
  <2> QED  BY <2>1
<1>5. undone[r] = NoReport /\ undone' = [undone EXCEPT ![r] = c]
  BY <1>4 DEF CommitReverse
<1>6. undone'[r] = c /\ c # NoReport /\ \A q \in Reports : q # r => undone'[q] = undone[q]
  BY <1>5, CreditingAssumption DEF BaseInv, TypeOK
<1>7. KeyOf(w) = idempotencyKey(r, c, "reversed") /\ Carried(w) = Moved(r, s, "receivable")
  BY <1>2 DEF KeyOf, Carried
<1>8. \A a \in Members \X Stages : Due(r, a)' = Due(r, a) + Carried(w)[a]
  BY <1>1, <1>3, <1>4, <1>5, <1>6, <1>7, DueFollows DEF Stands, Stages
<1>9. \A k \in Keys : KeyOf(w) = k => Settled(k)'
  BY <1>6, <1>7, KeyShape DEF Settled
<1>10. Onward(r)
  BY <1>2, <1>5 DEF Onward
<1> QED  BY <1>1, <1>2, <1>3, <1>4, <1>6, <1>8, <1>9, <1>10, BooksCommit

(* An operator's decision is recorded, of a row it has locked. *)
LEMMA BooksDecided ==
    ASSUME BaseInv, Books, NEW o \in Operators, CommitRelease(o) \/ CommitReject(o)
    PROVE  Books'
<1>1. Grow /\ o \in Actors
  BY CommitGrows DEF Actors
<1>2. pc[o] \in {"releasing", "rejecting"} /\ pc[o] \in Posting /\ pc'[o] \notin Posting
  BY DEF CommitRelease, CommitReject, Goto, Posting, BaseInv, TypeOK
<1>3. PICK r \in Reports : /\ r = item[o].credit /\ credit[r] = "held" /\ undone[r] = NoReport
  BY <1>2, OperatorHolds
<1>4. Alone(o) /\ balance' = balance /\ posted' = posted
  BY DEF CommitRelease, CommitReject, Goto, money, Alone, Actors, BaseInv, TypeOK
<1>5. Known(r)
  BY <1>1, <1>2, <1>3 DEF BaseInv, ActorsInv, PostingOK
<1>6. \A q \in Reports : q # r => credit'[q] = credit[q] /\ undone'[q] = undone[q]
  BY <1>3 DEF CommitRelease, CommitReject, BaseInv, TypeOK
<1>7. CASE CommitRelease(o)
  <2>1. pc[o] = "releasing" /\ credit'[r] = "pending" /\ undone'[r] = NoReport
    BY <1>3, <1>7 DEF CommitRelease, BaseInv, TypeOK
  <2>2. KeyOf(o) = idempotencyKey(r, r, "pending") /\ Carried(o) = Moved(r, "held", "pending")
    BY <1>3, <2>1 DEF KeyOf, Carried
  <2>3. \A a \in Members \X Stages : Due(r, a)' = Due(r, a) + Carried(o)[a]
    BY <1>1, <1>3, <1>5, <2>1, <2>2, DueFollows DEF Stands, IsCredit, Stages
  <2>4. \A k \in Keys : KeyOf(o) = k => Settled(k)'
    BY <2>1, <2>2, KeyShape DEF Settled
  <2>5. Onward(r)
    BY <1>3, <2>1 DEF Onward
  <2> QED  BY <1>1, <1>2, <1>4, <1>6, <2>1, <2>3, <2>4, <2>5, BooksCommit
<1>8. CASE CommitReject(o)
  <2>1. pc[o] = "rejecting" /\ credit'[r] = "held" /\ undone'[r] = r
    BY <1>3, <1>8 DEF CommitReject, BaseInv, TypeOK
  <2>2. KeyOf(o) = idempotencyKey(r, r, "reversed") /\ Carried(o) = Moved(r, "held", "receivable")
    BY <1>3, <2>1 DEF KeyOf, Carried
  <2>3. \A a \in Members \X Stages : Due(r, a)' = Due(r, a) + Carried(o)[a]
    BY <1>1, <1>3, <1>5, <2>1, <2>2, DueFollows, CreditingAssumption DEF Stands, IsCredit, Stages
  <2>4. \A k \in Keys : KeyOf(o) = k => Settled(k)'
    BY <2>1, <2>2, KeyShape DEF Settled
  <2>5. Onward(r)
    BY <1>3, <2>1 DEF Onward
  <2> QED  BY <1>1, <1>2, <1>4, <1>6, <2>1, <2>3, <2>4, <2>5, BooksCommit
<1> QED  BY <1>7, <1>8

(* With two reports of a purchase at most, one that undid a pending credit *)
(* is the last word on it.                                                 *)
LEMMA PendingStands ==
    ASSUME ReportedTwice, BaseInv, NEW r \in AwaitingConfirmation
    PROVE  undone[r] = NoReport
<1> SUFFICES ASSUME undone[r] # NoReport PROVE FALSE
  OBVIOUS
<1>1. r \in Reports /\ credit[r] = "pending" /\ status[tip(r[1])] = "confirmed"
  BY DEF AwaitingConfirmation
<1>2. PICK p \in Purchases : p = r[1] /\ MaxReports[p] \in Nat /\ MaxReports[p] <= 2
  BY <1>1, ReportShape, CreditingAssumption DEF ReportedTwice
<1>3. PICK u \in Reports : /\ u = undone[r] /\ u[1] = p /\ u[2] > r[2] /\ status[u] = "declined"
  BY <1>1, <1>2 DEF BaseInv, CreditsInv, CreditOK, TypeOK
<1>4. r[2] \in 1 .. MaxReports[p] /\ u[2] \in 1 .. MaxReports[p] /\ u = <<p, u[2]>>
  BY <1>1, <1>2, <1>3, ReportShape
<1>5. u[2] = 2 /\ MaxReports[p] = 2
  BY <1>2, <1>3, <1>4
<1>6. u[2] \in Said(p)
  BY <1>3, <1>4 DEF Said
<1>7. PICK k \in 0 .. MaxReports[p] : Said(p) = 1 .. k /\ tip(p) = <<p, k>>
  BY TipIsLast DEF BaseInv
<1>8. k = 2
  BY <1>5, <1>6, <1>7
<1>9. tip(p) = u
  BY <1>4, <1>5, <1>7, <1>8
<1> QED  BY <1>1, <1>2, <1>3, <1>9

(* So what a run is to confirm stands, until it has. *)
LEMMA StandsStep ==
    ASSUME Exclusive, ReportedTwice, BaseInv, LockInv, StandsInv, [Next]_vars
    PROVE  StandsInv'
<1>1. CASE \/ UNCHANGED vars
           \/ \E p \in Purchases, s \in {"pending", "confirmed", "declined"} :
                \E k \in Cites[p] : Report(p, s, k)
           \/ \E st \in Statements : ImportStatement(st) \/ DetectDifferences(st)
           \/ \E r \in Reports : Claim(r) \/ GiveBack(r) \/ ResolveDifference(r)
           \/ \E o \in Operators :
                \/ \E r \in Reports : Release(o, r) \/ Reject(o, r)
                \/ CommitRelease(o) \/ CommitReject(o) \/ Crash(o)
  <2>1. /\ \A w \in Runs : pc'[w] = pc[w] /\ page'[w] = page[w]
        /\ \A r \in Reports : credit[r] # "held" => undone'[r] = undone[r]
    BY <1>1, OthersKeepPages
  <2>2. ASSUME NEW w \in Runs, NEW i \in page[w], pc[w] \in Confirming
        PROVE  i.credit \in Reports /\ credit[i.credit] = "pending" /\ undone[i.credit] = NoReport
    BY <2>2 DEF LockInv, PagesInv, Untouched, StandsInv, BaseInv, TypeOK, Items
  <2> QED  BY <2>1, <2>2 DEF StandsInv
<1>2. ASSUME NEW w \in Runs, Begin(w) \/ Step(w) \/ ItemFails(w) \/ Crash(w)
      PROVE  StandsInv'
  <2>1. CASE BeginConfirm(w)
    <3>1. /\ page'[w] = ItemsOf(AwaitingConfirmation) /\ undone' = undone
          /\ \A v \in Runs \ {w} : pc'[v] = pc[v] /\ page'[v] = page[v]
      BY <2>1 DEF BeginConfirm, entries, BaseInv, TypeOK
    <3>2. \A i \in page'[w] : undone[i.credit] = NoReport
      BY <3>1, PendingStands DEF ItemsOf
    <3> QED  BY <3>1, <3>2 DEF StandsInv
  <2>2. CASE Begin(w) \/ BeginReverse(w) \/ CommitOpen(w) \/ CommitReverse(w)
    <3>1. /\ \A v \in Runs \ {w} : pc'[v] = "idle"
          /\ pc'[w] \in {"credit", "reverse"}
      <4>1. CASE Begin(w)
        BY <4>1 DEF Begin, BaseInv, TypeOK
      <4>2. CASE BeginReverse(w)
        BY <4>2 DEF BeginReverse, BaseInv, TypeOK, LockInv, SoloInv
      <4>3. CASE CommitOpen(w)
        BY <4>3 DEF CommitOpen, Goto, BaseInv, TypeOK, LockInv, SoloInv
      <4>4. CASE CommitReverse(w)
        BY <4>4 DEF CommitReverse, NextItem, Goto, BaseInv, TypeOK, LockInv, SoloInv
      <4> QED  BY <2>2, <4>1, <4>2, <4>3, <4>4
    <3> QED  BY <3>1 DEF StandsInv, Confirming
  <2>3. CASE \/ EndRun(w) \/ CommitConfirm(w) \/ ItemFails(w) \/ Crash(w)
             \/ \E i \in page[w] :
                  \/ QueueReport(w, i) \/ AlreadyCredited(w, i)
                  \/ SkipConfirm(w, i) \/ SkipReverse(w, i)
                  \/ Confirm(w, i) \/ Reverse(w, i) \/ \E v \in Evaluate : Open(w, i, v)
    <3>1. \A v \in Runs : PageKeeps(v)
      BY <2>3, RunKeepsPage
    <3>2. undone' = undone
      BY <2>3 DEF EndRun, CommitConfirm, ItemFails, Crash, QueueReport, AlreadyCredited,
                  SkipConfirm, SkipReverse, Confirm, Reverse, Open, entries
    <3> QED  BY <3>1, <3>2 DEF StandsInv, PageKeeps
  <2> QED  BY <1>2, <2>1, <2>2, <2>3 DEF Step
<1> QED  BY <1>1, <1>2 DEF Next

(* A transfer without its rows is not forgotten; and where there is none,  *)
(* none was lost.                                                          *)
LEMMA TornStays ==
    ASSUME [Next]_vars, ~torn'
    PROVE  /\ ~torn
           /\ \A x \in Actors : Crash(x) => pc[x] \notin Posting
           /\ \A w \in Runs : ~ItemFails(w)
<1>1. ASSUME NEW x, Crash(x) PROVE ~torn /\ pc[x] \notin Posting
  BY <1>1, Zenon DEF Crash
<1>2. ASSUME NEW w \in Runs PROVE ~ItemFails(w)
  BY <1>2, Zenon DEF ItemFails
<1>3. ASSUME NEW w \in Runs, CommitConfirm(w) PROVE ~torn
  BY <1>3, Zenon DEF CommitConfirm
<1>4. ASSUME NEW w \in Runs, CommitReverse(w) PROVE ~torn
  BY <1>4, Zenon DEF CommitReverse
<1>5. ASSUME torn' = torn PROVE ~torn
  BY <1>5, Zenon
<1>6. ASSUME UNCHANGED vars PROVE ~torn
  <2>1. torn' = torn
    BY <1>6 DEF vars
  <2> QED  BY <1>5, <2>1
<1>7. ASSUME NEW p \in Purchases, NEW s \in {"pending", "confirmed", "declined"},
             NEW k \in Cites[p], Report(p, s, k)
      PROVE  ~torn
  BY <1>5, <1>7 DEF Report
<1>8. ASSUME NEW st \in Statements, ImportStatement(st) \/ DetectDifferences(st) PROVE ~torn
  BY <1>5, <1>8 DEF ImportStatement, DetectDifferences
<1>9. ASSUME NEW r \in Reports, Claim(r) \/ GiveBack(r) \/ ResolveDifference(r) PROVE ~torn
  BY <1>5, <1>9 DEF Claim, GiveBack, ResolveDifference
<1>10. ASSUME NEW w \in Runs, Begin(w) \/ Step(w) \/ ItemFails(w) \/ Crash(w) PROVE ~torn
  <2>1. ASSUME NEW i \in page[w],
               \/ QueueReport(w, i) \/ AlreadyCredited(w, i) \/ SkipConfirm(w, i)
               \/ SkipReverse(w, i) \/ Confirm(w, i) \/ Reverse(w, i)
               \/ \E v \in Evaluate : Open(w, i, v)
        PROVE  ~torn
    BY <1>5, <2>1 DEF QueueReport, AlreadyCredited, SkipConfirm, SkipReverse, Confirm, Reverse, Open
  <2>2. CASE Begin(w) \/ CommitOpen(w) \/ BeginConfirm(w) \/ BeginReverse(w) \/ EndRun(w)
    BY <1>5, <2>2 DEF Begin, CommitOpen, BeginConfirm, BeginReverse, EndRun
  <2> QED  BY <1>1, <1>2, <1>3, <1>4, <1>10, <2>1, <2>2 DEF Step
<1>11. ASSUME NEW o \in Operators,
              \/ \E r \in Reports : Release(o, r) \/ Reject(o, r)
              \/ CommitRelease(o) \/ CommitReject(o) \/ Crash(o)
       PROVE  ~torn
  BY <1>1, <1>5, <1>11 DEF Release, Reject, Decide, CommitRelease, CommitReject
<1>12. ~torn
  BY <1>6, <1>7, <1>8, <1>9, <1>10, <1>11 DEF Next
<1> QED  BY <1>1, <1>2, <1>12

(* Every step keeps the books. *)
LEMMA BooksStep ==
    ASSUME Exclusive, ReportedTwice, BaseInv, LockInv, BooksInv, [Next]_vars
    PROVE  BooksInv'
<1>1. StandsInv'
  BY StandsStep DEF BooksInv
<1>2. ASSUME ~torn' PROVE Books'
  <2>1. /\ Books /\ StandsInv
        /\ \A x \in Actors : Crash(x) => pc[x] \notin Posting
        /\ \A w \in Runs : ~ItemFails(w)
    BY <1>2, TornStays, Zenon DEF BooksInv
  <2>2. CASE \/ UNCHANGED vars
             \/ \E p \in Purchases, s \in {"pending", "confirmed", "declined"} :
                  \E k \in Cites[p] : Report(p, s, k)
             \/ \E st \in Statements : ImportStatement(st) \/ DetectDifferences(st)
             \/ \E r \in Reports : ResolveDifference(r)
    BY <2>1, <2>2, BooksEvidence
  <2>3. ASSUME NEW r \in Reports, Claim(r) \/ GiveBack(r) PROVE Books'
    BY <2>1, <2>3, BooksClaim
  <2>4. ASSUME NEW w \in Runs, Begin(w) \/ Step(w) \/ Crash(w) PROVE Books'
    <3>1. CASE Crash(w)
      BY <2>1, <3>1, BooksCrash DEF Actors
    <3>2. CASE \/ Begin(w) \/ BeginConfirm(w) \/ BeginReverse(w) \/ EndRun(w)
               \/ \E i \in page[w] : QueueReport(w, i) \/ AlreadyCredited(w, i)
                                       \/ SkipConfirm(w, i) \/ SkipReverse(w, i)
      BY <2>1, <3>2, BooksPass
    <3>3. CASE CommitOpen(w) \/ CommitConfirm(w) \/ CommitReverse(w)
      BY <1>2, <2>1, <3>3, BooksOpened, BooksConfirmed, BooksReversed
    <3>4. ASSUME NEW i \in page[w],
                 Confirm(w, i) \/ Reverse(w, i) \/ \E v \in Evaluate : Open(w, i, v)
          PROVE  Books'
      <4>1. "held" \in Evaluate
        BY DEF Evaluate
      <4> QED  BY <2>1, <3>4, <4>1, BooksRunPost
    <3> QED  BY <2>4, <3>1, <3>2, <3>3, <3>4 DEF Step
  <2>5. ASSUME NEW o \in Operators,
               \/ \E r \in Reports : Release(o, r) \/ Reject(o, r)
               \/ CommitRelease(o) \/ CommitReject(o) \/ Crash(o)
        PROVE  Books'
    <3>1. CASE Crash(o)
      BY <2>1, <3>1, BooksCrash DEF Actors
    <3>2. CASE CommitRelease(o) \/ CommitReject(o)
      BY <2>1, <3>2, BooksDecided
    <3>3. CASE \E r \in Reports : Release(o, r) \/ Reject(o, r)
      BY <2>1, <3>3, BooksOperatorPost
    <3> QED  BY <2>5, <3>1, <3>2, <3>3
  <2> QED  BY <2>1, <2>2, <2>3, <2>4, <2>5 DEF Next
<1> QED  BY <1>1, <1>2 DEF BooksInv

(* Before anything was reported, nothing is due and nothing was moved. *)
LEMMA BooksInit == Init => BooksInv
<1> SUFFICES ASSUME Init PROVE BooksInv
  OBVIOUS
<1>1. /\ \A r \in Reports : credit[r] = "none"
      /\ \A x \in Actors : pc[x] \notin Posting
      /\ \A w \in Runs : page[w] = {}
      /\ \A k \in Keys : posted[k] = NoTransfer
      /\ \A a \in Members \X Stages : balance[a] = 0
  BY DEF Init, Actors, Posting, L!LedgerInit, L!Accounts, Accounts
<1>2. StandsInv /\ ClaimsStand /\ KeysInv
  BY <1>1 DEF StandsInv, ClaimsStand, KeysInv
<1>3. ASSUME NEW a \in Members \X Stages PROVE balance[a] = DueTotal(a) + MovingTotal(a)
  <2>1. DueTotal(a) = 0
    <3>1. \A r \in Reports : [q \in Reports |-> Due(q, a)][r] = 0
      BY <1>1 DEF Due, Stands, IsCredit
    <3> QED  BY <3>1, ReportsFinite, SumZero DEF DueTotal
  <2>2. MovingTotal(a) = 0
    <3>1. \A x \in Actors : [y \in Actors |-> Moving(y, a)][x] = 0
      BY <1>1 DEF Moving
    <3>2. IsFiniteSet(Actors)
      BY CreditingAssumption DEF Actors
    <3> QED  BY <3>1, <3>2, SumZero DEF MovingTotal
  <2> QED  BY <1>1, <2>1, <2>2
<1> QED  BY <1>2, <1>3 DEF BooksInv, Books, Balanced

(* When nobody is between a transfer and its row, the ledger agrees. *)
LEMMA BooksAreRight == BaseInv /\ BooksInv => BooksAgree
<1> SUFFICES ASSUME BaseInv, BooksInv PROVE BooksAgree
  OBVIOUS
<1>1. ASSUME Quiet, ~torn, NEW m \in Members, NEW s \in Stages
      PROVE  balance[<<m, s>>] = MapThenSumSet(LAMBDA r : AmountOf[r], InStage(m, s))
  <2> SUFFICES ASSUME NEW a \in Members \X Stages, a = <<m, s>>
               PROVE  balance[a] = MapThenSumSet(LAMBDA r : AmountOf[r], InStage(m, s))
    OBVIOUS
  <2>1. balance[a] = DueTotal(a) + MovingTotal(a)
    BY <1>1, Zenon DEF BooksInv, Books, Balanced
  <2>2. MovingTotal(a) = 0
    <3>1. \A x \in Actors : [y \in Actors |-> Moving(y, a)][x] = 0
      BY <1>1 DEF Moving, Quiet, Actors
    <3>2. IsFiniteSet(Actors)
      BY CreditingAssumption DEF Actors
    <3> QED  BY <3>1, <3>2, SumZero DEF MovingTotal
  <2>3. DueTotal(a) = Sum(AmountOf, InStage(m, s))
    <3>1. [r \in Reports |-> Due(r, a)] =
            [r \in Reports |-> IF r \in InStage(m, s) THEN AmountOf[r] ELSE 0]
      BY DEF Due, InStage
    <3>2. InStage(m, s) \in SUBSET Reports /\ \A r \in Reports : AmountOf[r] \in Int
      BY CreditingAssumption DEF InStage
    <3> QED  BY <3>1, <3>2, ReportsFinite, SumWhere DEF DueTotal
  <2>4. MapThenSumSet(LAMBDA r : AmountOf[r], InStage(m, s)) = Sum(AmountOf, InStage(m, s))
    BY DEF Sum, MapThenSumSet, SumFunctionOnSet, FoldFunctionOnSet, MapThenFoldSet
  <2> QED  BY <2>1, <2>2, <2>3, <2>4, AmountsInt
<1> QED  BY <1>1 DEF BooksAgree, BaseInv

(* C-1: one run at a time and with at most two reports of a purchase, what *)
(* the ledger holds for a member in each stage is what their credits in    *)
(* that state add up to, whatever the networks restate between a page and  *)
(* its commits, and whatever operators and withdrawals do meanwhile.       *)
THEOREM BooksAgreeHolds ==
    ASSUME Exclusive, ReportedTwice
    PROVE  Spec => []BooksAgree
<1>1. BaseInv /\ LockInv /\ [Next]_vars => LockInv'
  BY LockStep
<1>2. BaseInv /\ LockInv /\ BooksInv /\ [Next]_vars => BooksInv'
  BY BooksStep
<1> QED  BY <1>1, <1>2, Base, LockInit, BooksInit, BooksAreRight, PTL DEF Spec
=============================================================================
