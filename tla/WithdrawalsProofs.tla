--------------------------- MODULE WithdrawalsProofs ---------------------------
(***************************************************************************)
(* Withdrawals, for every set of members, entries, requests and callers,   *)
(* whatever is lost and however many calls die: no earning is spent twice, *)
(* what the tables say of a payment is what became of it, and the ledger   *)
(* holds what the entries say.                                             *)
(***************************************************************************)
EXTENDS Withdrawals, Sums

------------------------------------------------------------------------------
(* The inductive invariant.                                                *)

(* A caller that is about to write holds the rows it will write. *)
Asking    == {"reserve", "create"}
Refusing  == {"release", "refuse"}
GivingUp  == {"putBack", "fail"}

HoldsRows(p) ==
    /\ pc[p] \in Asking \cup Refusing \cup GivingUp =>
         \A e \in taking[p] : entryLock[e] = p
    /\ pc[p] \in Refusing \cup GivingUp => reqLock[on[p]] = p
    /\ pc[p] \in GivingUp \cup {"giveUp", "paid"} => payLock[on[p]] = p

LocksHeld == \A p \in Procs : HoldsRows(p)

(* What a caller has read still holds when it writes. *)
Knows(p) ==
    /\ pc[p] # "idle" => on[p] \in Requests
    /\ pc[p] \in Asking =>
         /\ request[on[p]] = "none"
         /\ taking[p] # {} /\ taking[p] \subseteq In("confirmed")
         /\ \E m \in Members : taking[p] \subseteq OwnedBy(m)
    /\ pc[p] \notin Asking \cup {"idle"} => request[on[p]] # "none"
    /\ pc[p] \in Refusing \cup GivingUp => taking[p] = under[on[p]]
    /\ pc[p] \in Refusing => request[on[p]] = "awaiting_approval"
    /\ pc[p] \notin Asking \cup Refusing \cup {"idle", "retry"} =>
         request[on[p]] \notin {"awaiting_approval", "rejected"}
    /\ pc[p] \in GivingUp \cup {"giveUp", "paid"} => payout[on[p]] = "submitted"
    /\ pc[p] \in GivingUp \cup {"giveUp", "abandon"} => rail[on[p]] \in {"refused", "failed"}
    /\ pc[p] \in {"arrival", "paid"} => rail[on[p]] = "settled"

CallersKnow == \A p \in Procs : Knows(p)

(* The id of a request is minted once. *)
OneAsker == \A p, q \in Procs :
    p # q /\ pc[p] \in Asking /\ pc[q] \in Asking => on[p] # on[q]

(* The rows tell one story, and the rail has not been asked for a request  *)
(* nobody approved.                                                        *)
RowsAgree == \A r \in Requests :
    /\ request[r] = "none" <=> under[r] = {}
    /\ request[r] = "approved" <=> payout[r] = "submitted"
    /\ request[r] = "paid" <=> payout[r] = "settled"
    /\ request[r] = "failed" <=> payout[r] = "failed"
    /\ rail[r] # "none" => request[r] \in {"approved", "paid", "failed"}
    /\ request[r] = "paid" => rail[r] = "settled"
    /\ request[r] = "failed" => rail[r] \in {"refused", "failed"}
    /\ under[r] # {} => \E m \in Members : under[r] \subseteq OwnedBy(m)

Standing(r) == request[r] \in {"awaiting_approval", "approved", "paid"}

(* The entries behind the requests that stand. *)
Apart == \A r \in Requests : Standing(r) =>
    /\ under[r] \subseteq In("reserved")
    /\ \A q \in Requests \ {r} : Standing(q) => under[r] \cap under[q] = {}

OwnerOfSet(S) == OwnerOf[CHOOSE e \in S : TRUE]

Reservation(S) == Move(OwnerOfSet(S), "confirmed", "reserved", Total(S))
ReleaseOf(S)   == Move(OwnerOfSet(S), "reserved", "confirmed", Total(S))

(* A caller that moved money knows under which key. *)
MoneyMoved == \A p \in Procs :
    /\ pc[p] = "create" => posted[reservationKey(on[p])] = Reservation(taking[p])
    /\ pc[p] \in {"refuse", "fail"} => posted[releaseKey(on[p])] = ReleaseOf(taking[p])

SafeInv ==
    /\ TypeOK /\ LocksHeld /\ CallersKnow /\ OneAsker
    /\ RowsAgree /\ Apart /\ MoneyMoved /\ Backed

(* Where the ledger has an entry's money: a caller between its transfer    *)
(* and its commit is ahead of the tables.                                  *)
Stage(e) ==
    IF \E p \in Procs : pc[p] = "create" /\ e \in taking[p] THEN "reserved"
    ELSE IF \E p \in Procs : pc[p] \in {"refuse", "fail"} /\ e \in taking[p] THEN "confirmed"
    ELSE entry[e]

At(m, s) == {e \in OwnedBy(m) : Stage(e) = s}

(* As long as no call has died, a recorded transfer has a caller or a row  *)
(* to show for it, and every account holds the entries it stands for.      *)
BooksInv == faults = 0 =>
    /\ \A r \in Requests :
         /\ posted[reservationKey(r)] # NoTransfer =>
              \/ request[r] # "none"
              \/ \E p \in Procs : pc[p] = "create" /\ on[p] = r
         /\ posted[releaseKey(r)] # NoTransfer =>
              \/ request[r] \in {"rejected", "failed"}
              \/ \E p \in Procs : pc[p] \in {"refuse", "fail"} /\ on[p] = r
    /\ \A m \in Members, s \in {"confirmed", "reserved"} :
         balance[<<m, s>>] = Total(At(m, s))

------------------------------------------------------------------------------
(* Amounts and transfers.                                                  *)

(* Total is a sum over entries. *)
LEMMA TotalIsSum ==
    ASSUME NEW S
    PROVE  Total(S) = Sum(AmountOf, S)
BY DEF Total, Sum, MapThenSumSet, SumFunctionOnSet, FoldFunctionOnSet, MapThenFoldSet

(* What a set of entries holds is an amount; nothing holds nothing. *)
LEMMA TotalType ==
    /\ Total({}) = 0
    /\ \A S \in SUBSET Entries : Total(S) \in Nat
<1>1. \A e \in Entries : AmountOf[e] \in Nat
  BY WithdrawalAssumption
<1>2. ASSUME NEW S \in SUBSET Entries PROVE Total(S) \in Nat
  <2>1. IsFiniteSet(S)
    BY WithdrawalAssumption, FS_Subset
  <2> QED  BY <1>1, <2>1, SumNat, TotalIsSum
<1> QED  BY <1>2, SumEmpty, TotalIsSum

(* Two sets of entries with none in common hold what each of them holds. *)
LEMMA TotalUnion ==
    ASSUME NEW S \in SUBSET Entries, NEW T \in SUBSET Entries, S \cap T = {}
    PROVE  Total(S \cup T) = Total(S) + Total(T)
<1>1. \A e \in S \cup T : AmountOf[e] \in Int
  BY WithdrawalAssumption
<1>2. IsFiniteSet(S) /\ IsFiniteSet(T)
  BY WithdrawalAssumption, FS_Subset
<1> QED  BY <1>1, <1>2, SumUnion, TotalIsSum

(* Among entries there is an oldest one. *)
LEMMA OldestEntry ==
    ASSUME NEW S \in SUBSET Entries, S # {}
    PROVE  \E e \in S : \A f \in S : ~ (f < e)
<1> DEFINE Bad == {U \in SUBSET S : U # {} /\ \A e \in U : \E f \in U : f < e}
<1>1. ASSUME Bad # {} PROVE FALSE
  <2>1. PICK U \in Bad : \A V \in Bad : V \subseteq U => V = U
    <3>1. Bad \subseteq SUBSET S /\ IsFiniteSet(S)
      BY WithdrawalAssumption, FS_Subset
    <3> HIDE DEF Bad
    <3> QED  BY <1>1, <3>1, Smallest
  <2>2. PICK x \in U : TRUE
    BY <2>1
  <2>3. U \subseteq Nat
    BY <2>1, WithdrawalAssumption
  <2>4. CASE U \ {x} = {}
    BY <2>1, <2>2, <2>3, <2>4
  <2>5. CASE U \ {x} # {}
    <3>1. U \ {x} \notin Bad
      BY <2>1, <2>2
    <3>2. PICK y \in U \ {x} : \A f \in U \ {x} : ~ (f < y)
      BY <2>1, <2>5, <3>1
    <3> QED  BY <2>1, <2>2, <2>3, <3>2
  <2> QED  BY <2>4, <2>5
<1>2. S \in SUBSET S
  OBVIOUS
<1> QED  BY <1>1, <1>2

(* A request for something takes at least one entry, and only what it was  *)
(* offered.                                                                *)
LEMMA CoveringTakes ==
    ASSUME NEW S \in SUBSET Entries, NEW want \in Wants, Total(S) >= want
    PROVE  Covering(S, want) \subseteq S /\ Covering(S, want) # {}
<1>1. want \in Nat \ {0}
  BY WithdrawalAssumption
<1>2. S # {}
  BY <1>1, TotalType
<1>3. PICK e \in S : \A f \in S : ~ (f < e)
  BY <1>2, OldestEntry
<1>4. {f \in S : f < e} = {}
  BY <1>3
<1>5. Total({f \in S : f < e}) < want
  BY <1>1, <1>4, TotalType
<1> QED  BY <1>3, <1>5 DEF Covering

(* The entries of one member make a transfer of the ledger's kind, either  *)
(* way; it moves their total between two of that member's accounts.        *)
LEMMA TransferType ==
    ASSUME NEW m \in Members, NEW S \in SUBSET OwnedBy(m), S # {},
           NEW from, NEW to,
           <<from, to>> \in {<<"confirmed", "reserved">>, <<"reserved", "confirmed">>}
    PROVE  /\ OwnerOfSet(S) = m
           /\ S \in SUBSET Entries
           /\ Move(OwnerOfSet(S), from, to, Total(S)) \in Transfers
           /\ Move(OwnerOfSet(S), from, to, Total(S)) # NoTransfer
           /\ Move(OwnerOfSet(S), from, to, Total(S)) \in [Accounts -> Int]
<1>1. OwnerOfSet(S) = m /\ S \in SUBSET Entries
  BY DEF OwnerOfSet, OwnedBy
<1>2. Move(m, from, to, Total(S)) \in Transfers
  <2> DEFINE s == <<from, to>>
  <2>1. S \in (SUBSET Entries) \ {{}} /\ s[1] = from /\ s[2] = to
    BY <1>1
  <2>2. Move(m, s[1], s[2], Total(S)) \in Transfers
    <3> HIDE DEF s
    <3> QED  BY <2>1 DEF Transfers, s
  <2> QED  BY <2>1, <2>2
<1>3. Move(m, from, to, Total(S)) \in [Accounts -> Int]
  BY <1>1, TotalType DEF Move
<1> QED  BY <1>1, <1>2, <1>3, TransferAssumption
------------------------------------------------------------------------------
(* Type correctness and the locks.                                         *)

(* What PostThen leaves behind: the transfer is under its key, now or      *)
(* already, and p is at l; or it was refused and the call is over.         *)
Posts(p, k, t, l) ==
    /\ balance' \in [Accounts -> Nat]
    /\ \/ /\ posted' = [posted EXCEPT ![k] = t]
          /\ On(p, l)
          /\ UNCHANGED lockVars
       \/ Done(p) /\ UNCHANGED moneyVars
    /\ UNCHANGED <<rowVars, rail, faults, lost>>

(* A ledger that draws no account below zero, asked to record a transfer,  *)
(* holds it afterwards or has not changed.                                 *)
LEMMA PostOutcome ==
    ASSUME TypeOK, NEW p, NEW k \in Keys, NEW t \in [Accounts -> Int], NEW l,
           PostThen(p, k, t, l)
    PROVE  Posts(p, k, t, l)
<1>1. ASSUME Accepted(k, t), posted[k] = NoTransfer, L!Record(k, t)
      PROVE  balance' \in [Accounts -> Nat]
  <2>1. \A a \in Accounts : balance[a] \in Nat /\ t[a] \in Int
    BY DEF TypeOK
  <2>2. \A a \in Accounts : balance[a] + t[a] >= 0
    BY <1>1, <2>1 DEF Accepted, L!Funds, L!Drawn
  <2>3. \A a \in Accounts : balance[a] + t[a] \in Nat
    BY <2>1, <2>2
  <2> QED  BY <1>1, <2>3 DEF L!Record, L!Accounts
<1>2. ASSUME Accepted(k, t), posted[k] # NoTransfer
      PROVE  posted = [posted EXCEPT ![k] = t]
  BY <1>2 DEF Accepted, TypeOK
<1> QED  BY <1>1, <1>2 DEF PostThen, Posts, L!Record, TypeOK, moneyVars

(* The reservation of what a member asked for. *)
LEMMA ReservePosts ==
    ASSUME SafeInv, NEW p \in Procs, Reserve(p)
    PROVE  /\ pc[p] = "reserve" /\ on[p] \in Requests
           /\ reservationKey(on[p]) \in Keys
           /\ Reservation(taking[p]) \in Transfers
           /\ Posts(p, reservationKey(on[p]), Reservation(taking[p]), "create")
<1>1. PICK m \in Members : taking[p] \in SUBSET OwnedBy(m)
  BY DEF SafeInv, CallersKnow, Knows, Reserve, Asking
<1>2. taking[p] # {} /\ on[p] \in Requests
  BY DEF SafeInv, CallersKnow, Knows, Reserve, Asking
<1>3. Reservation(taking[p]) \in [Accounts -> Int] /\ Reservation(taking[p]) \in Transfers
  BY <1>1, <1>2, TransferType DEF Reservation
<1>4. pc[p] = "reserve" /\ reservationKey(on[p]) \in Keys
  BY <1>1, <1>2 DEF Reserve, reservationKey, Keys
<1>5. PostThen(p, reservationKey(on[p]), Reservation(taking[p]), "create")
  BY DEF Reserve, Reservation, OwnerOfSet, Member
<1> QED  BY <1>1, <1>2, <1>3, <1>4, <1>5, PostOutcome DEF SafeInv

(* The release of what a refused request held. *)
LEMMA ReleaseRejectedPosts ==
    ASSUME SafeInv, NEW p \in Procs, ReleaseRejected(p)
    PROVE  /\ pc[p] = "release" /\ on[p] \in Requests
           /\ releaseKey(on[p]) \in Keys
           /\ ReleaseOf(taking[p]) \in Transfers
           /\ Posts(p, releaseKey(on[p]), ReleaseOf(taking[p]), "refuse")
<1>1. on[p] \in Requests /\ taking[p] = under[on[p]] /\ request[on[p]] # "none"
  BY DEF SafeInv, CallersKnow, Knows, ReleaseRejected, Asking, Refusing, GivingUp
<1>2. taking[p] # {} /\ \E m \in Members : taking[p] \in SUBSET OwnedBy(m)
  BY <1>1 DEF SafeInv, RowsAgree
<1>3. ReleaseOf(taking[p]) \in [Accounts -> Int] /\ ReleaseOf(taking[p]) \in Transfers
  BY <1>2, TransferType DEF ReleaseOf
<1>4. pc[p] = "release" /\ releaseKey(on[p]) \in Keys
  BY <1>1 DEF ReleaseRejected, releaseKey, Keys
<1>5. PostThen(p, releaseKey(on[p]), ReleaseOf(taking[p]), "refuse")
  BY DEF ReleaseRejected, Release, ReleaseOf, OwnerOfSet, Member
<1> QED  BY <1>1, <1>3, <1>4, <1>5, PostOutcome DEF SafeInv

(* The release of what a payment that will not happen held. *)
LEMMA PutBackPosts ==
    ASSUME SafeInv, NEW p \in Procs, PutBack(p)
    PROVE  /\ pc[p] = "putBack" /\ on[p] \in Requests
           /\ releaseKey(on[p]) \in Keys
           /\ ReleaseOf(taking[p]) \in Transfers
           /\ Posts(p, releaseKey(on[p]), ReleaseOf(taking[p]), "fail")
<1>1. on[p] \in Requests /\ taking[p] = under[on[p]] /\ request[on[p]] # "none"
  BY DEF SafeInv, CallersKnow, Knows, PutBack, Asking, Refusing, GivingUp
<1>2. taking[p] # {} /\ \E m \in Members : taking[p] \in SUBSET OwnedBy(m)
  BY <1>1 DEF SafeInv, RowsAgree
<1>3. ReleaseOf(taking[p]) \in [Accounts -> Int] /\ ReleaseOf(taking[p]) \in Transfers
  BY <1>2, TransferType DEF ReleaseOf
<1>4. pc[p] = "putBack" /\ releaseKey(on[p]) \in Keys
  BY <1>1 DEF PutBack, releaseKey, Keys
<1>5. PostThen(p, releaseKey(on[p]), ReleaseOf(taking[p]), "fail")
  BY DEF PutBack, Release, ReleaseOf, OwnerOfSet, Member
<1> QED  BY <1>1, <1>3, <1>4, <1>5, PostOutcome DEF SafeInv

(* A transfer, taken or refused, leaves the types. *)
LEMMA PostsType ==
    ASSUME TypeOK, NEW p \in Procs, NEW k \in Keys, NEW t \in Transfers,
           NEW l \in {"create", "refuse", "fail"}, Posts(p, k, t, l)
    PROVE  TypeOK'
<1> USE DEF TypeOK
<1>1. posted' \in [Keys -> Transfers \cup {NoTransfer}]
  BY DEF Posts, moneyVars
<1>2. /\ pc' \in [Procs -> {"idle", "reserve", "create", "submit", "sent", "release",
         "refuse", "retry", "resend", "status", "arrival", "paid",
         "abandon", "giveUp", "putBack", "fail"}]
      /\ on' \in [Procs -> Requests \cup {NoRequest}]
      /\ taking' \in [Procs -> SUBSET Entries]
  BY DEF Posts, On, Done, Idle, Goto
<1>3. /\ reqLock' \in [Requests -> Procs \cup {NoProc}]
      /\ payLock' \in [Requests -> Procs \cup {NoProc}]
      /\ entryLock' \in [Entries -> Procs \cup {NoProc}]
  BY DEF Posts, Done, EndTx, Drop, lockVars
<1> QED  BY <1>1, <1>2, <1>3 DEF Posts, rowVars

(* No step leaves the types. *)
LEMMA TypeStep ==
    ASSUME SafeInv, [Next]_vars
    PROVE  TypeOK'
<1> USE DEF SafeInv, TypeOK
<1>1. ASSUME NEW p \in Procs, NEW m \in Members, NEW want \in Wants, NEW r \in Requests,
             Request(p, m, want, r)
      PROVE  TypeOK'
  <2>1. Covering(OwnedBy(m) \cap In("confirmed"), want) \in SUBSET Entries
    BY DEF Covering, OwnedBy
  <2> QED  BY <1>1, <2>1 DEF Request, Goto, Take, moneyVars, rowVars
<1>2. ASSUME NEW p \in Procs, NEW r \in Requests, claim(p, r)
      PROVE  TypeOK'
  BY <1>2 DEF claim, awaitingDecision, Goto, moneyVars, rowVars, lockVars
<1>3. ASSUME NEW p \in Procs, NEW r \in Requests, Reject(p, r)
      PROVE  TypeOK'
  BY <1>3 DEF Reject, awaitingDecision, Holds, Free, Take,
     LockWithdrawalRequestForDecision, Goto, moneyVars, rowVars, lockVars
<1>4. ASSUME NEW p \in Procs, NEW r \in Requests, Retry(p, r)
      PROVE  TypeOK'
  BY <1>4 DEF Retry, LockWithdrawalRequestForDecision, Goto, moneyVars, rowVars, lockVars
<1>5. ASSUME NEW p \in Procs, NEW r \in Requests, Settle(p, r)
      PROVE  TypeOK'
  BY <1>5 DEF Settle, Goto, moneyVars, rowVars, lockVars
<1>6. ASSUME NEW p \in Procs, NEW r \in Requests, RecordByHand(p, r)
      PROVE  TypeOK'
  BY <1>6 DEF RecordByHand, Goto, moneyVars, rowVars, lockVars
<1>7. ASSUME NEW p \in Procs, Reserve(p)
      PROVE  TypeOK'
  BY <1>7, ReservePosts, PostsType
<1>8. ASSUME NEW p \in Procs, CreateRequest(p)
      PROVE  TypeOK'
  BY <1>8 DEF CreateRequest, Done, Idle, EndTx, Drop, Goto, Take, moneyVars, rowVars,
     lockVars
<1>9. ASSUME NEW p \in Procs, Submit(p)
      PROVE  TypeOK'
  BY <1>9, WithdrawalAssumption
     DEF Submit, Accepts, Refuses, Loses, On, Idle, Goto, moneyVars, rowVars, lockVars
<1>10. ASSUME NEW p \in Procs, recordSubmission(p)
      PROVE  TypeOK'
  BY <1>10 DEF recordSubmission, RecordPayoutSubmission, Idle, Goto, moneyVars, rowVars,
     lockVars
<1>11. ASSUME NEW p \in Procs, ReleaseRejected(p)
      PROVE  TypeOK'
  BY <1>11, ReleaseRejectedPosts, PostsType
<1>12. ASSUME NEW p \in Procs, RecordRejection(p)
      PROVE  TypeOK'
  BY <1>12 DEF RecordRejection, Done, Idle, EndTx, Drop, Goto, Take, moneyVars, rowVars,
     lockVars
<1>13. ASSUME NEW p \in Procs, Pending(p)
      PROVE  TypeOK'
  BY <1>13 DEF Pending, On, Idle, EndTx, Drop, Goto, moneyVars, rowVars, lockVars
<1>14. ASSUME NEW p \in Procs, Resend(p)
      PROVE  TypeOK'
  BY <1>14, WithdrawalAssumption
     DEF Resend, Accepts, Refuses, Loses, On, Idle, Goto, moneyVars, rowVars, lockVars
<1>15. ASSUME NEW p \in Procs, Abandon(p)
      PROVE  TypeOK'
  BY <1>15 DEF Abandon, LockPayoutForRequest, GiveBack, Done, On, Idle, EndTx, Drop, Goto,
     moneyVars, rowVars, lockVars
<1>16. ASSUME NEW p \in Procs, AbandonRequest(p)
      PROVE  TypeOK'
  <2>1. on[p] \in Requests
    BY <1>16 DEF AbandonRequest, CallersKnow, Knows
  <2> QED  BY <1>16, <2>1 DEF AbandonRequest, Holds, Free, Take,
     LockWithdrawalRequestForDecision, Goto, moneyVars, rowVars, lockVars
<1>17. ASSUME NEW p \in Procs, PutBack(p)
      PROVE  TypeOK'
  BY <1>17, PutBackPosts, PostsType
<1>18. ASSUME NEW p \in Procs, FailPayout(p)
      PROVE  TypeOK'
  BY <1>18 DEF FailPayout, Done, Idle, EndTx, Drop, Goto, Take, moneyVars, rowVars, lockVars
<1>19. ASSUME NEW p \in Procs, Status(p)
      PROVE  TypeOK'
  BY <1>19 DEF Status, On, Goto, moneyVars, rowVars, lockVars
<1>20. ASSUME NEW p \in Procs, StillSubmitted(p)
      PROVE  TypeOK'
  BY <1>20 DEF StillSubmitted, Idle, Goto, moneyVars, rowVars, lockVars
<1>21. ASSUME NEW p \in Procs, recordArrival(p)
      PROVE  TypeOK'
  BY <1>21 DEF recordArrival, LockPayoutForRequest, GiveBack, Done, On, Idle, EndTx, Drop,
     Goto, moneyVars, rowVars, lockVars
<1>22. ASSUME NEW p \in Procs, MarkPaid(p)
      PROVE  TypeOK'
  BY <1>22 DEF MarkPaid, Done, Idle, EndTx, Drop, Goto, moneyVars, rowVars, lockVars
<1>23. ASSUME NEW p \in Procs, Crash(p)
      PROVE  TypeOK'
  BY <1>23, WithdrawalAssumption
     DEF Crash, Done, Idle, EndTx, Drop, Goto, moneyVars, rowVars, lockVars
<1>24. ASSUME NEW p \in Procs, DeadlockVictim(p)
      PROVE  TypeOK'
  BY <1>24 DEF DeadlockVictim, WaitsFor, GiveBack, Done, Idle, EndTx, Drop, Goto,
     moneyVars, rowVars, lockVars
<1>25. ASSUME NEW r \in Requests, RailCompletes(r)
      PROVE  TypeOK'
  BY <1>25 DEF RailCompletes, moneyVars, rowVars, lockVars
<1>26. CASE UNCHANGED vars
  BY <1>26 DEF vars, moneyVars, rowVars, lockVars
<1> QED  BY <1>1, <1>2, <1>3, <1>4, <1>5, <1>6, <1>7, <1>8, <1>9, <1>10, <1>11, <1>12,
   <1>13, <1>14, <1>15, <1>16, <1>17, <1>18, <1>19, <1>20, <1>21, <1>22, <1>23, <1>24,
   <1>25, <1>26 DEF Next, Step

(* A step of caller p. *)
ByCaller(p) ==
    \/ \E m \in Members, want \in Wants, r \in Requests : Request(p, m, want, r)
    \/ \E r \in Requests : claim(p, r) \/ Reject(p, r) \/ Retry(p, r)
                           \/ Settle(p, r) \/ RecordByHand(p, r)
    \/ Step(p)
    \/ Crash(p)
    \/ DeadlockVictim(p)

(* The other callers stay where they are and keep the rows they hold. *)
OthersStay(p) == \A q \in Procs \ {p} :
    /\ pc'[q] = pc[q] /\ on'[q] = on[q] /\ taking'[q] = taking[q]
    /\ \A r \in Requests : reqLock[r] = q => reqLock'[r] = q
    /\ \A r \in Requests : payLock[r] = q => payLock'[r] = q
    /\ \A e \in Entries : entryLock[e] = q => entryLock'[e] = q

(* A step takes only rows nobody holds, and ends only its own transaction. *)
LEMMA Others ==
    ASSUME SafeInv, NEW p \in Procs, ByCaller(p)
    PROVE  OthersStay(p)
<1> USE WithdrawalAssumption DEF SafeInv, TypeOK, OthersStay
<1>1. ASSUME NEW m \in Members, NEW want \in Wants, NEW r \in Requests, Request(p, m, want,
             r)
      PROVE  OthersStay(p)
  BY <1>1 DEF Request, Free, Goto, Take, OwnedBy
<1>2. ASSUME NEW r \in Requests, claim(p, r) PROVE OthersStay(p)
  BY <1>2 DEF claim, awaitingDecision, Goto, rowVars, lockVars
<1>3. ASSUME NEW r \in Requests, Reject(p, r) PROVE OthersStay(p)
  BY <1>3 DEF Reject, awaitingDecision, Holds, Free, Take,
     LockWithdrawalRequestForDecision, Goto, rowVars, lockVars
<1>4. ASSUME NEW r \in Requests, Retry(p, r) PROVE OthersStay(p)
  BY <1>4 DEF Retry, LockWithdrawalRequestForDecision, Goto, rowVars, lockVars
<1>5. ASSUME NEW r \in Requests, Settle(p, r) PROVE OthersStay(p)
  BY <1>5 DEF Settle, Goto, rowVars, lockVars
<1>6. ASSUME NEW r \in Requests, RecordByHand(p, r) PROVE OthersStay(p)
  BY <1>6 DEF RecordByHand, Goto, rowVars, lockVars
<1>7. CASE Reserve(p)
  BY <1>7, ReservePosts DEF Posts, On, Done, Idle, EndTx, Drop, Goto, lockVars
<1>8. CASE CreateRequest(p)
  BY <1>8 DEF CallersKnow, Knows, CreateRequest, Done, Idle, EndTx, Drop, Goto, Take,
     rowVars, lockVars
<1>9. CASE Submit(p)
  BY <1>9 DEF Submit, Accepts, Refuses, Loses, On, Idle, Goto, rowVars, lockVars
<1>10. CASE recordSubmission(p)
  BY <1>10 DEF recordSubmission, RecordPayoutSubmission, Idle, Goto, rowVars, lockVars
<1>11. CASE ReleaseRejected(p)
  BY <1>11, ReleaseRejectedPosts DEF Posts, On, Done, Idle, EndTx, Drop, Goto, lockVars
<1>12. CASE RecordRejection(p)
  BY <1>12 DEF CallersKnow, Knows, RecordRejection, Done, Idle, EndTx, Drop, Goto, Take,
     rowVars, lockVars
<1>13. CASE Pending(p)
  BY <1>13 DEF CallersKnow, Knows, Pending, On, Idle, EndTx, Drop, Goto, rowVars, lockVars
<1>14. CASE Resend(p)
  BY <1>14 DEF Resend, Accepts, Refuses, Loses, On, Idle, Goto, rowVars, lockVars
<1>15. CASE Abandon(p)
  BY <1>15 DEF CallersKnow, Knows, Abandon, LockPayoutForRequest, GiveBack, Done, On, Idle,
     EndTx, Drop, Goto, rowVars, lockVars
<1>16. CASE AbandonRequest(p)
  BY <1>16 DEF CallersKnow, Knows, AbandonRequest, Holds, Free, Take,
     LockWithdrawalRequestForDecision, Goto, rowVars, lockVars
<1>17. CASE PutBack(p)
  BY <1>17, PutBackPosts DEF Posts, On, Done, Idle, EndTx, Drop, Goto, lockVars
<1>18. CASE FailPayout(p)
  BY <1>18 DEF CallersKnow, Knows, FailPayout, Done, Idle, EndTx, Drop, Goto, Take,
     rowVars, lockVars
<1>19. CASE Status(p)
  BY <1>19 DEF Status, On, Goto, rowVars, lockVars
<1>20. CASE StillSubmitted(p)
  BY <1>20 DEF StillSubmitted, Idle, Goto, rowVars, lockVars
<1>21. CASE recordArrival(p)
  BY <1>21 DEF CallersKnow, Knows, recordArrival, LockPayoutForRequest, GiveBack, Done, On,
     Idle, EndTx, Drop, Goto, rowVars, lockVars
<1>22. CASE MarkPaid(p)
  BY <1>22 DEF CallersKnow, Knows, MarkPaid, Done, Idle, EndTx, Drop, Goto, rowVars,
     lockVars
<1>23. CASE Crash(p)
  BY <1>23 DEF Crash, Done, Idle, EndTx, Drop, Goto, rowVars, lockVars
<1>24. CASE DeadlockVictim(p)
  BY <1>24 DEF DeadlockVictim, WaitsFor, GiveBack, Done, Idle, EndTx, Drop, Goto, rowVars,
     lockVars
<1> QED  BY <1>1, <1>2, <1>3, <1>4, <1>5, <1>6, <1>7, <1>8, <1>9, <1>10, <1>11, <1>12,
   <1>13, <1>14, <1>15, <1>16, <1>17, <1>18, <1>19, <1>20, <1>21, <1>22, <1>23, <1>24
   DEF ByCaller, Step

(* Every step is a caller's, or the rail's, or no step. *)
LEMMA StepIsOneOf ==
    ASSUME [Next]_vars
    PROVE  \/ \E p \in Procs : ByCaller(p)
           \/ \E r \in Requests : RailCompletes(r)
           \/ UNCHANGED vars
BY DEF Next, ByCaller

(* A caller that goes on to write has taken the rows it will write. *)
LEMMA OwnLocks ==
    ASSUME SafeInv, NEW p \in Procs, ByCaller(p)
    PROVE  HoldsRows(p)'
<1> USE WithdrawalAssumption DEF SafeInv, TypeOK, LocksHeld, HoldsRows
<1>1. ASSUME NEW m \in Members, NEW want \in Wants, NEW r \in Requests, Request(p, m, want,
             r)
      PROVE  HoldsRows(p)'
  <2>1. Covering(OwnedBy(m) \cap In("confirmed"), want) \subseteq OwnedBy(m) \cap In("confirmed")
    BY DEF Covering
  <2> QED  BY <1>1, <2>1 DEF Asking, Refusing, GivingUp, Request, Goto, Take, OwnedBy
<1>2. ASSUME NEW r \in Requests, claim(p, r) PROVE HoldsRows(p)'
  BY <1>2 DEF Asking, Refusing, GivingUp, claim, awaitingDecision, Goto, lockVars
<1>3. ASSUME NEW r \in Requests, Reject(p, r) PROVE HoldsRows(p)'
  BY <1>3 DEF Asking, Refusing, GivingUp, Reject, awaitingDecision, Holds, Take,
     LockWithdrawalRequestForDecision, Goto, lockVars
<1>4. ASSUME NEW r \in Requests, Retry(p, r) PROVE HoldsRows(p)'
  BY <1>4 DEF Asking, Refusing, GivingUp, Retry, LockWithdrawalRequestForDecision, Goto,
     lockVars
<1>5. ASSUME NEW r \in Requests, Settle(p, r) PROVE HoldsRows(p)'
  BY <1>5 DEF Asking, Refusing, GivingUp, Settle, Goto, lockVars
<1>6. ASSUME NEW r \in Requests, RecordByHand(p, r) PROVE HoldsRows(p)'
  BY <1>6 DEF Asking, Refusing, GivingUp, RecordByHand, Goto, lockVars
<1>7. CASE Reserve(p)
  <2>1. CASE On(p, "create") /\ UNCHANGED lockVars
    BY <1>7, <2>1, ReservePosts DEF Asking, Refusing, GivingUp, On, Goto, lockVars
  <2>2. CASE Done(p)
    BY <2>2 DEF Asking, Refusing, GivingUp, Done, Idle, Goto
  <2> QED  BY <1>7, <2>1, <2>2, ReservePosts DEF Posts
<1>8. CASE CreateRequest(p)
  BY <1>8 DEF Asking, Refusing, GivingUp, CallersKnow, Knows, CreateRequest, Done, Idle,
     EndTx, Goto, Take, lockVars
<1>9. CASE Submit(p)
  BY <1>9 DEF Asking, Refusing, GivingUp, Submit, Accepts, Refuses, Loses, On, Idle, Goto,
     lockVars
<1>10. CASE recordSubmission(p)
  BY <1>10 DEF Asking, Refusing, GivingUp, recordSubmission, RecordPayoutSubmission, Idle,
     Goto, lockVars
<1>11. CASE ReleaseRejected(p)
  <2>1. CASE On(p, "refuse") /\ UNCHANGED lockVars
    BY <1>11, <2>1, ReleaseRejectedPosts DEF Asking, Refusing, GivingUp, On, Goto, lockVars
  <2>2. CASE Done(p)
    BY <2>2 DEF Asking, Refusing, GivingUp, Done, Idle, Goto
  <2> QED  BY <1>11, <2>1, <2>2, ReleaseRejectedPosts DEF Posts
<1>12. CASE RecordRejection(p)
  BY <1>12 DEF Asking, Refusing, GivingUp, CallersKnow, Knows, RecordRejection, Done, Idle,
     EndTx, Goto, Take, lockVars
<1>13. CASE Pending(p)
  BY <1>13 DEF Asking, Refusing, GivingUp, CallersKnow, Knows, Pending, On, Idle, EndTx,
     Goto, lockVars
<1>14. CASE Resend(p)
  BY <1>14 DEF Asking, Refusing, GivingUp, Resend, Accepts, Refuses, Loses, On, Idle, Goto,
     lockVars
<1>15. CASE Abandon(p)
  BY <1>15 DEF Asking, Refusing, GivingUp, CallersKnow, Knows, Abandon,
     LockPayoutForRequest, GiveBack, Done, On, Idle, EndTx, Goto, lockVars
<1>16. CASE AbandonRequest(p)
  BY <1>16 DEF Asking, Refusing, GivingUp, CallersKnow, Knows, AbandonRequest, Holds, Take,
     LockWithdrawalRequestForDecision, Goto, lockVars
<1>17. CASE PutBack(p)
  <2>1. CASE On(p, "fail") /\ UNCHANGED lockVars
    BY <1>17, <2>1, PutBackPosts DEF Asking, Refusing, GivingUp, On, Goto, lockVars
  <2>2. CASE Done(p)
    BY <2>2 DEF Asking, Refusing, GivingUp, Done, Idle, Goto
  <2> QED  BY <1>17, <2>1, <2>2, PutBackPosts DEF Posts
<1>18. CASE FailPayout(p)
  BY <1>18 DEF Asking, Refusing, GivingUp, CallersKnow, Knows, FailPayout, Done, Idle,
     EndTx, Goto, Take, lockVars
<1>19. CASE Status(p)
  BY <1>19 DEF Asking, Refusing, GivingUp, Status, On, Goto, lockVars
<1>20. CASE StillSubmitted(p)
  BY <1>20 DEF Asking, Refusing, GivingUp, StillSubmitted, Idle, Goto, lockVars
<1>21. CASE recordArrival(p)
  BY <1>21 DEF Asking, Refusing, GivingUp, CallersKnow, Knows, recordArrival,
     LockPayoutForRequest, GiveBack, Done, On, Idle, EndTx, Goto, lockVars
<1>22. CASE MarkPaid(p)
  BY <1>22 DEF Asking, Refusing, GivingUp, CallersKnow, Knows, MarkPaid, Done, Idle, EndTx,
     Goto, lockVars
<1>23. CASE Crash(p)
  BY <1>23 DEF Asking, Refusing, GivingUp, Crash, Done, Idle, EndTx, Goto, lockVars
<1>24. CASE DeadlockVictim(p)
  BY <1>24 DEF Asking, Refusing, GivingUp, DeadlockVictim, GiveBack, Done, Idle, EndTx,
     Goto, lockVars
<1> QED  BY <1>1, <1>2, <1>3, <1>4, <1>5, <1>6, <1>7, <1>8, <1>9, <1>10, <1>11, <1>12,
   <1>13, <1>14, <1>15, <1>16, <1>17, <1>18, <1>19, <1>20, <1>21, <1>22, <1>23, <1>24
   DEF ByCaller, Step

(* Row locks stay with the callers that took them. *)
LEMMA LocksStep ==
    ASSUME SafeInv, [Next]_vars
    PROVE  LocksHeld'
<1>1. ASSUME NEW p \in Procs, ByCaller(p), NEW q \in Procs, q # p PROVE HoldsRows(q)'
  BY <1>1, Others DEF OthersStay, SafeInv, TypeOK, CallersKnow, Knows, LocksHeld, HoldsRows,
     Asking, Refusing, GivingUp
<1>2. ASSUME NEW r \in Requests, RailCompletes(r) PROVE LocksHeld'
  BY <1>2 DEF RailCompletes, SafeInv, LocksHeld, HoldsRows, lockVars
<1>3. CASE UNCHANGED vars
  BY <1>3 DEF vars, SafeInv, LocksHeld, HoldsRows, lockVars
<1> QED  BY <1>1, <1>2, <1>3, OwnLocks, StepIsOneOf DEF LocksHeld

------------------------------------------------------------------------------
(* The rows, the rail and the callers.                                     *)

RowsStay == UNCHANGED <<entry, request, under, payout, rail>>

(* The steps that write a row or move the rail are few. *)
LEMMA WhoWrites ==
    ASSUME SafeInv, [Next]_vars
    PROVE  \/ RowsStay
           \/ \E p \in Procs, r \in Requests : claim(p, r)
           \/ \E p \in Procs : \/ CreateRequest(p) \/ RecordRejection(p) \/ FailPayout(p)
                               \/ MarkPaid(p) \/ Submit(p) \/ Resend(p)
           \/ \E r \in Requests : RailCompletes(r)
<1> USE DEF RowsStay, rowVars
<1>1. ASSUME NEW p \in Procs, NEW m \in Members, NEW want \in Wants, NEW r \in Requests,
             Request(p, m, want, r)
      PROVE  RowsStay
  BY <1>1 DEF Request
<1>2. ASSUME NEW p \in Procs, NEW r \in Requests,
             Reject(p, r) \/ Retry(p, r) \/ Settle(p, r) \/ RecordByHand(p, r)
      PROVE  RowsStay
  BY <1>2 DEF Reject, Retry, Settle, RecordByHand
<1>3. ASSUME NEW p \in Procs, Reserve(p) \/ ReleaseRejected(p) \/ PutBack(p)
      PROVE  RowsStay
  BY <1>3 DEF Reserve, ReleaseRejected, PutBack, Release, PostThen
<1>4. ASSUME NEW p \in Procs,
             \/ recordSubmission(p) \/ Pending(p) \/ Abandon(p) \/ AbandonRequest(p)
             \/ Status(p) \/ StillSubmitted(p) \/ recordArrival(p)
      PROVE  RowsStay
  BY <1>4 DEF recordSubmission, Pending, Abandon, AbandonRequest, Status, StillSubmitted,
     recordArrival, GiveBack
<1>5. ASSUME NEW p \in Procs, Crash(p) \/ DeadlockVictim(p)
      PROVE  RowsStay
  BY <1>5 DEF Crash, DeadlockVictim, GiveBack
<1>6. CASE UNCHANGED vars
  BY <1>6 DEF vars
<1> QED  BY <1>1, <1>2, <1>3, <1>4, <1>5, <1>6 DEF Next, Step

(* Request, payout and rail go forward together. *)
LEMMA RowsStep ==
    ASSUME SafeInv, [Next]_vars
    PROVE  RowsAgree'
<1> USE DEF SafeInv, TypeOK, RowsAgree
<1>1. CASE RowsStay
  BY <1>1 DEF RowsStay
<1>2. ASSUME NEW p \in Procs, NEW r \in Requests, claim(p, r) PROVE RowsAgree'
  BY <1>2 DEF claim, awaitingDecision, CallersKnow, Knows, Asking, Refusing, GivingUp,
     rowVars
<1>3. ASSUME NEW p \in Procs, CreateRequest(p) PROVE RowsAgree'
  BY <1>3 DEF CreateRequest, Take, CallersKnow, Knows, Asking, Refusing, GivingUp, rowVars
<1>4. ASSUME NEW p \in Procs, RecordRejection(p) PROVE RowsAgree'
  BY <1>4 DEF RecordRejection, Take, CallersKnow, Knows, Asking, Refusing, GivingUp, rowVars
<1>5. ASSUME NEW p \in Procs, FailPayout(p) PROVE RowsAgree'
  BY <1>5 DEF FailPayout, Take, CallersKnow, Knows, Asking, Refusing, GivingUp, rowVars
<1>6. ASSUME NEW p \in Procs, MarkPaid(p) PROVE RowsAgree'
  BY <1>6 DEF MarkPaid, CallersKnow, Knows, Asking, Refusing, GivingUp, rowVars
<1>7. ASSUME NEW p \in Procs, Submit(p) PROVE RowsAgree'
  BY <1>7 DEF Submit, Accepts, Refuses, Loses, CallersKnow, Knows, Asking, Refusing,
     GivingUp, rowVars
<1>8. ASSUME NEW p \in Procs, Resend(p) PROVE RowsAgree'
  BY <1>8 DEF Resend, Accepts, Refuses, Loses, CallersKnow, Knows, Asking, Refusing,
     GivingUp, rowVars
<1>9. ASSUME NEW r \in Requests, RailCompletes(r) PROVE RowsAgree'
  BY <1>9 DEF RailCompletes, rowVars
<1> QED  BY <1>1, <1>2, <1>3, <1>4, <1>5, <1>6, <1>7, <1>8, <1>9, WhoWrites

(* What one request that stands holds, no other takes or gives back. *)
LEMMA ApartStep ==
    ASSUME SafeInv, [Next]_vars
    PROVE  Apart'
<1> USE DEF SafeInv, TypeOK, RowsAgree, Apart, Standing, In
<1>1. CASE RowsStay
  BY <1>1 DEF RowsStay
<1>2. ASSUME NEW p \in Procs, NEW r \in Requests, claim(p, r) PROVE Apart'
  BY <1>2 DEF claim, awaitingDecision, CallersKnow, Knows, Asking, Refusing, GivingUp,
     rowVars
<1>3. ASSUME NEW p \in Procs, CreateRequest(p) PROVE Apart'
  BY <1>3 DEF CreateRequest, Take, CallersKnow, Knows, Asking, Refusing, GivingUp, rowVars
<1>4. ASSUME NEW p \in Procs, RecordRejection(p) PROVE Apart'
  BY <1>4 DEF RecordRejection, Take, CallersKnow, Knows, Asking, Refusing, GivingUp, rowVars
<1>5. ASSUME NEW p \in Procs, FailPayout(p) PROVE Apart'
  BY <1>5 DEF FailPayout, Take, CallersKnow, Knows, Asking, Refusing, GivingUp, rowVars
<1>6. ASSUME NEW p \in Procs, MarkPaid(p) PROVE Apart'
  BY <1>6 DEF MarkPaid, CallersKnow, Knows, Asking, Refusing, GivingUp, rowVars
<1>7. ASSUME NEW p \in Procs, Submit(p) PROVE Apart'
  BY <1>7 DEF Submit, Accepts, Refuses, Loses, CallersKnow, Knows, Asking, Refusing,
     GivingUp, rowVars
<1>8. ASSUME NEW p \in Procs, Resend(p) PROVE Apart'
  BY <1>8 DEF Resend, Accepts, Refuses, Loses, CallersKnow, Knows, Asking, Refusing,
     GivingUp, rowVars
<1>9. ASSUME NEW r \in Requests, RailCompletes(r) PROVE Apart'
  BY <1>9 DEF RailCompletes, rowVars
<1> QED  BY <1>1, <1>2, <1>3, <1>4, <1>5, <1>6, <1>7, <1>8, <1>9, WhoWrites

(* A request that exists stands on a transfer. *)
LEMMA UnderTransfer ==
    ASSUME SafeInv, NEW r \in Requests, request[r] # "none"
    PROVE  /\ under[r] # {} /\ \E m \in Members : under[r] \in SUBSET OwnedBy(m)
           /\ posted[reservationKey(r)] = Reservation(under[r])
           /\ posted[reservationKey(r)] # NoTransfer
<1>1. under[r] # {} /\ \E m \in Members : under[r] \in SUBSET OwnedBy(m)
  BY DEF SafeInv, RowsAgree
<1>2. posted[reservationKey(r)] = Reservation(under[r])
  BY DEF SafeInv, Backed, Reservation, OwnerOfSet
<1> QED  BY <1>1, <1>2, TransferType DEF Reservation

(* What a caller knows of its request after its own step. *)
LEMMA OwnKnowledge ==
    ASSUME SafeInv, NEW p \in Procs, ByCaller(p)
    PROVE  Knows(p)'
<1> USE DEF SafeInv, TypeOK, CallersKnow, Knows, RowsAgree, Asking, Refusing, GivingUp, In
<1>1. ASSUME NEW m \in Members, NEW want \in Wants, NEW r \in Requests, Request(p, m, want,
             r)
      PROVE  Knows(p)'
  <2> DEFINE held == OwnedBy(m) \cap In("confirmed")
  <2>1. held \in SUBSET Entries /\ Total(held) >= want
    BY <1>1 DEF Request, OwnedBy
  <2>2. Covering(held, want) \subseteq held /\ Covering(held, want) # {}
    <3> HIDE DEF held
    <3> QED  BY <2>1, CoveringTakes
  <2>3. request[r] = "none"
    BY <1>1, UnderTransfer DEF Request
  <2>4. /\ pc'[p] = "reserve" /\ on'[p] = r /\ taking'[p] = Covering(held, want)
        /\ UNCHANGED <<entry, request, under, payout, rail>>
    BY <1>1 DEF Request, Goto, rowVars
  <2> HIDE DEF In
  <2>5. In("confirmed")' = In("confirmed")
    BY <2>4 DEF In
  <2> HIDE DEF SafeInv, TypeOK, CallersKnow, RowsAgree
  <2>6. taking'[p] # {} /\ taking'[p] \subseteq In("confirmed")' /\ request'[r] = "none"
    BY <2>2, <2>3, <2>4, <2>5
  <2>7. taking'[p] \subseteq OwnedBy(m)
    BY <2>2, <2>4
  <2> QED  BY <2>4, <2>6, <2>7
<1>2. ASSUME NEW r \in Requests, claim(p, r) PROVE Knows(p)'
  BY <1>2 DEF claim, awaitingDecision, Goto, rowVars
<1>3. ASSUME NEW r \in Requests, Reject(p, r) PROVE Knows(p)'
  BY <1>3 DEF Reject, awaitingDecision, Holds, Take, Goto, rowVars
<1>4. ASSUME NEW r \in Requests, Retry(p, r) PROVE Knows(p)'
  BY <1>4 DEF Retry, Goto, rowVars
<1>5. ASSUME NEW r \in Requests, Settle(p, r) PROVE Knows(p)'
  BY <1>5 DEF Settle, Goto, rowVars
<1>6. ASSUME NEW r \in Requests, RecordByHand(p, r) PROVE Knows(p)'
  BY <1>6 DEF RecordByHand, Goto, rowVars
<1>7. CASE Reserve(p)
  <2>1. CASE On(p, "create")
    <3>1. pc[p] = "reserve" /\ UNCHANGED <<entry, request, under, payout, rail>>
      BY <1>7, ReservePosts DEF Posts, rowVars
    <3>2. pc'[p] = "create" /\ on'[p] = on[p] /\ taking'[p] = taking[p]
      BY <2>1 DEF On, Goto
    <3> QED  BY <3>1, <3>2
  <2>2. CASE Done(p)
    BY <2>2 DEF Done, Idle, Goto
  <2> QED  BY <1>7, <2>1, <2>2, ReservePosts DEF Posts
<1>8. CASE CreateRequest(p)
  BY <1>8 DEF CreateRequest, Done, Idle, Goto, Take, rowVars
<1>9. CASE Submit(p)
  BY <1>9 DEF Submit, Accepts, Refuses, Loses, On, Idle, Goto, rowVars
<1>10. CASE recordSubmission(p)
  BY <1>10 DEF recordSubmission, RecordPayoutSubmission, Idle, Goto, rowVars
<1>11. CASE ReleaseRejected(p)
  <2>1. CASE On(p, "refuse")
    <3>1. pc[p] = "release" /\ UNCHANGED <<entry, request, under, payout, rail>>
      BY <1>11, ReleaseRejectedPosts DEF Posts, rowVars
    <3>2. pc'[p] = "refuse" /\ on'[p] = on[p] /\ taking'[p] = taking[p]
      BY <2>1 DEF On, Goto
    <3> QED  BY <3>1, <3>2
  <2>2. CASE Done(p)
    BY <2>2 DEF Done, Idle, Goto
  <2> QED  BY <1>11, <2>1, <2>2, ReleaseRejectedPosts DEF Posts
<1>12. CASE RecordRejection(p)
  BY <1>12 DEF RecordRejection, Done, Idle, Goto, Take, rowVars
<1>13. CASE Pending(p)
  BY <1>13 DEF Pending, On, Idle, Goto, rowVars
<1>14. CASE Resend(p)
  BY <1>14 DEF Resend, Accepts, Refuses, Loses, On, Idle, Goto, rowVars
<1>15. CASE Abandon(p)
  BY <1>15 DEF Abandon, GiveBack, Done, On, Idle, Goto, rowVars
<1>16. CASE AbandonRequest(p)
  BY <1>16 DEF AbandonRequest, Holds, Take, Goto, rowVars
<1>17. CASE PutBack(p)
  <2>1. CASE On(p, "fail")
    <3>1. pc[p] = "putBack" /\ UNCHANGED <<entry, request, under, payout, rail>>
      BY <1>17, PutBackPosts DEF Posts, rowVars
    <3>2. pc'[p] = "fail" /\ on'[p] = on[p] /\ taking'[p] = taking[p]
      BY <2>1 DEF On, Goto
    <3> QED  BY <3>1, <3>2
  <2>2. CASE Done(p)
    BY <2>2 DEF Done, Idle, Goto
  <2> QED  BY <1>17, <2>1, <2>2, PutBackPosts DEF Posts
<1>18. CASE FailPayout(p)
  BY <1>18 DEF FailPayout, Done, Idle, Goto, Take, rowVars
<1>19. CASE Status(p)
  BY <1>19 DEF Status, On, Goto, rowVars
<1>20. CASE StillSubmitted(p)
  BY <1>20 DEF StillSubmitted, Idle, Goto, rowVars
<1>21. CASE recordArrival(p)
  BY <1>21 DEF recordArrival, GiveBack, Done, On, Idle, Goto, rowVars
<1>22. CASE MarkPaid(p)
  BY <1>22 DEF MarkPaid, Done, Idle, Goto, rowVars
<1>23. CASE Crash(p)
  BY <1>23 DEF Crash, Done, Idle, Goto, rowVars
<1>24. CASE DeadlockVictim(p)
  BY <1>24 DEF DeadlockVictim, GiveBack, Done, Idle, Goto, rowVars
<1> QED  BY <1>1, <1>2, <1>3, <1>4, <1>5, <1>6, <1>7, <1>8, <1>9, <1>10, <1>11, <1>12,
   <1>13, <1>14, <1>15, <1>16, <1>17, <1>18, <1>19, <1>20, <1>21, <1>22, <1>23, <1>24
   DEF ByCaller, Step

(* Nobody changes what a caller knows behind its back: whoever would needs *)
(* a row that the caller holds, or has minted another id.                  *)
LEMMA OthersKnowledge ==
    ASSUME SafeInv, [Next]_vars, NEW q \in Procs,
           pc'[q] = pc[q], on'[q] = on[q], taking'[q] = taking[q]
    PROVE  Knows(q)'
<1> USE WithdrawalAssumption DEF SafeInv, TypeOK, CallersKnow, Knows, RowsAgree,
        Asking, Refusing, GivingUp, In
<1>1. CASE RowsStay
  BY <1>1 DEF RowsStay
<1>2. ASSUME NEW p \in Procs, NEW r \in Requests, claim(p, r) PROVE Knows(q)'
  <2>1. CASE on[q] # r
    BY <1>2, <2>1 DEF claim, rowVars
  <2>2. CASE on[q] = r
    <3>1. pc[q] \notin Asking \cup Refusing
      BY <1>2, <2>2 DEF claim, awaitingDecision, LocksHeld, HoldsRows
    <3>2. request'[r] = "approved" /\ payout'[r] = "submitted" /\ UNCHANGED <<entry, under, rail>>
      BY <1>2 DEF claim, rowVars
    <3> QED  BY <2>2, <3>1, <3>2
  <2> QED  BY <2>1, <2>2
<1>3. ASSUME NEW p \in Procs, CreateRequest(p) PROVE Knows(q)'
  <2>1. p # q /\ on[p] \in Requests /\ request[on[p]] = "none"
    BY <1>3 DEF CreateRequest, Done, Idle, Goto
  <2>2. pc[q] # "idle" => on[q] # on[p]
    BY <1>3, <2>1 DEF CreateRequest, OneAsker
  <2>3. /\ \A r \in Requests \ {on[p]} : request'[r] = request[r] /\ under'[r] = under[r]
        /\ UNCHANGED <<payout, rail>>
    BY <1>3 DEF CreateRequest
  <2>4. ASSUME pc[q] \in Asking, NEW e \in taking[q] PROVE entry'[e] = entry[e]
    <3>1. entryLock[e] = q /\ \A f \in taking[p] : entryLock[f] = p
      BY <1>3, <2>4 DEF CreateRequest, LocksHeld, HoldsRows
    <3> QED  BY <1>3, <2>1, <2>4, <3>1 DEF CreateRequest, Take
  <2>5. CASE pc[q] \in Asking
    <3>1. request'[on[q]] = "none" /\ taking[q] \subseteq {e \in Entries : entry'[e] = "confirmed"}
      <4>1. \A e \in taking[q] : e \in Entries /\ entry[e] = "confirmed"
        BY <2>5
      <4>2. request'[on[q]] = "none"
        BY <2>2, <2>3, <2>5
      <4> HIDE DEF SafeInv, TypeOK, CallersKnow, RowsAgree
      <4> QED  BY <4>1, <4>2, <2>4, <2>5
    <3>2. on[q] \in Requests /\ taking[q] # {} /\ \E m \in Members : taking[q] \subseteq OwnedBy(m)
      BY <2>5
    <3> HIDE DEF SafeInv, TypeOK, CallersKnow, RowsAgree
    <3> QED  BY <2>5, <3>1, <3>2
  <2>6. CASE pc[q] \notin Asking
    BY <2>2, <2>3, <2>6
  <2> QED  BY <2>5, <2>6
<1>4. ASSUME NEW p \in Procs, RecordRejection(p) PROVE Knows(q)'
  <2>1. p # q /\ on[p] \in Requests /\ reqLock[on[p]] = p /\ request[on[p]] = "awaiting_approval"
    BY <1>4 DEF RecordRejection, Done, Idle, Goto, LocksHeld, HoldsRows
  <2>2. pc[q] \in Refusing => on[q] # on[p]
    BY <2>1 DEF LocksHeld, HoldsRows
  <2>3. /\ request'[on[p]] \in {request[on[p]], "rejected"}
        /\ \A r \in Requests \ {on[p]} : request'[r] = request[r]
        /\ UNCHANGED <<under, payout, rail>>
    BY <1>4 DEF RecordRejection
  <2>4. \A e \in Entries : entry[e] = "confirmed" => entry'[e] = "confirmed"
    BY <1>4 DEF RecordRejection, Take
  <2>5. CASE pc[q] \in Asking
    <3>1. request'[on[q]] = "none" /\ taking[q] \subseteq {e \in Entries : entry'[e] = "confirmed"}
      <4>1. \A e \in taking[q] : e \in Entries /\ entry[e] = "confirmed"
        BY <2>5
      <4>2. request'[on[q]] = "none"
        BY <2>1, <2>3, <2>5
      <4> HIDE DEF SafeInv, TypeOK, CallersKnow, RowsAgree
      <4> QED  BY <4>1, <4>2, <2>4, <2>5
    <3>2. on[q] \in Requests /\ taking[q] # {} /\ \E m \in Members : taking[q] \subseteq OwnedBy(m)
      BY <2>5
    <3> HIDE DEF SafeInv, TypeOK, CallersKnow, RowsAgree
    <3> QED  BY <2>5, <3>1, <3>2
  <2>6. CASE pc[q] \notin Asking
    BY <2>1, <2>2, <2>3, <2>6
  <2> QED  BY <2>5, <2>6
<1>5. ASSUME NEW p \in Procs, FailPayout(p) PROVE Knows(q)'
  <2>1. p # q /\ on[p] \in Requests /\ payLock[on[p]] = p /\ request[on[p]] = "approved"
    BY <1>5 DEF FailPayout, Done, Idle, Goto, LocksHeld, HoldsRows
  <2>2. pc[q] \in GivingUp \cup {"giveUp", "paid"} => on[q] # on[p]
    BY <2>1 DEF LocksHeld, HoldsRows
  <2>3. /\ request'[on[p]] \in {request[on[p]], "failed"}
        /\ \A r \in Requests \ {on[p]} : request'[r] = request[r] /\ payout'[r] = payout[r]
        /\ UNCHANGED <<under, rail>>
    BY <1>5 DEF FailPayout
  <2>4. \A e \in Entries : entry[e] = "confirmed" => entry'[e] = "confirmed"
    BY <1>5 DEF FailPayout, Take
  <2>5. CASE pc[q] \in Asking
    <3>1. request'[on[q]] = "none" /\ taking[q] \subseteq {e \in Entries : entry'[e] = "confirmed"}
      <4>1. \A e \in taking[q] : e \in Entries /\ entry[e] = "confirmed"
        BY <2>5
      <4>2. request'[on[q]] = "none"
        BY <2>1, <2>3, <2>5
      <4> HIDE DEF SafeInv, TypeOK, CallersKnow, RowsAgree
      <4> QED  BY <4>1, <4>2, <2>4, <2>5
    <3>2. on[q] \in Requests /\ taking[q] # {} /\ \E m \in Members : taking[q] \subseteq OwnedBy(m)
      BY <2>5
    <3> HIDE DEF SafeInv, TypeOK, CallersKnow, RowsAgree
    <3> QED  BY <2>5, <3>1, <3>2
  <2>6. CASE pc[q] \notin Asking
    BY <2>1, <2>2, <2>3, <2>6
  <2> QED  BY <2>5, <2>6
<1>6. ASSUME NEW p \in Procs, MarkPaid(p) PROVE Knows(q)'
  <2>1. p # q /\ on[p] \in Requests /\ payLock[on[p]] = p /\ request[on[p]] = "approved"
    BY <1>6 DEF MarkPaid, Done, Idle, Goto, LocksHeld, HoldsRows
  <2>2. pc[q] \in GivingUp \cup {"giveUp", "paid"} => on[q] # on[p]
    BY <2>1 DEF LocksHeld, HoldsRows
  <2>3. /\ request'[on[p]] = "paid"
        /\ \A r \in Requests \ {on[p]} : request'[r] = request[r] /\ payout'[r] = payout[r]
        /\ UNCHANGED <<entry, under, rail>>
    BY <1>6, <2>1 DEF MarkPaid
  <2> QED  BY <2>1, <2>2, <2>3
<1>7. ASSUME NEW p \in Procs, Submit(p) PROVE Knows(q)'
  BY <1>7 DEF Submit, Accepts, Refuses, Loses, rowVars
<1>8. ASSUME NEW p \in Procs, Resend(p) PROVE Knows(q)'
  BY <1>8 DEF Resend, Accepts, Refuses, Loses, rowVars
<1>9. ASSUME NEW r \in Requests, RailCompletes(r) PROVE Knows(q)'
  BY <1>9 DEF RailCompletes, rowVars
<1> QED  BY <1>1, <1>2, <1>3, <1>4, <1>5, <1>6, <1>7, <1>8, <1>9, WhoWrites

(* What callers know survives every step. *)
LEMMA KnowsStep ==
    ASSUME SafeInv, [Next]_vars
    PROVE  CallersKnow'
<1>1. ASSUME NEW p \in Procs, ByCaller(p), NEW q \in Procs, q # p PROVE Knows(q)'
  BY <1>1, Others, OthersKnowledge DEF OthersStay
<1>2. ASSUME NEW r \in Requests, RailCompletes(r), NEW q \in Procs PROVE Knows(q)'
  BY <1>2, OthersKnowledge DEF RailCompletes
<1>3. ASSUME UNCHANGED vars, NEW q \in Procs PROVE Knows(q)'
  BY <1>3, OthersKnowledge DEF vars
<1> QED  BY <1>1, <1>2, <1>3, OwnKnowledge, StepIsOneOf DEF CallersKnow

(* A caller comes to ask with an id nobody else has, and gets past a       *)
(* transfer only by posting it.                                            *)
Arrives(p) ==
    /\ pc'[p] \in Asking =>
         \/ pc[p] \in Asking /\ on'[p] = on[p]
         \/ \A q \in Procs : on[q] # on'[p]
    /\ pc'[p] = "create" => Reserve(p)
    /\ pc'[p] = "refuse" => ReleaseRejected(p)
    /\ pc'[p] = "fail" => PutBack(p)

(* Where a caller gets to, the facts hold that it goes on with. *)
LEMMA Arrivals ==
    ASSUME SafeInv, NEW p \in Procs, ByCaller(p)
    PROVE  Arrives(p)
<1> USE DEF SafeInv, TypeOK, Arrives, Asking
<1>1. ASSUME NEW m \in Members, NEW want \in Wants, NEW r \in Requests, Request(p, m, want,
             r)
      PROVE  Arrives(p)
  BY <1>1 DEF Request, Goto
<1>2. ASSUME NEW r \in Requests, claim(p, r) PROVE Arrives(p)
  BY <1>2 DEF claim, Goto
<1>3. ASSUME NEW r \in Requests, Reject(p, r) PROVE Arrives(p)
  BY <1>3 DEF Reject, Goto
<1>4. ASSUME NEW r \in Requests, Retry(p, r) PROVE Arrives(p)
  BY <1>4 DEF Retry, Goto
<1>5. ASSUME NEW r \in Requests, Settle(p, r) PROVE Arrives(p)
  BY <1>5 DEF Settle, Goto
<1>6. ASSUME NEW r \in Requests, RecordByHand(p, r) PROVE Arrives(p)
  BY <1>6 DEF RecordByHand, Goto
<1>7. CASE Reserve(p)
  BY <1>7, ReservePosts DEF Posts, On, Done, Idle, Goto
<1>8. CASE CreateRequest(p)
  BY <1>8 DEF CreateRequest, Done, Idle, Goto
<1>9. CASE Submit(p)
  BY <1>9 DEF Submit, On, Idle, Goto
<1>10. CASE recordSubmission(p)
  BY <1>10 DEF recordSubmission, Idle, Goto
<1>11. CASE ReleaseRejected(p)
  BY <1>11, ReleaseRejectedPosts DEF Posts, On, Done, Idle, Goto
<1>12. CASE RecordRejection(p)
  BY <1>12 DEF RecordRejection, Done, Idle, Goto
<1>13. CASE Pending(p)
  BY <1>13 DEF Pending, On, Idle, Goto
<1>14. CASE Resend(p)
  BY <1>14 DEF Resend, On, Idle, Goto
<1>15. CASE Abandon(p)
  BY <1>15 DEF Abandon, GiveBack, Done, On, Idle, Goto
<1>16. CASE AbandonRequest(p)
  BY <1>16 DEF AbandonRequest, Goto
<1>17. CASE PutBack(p)
  BY <1>17, PutBackPosts DEF Posts, On, Done, Idle, Goto
<1>18. CASE FailPayout(p)
  BY <1>18 DEF FailPayout, Done, Idle, Goto
<1>19. CASE Status(p)
  BY <1>19 DEF Status, On, Goto
<1>20. CASE StillSubmitted(p)
  BY <1>20 DEF StillSubmitted, Idle, Goto
<1>21. CASE recordArrival(p)
  BY <1>21 DEF recordArrival, GiveBack, Done, On, Idle, Goto
<1>22. CASE MarkPaid(p)
  BY <1>22 DEF MarkPaid, Done, Idle, Goto
<1>23. CASE Crash(p)
  BY <1>23 DEF Crash, Done, Idle, Goto
<1>24. CASE DeadlockVictim(p)
  BY <1>24 DEF DeadlockVictim, GiveBack, Done, Idle, Goto
<1> QED  BY <1>1, <1>2, <1>3, <1>4, <1>5, <1>6, <1>7, <1>8, <1>9, <1>10, <1>11, <1>12,
   <1>13, <1>14, <1>15, <1>16, <1>17, <1>18, <1>19, <1>20, <1>21, <1>22, <1>23, <1>24
   DEF ByCaller, Step

(* No two callers ask under one id. *)
LEMMA AskerStep ==
    ASSUME SafeInv, [Next]_vars
    PROVE  OneAsker'
<1>1. ASSUME NEW p \in Procs, ByCaller(p) PROVE OneAsker'
  BY <1>1, Others, Arrivals DEF OthersStay, Arrives, SafeInv, OneAsker
<1>2. ASSUME NEW r \in Requests, RailCompletes(r) PROVE OneAsker'
  BY <1>2 DEF RailCompletes, SafeInv, OneAsker
<1>3. CASE UNCHANGED vars
  BY <1>3 DEF vars, SafeInv, OneAsker
<1> QED  BY <1>1, <1>2, <1>3, StepIsOneOf

(* The steps that move money. *)
LEMMA WhoPosts ==
    ASSUME SafeInv, [Next]_vars
    PROVE  \/ UNCHANGED moneyVars
           \/ \E p \in Procs : Reserve(p) \/ ReleaseRejected(p) \/ PutBack(p)
<1>1. ASSUME NEW p \in Procs, NEW m \in Members, NEW want \in Wants, NEW r \in Requests,
             Request(p, m, want, r)
      PROVE  UNCHANGED moneyVars
  BY <1>1 DEF Request
<1>2. ASSUME NEW p \in Procs, NEW r \in Requests,
             claim(p, r) \/ Reject(p, r) \/ Retry(p, r) \/ Settle(p, r) \/ RecordByHand(p, r)
      PROVE  UNCHANGED moneyVars
  BY <1>2 DEF claim, Reject, Retry, Settle, RecordByHand
<1>3. ASSUME NEW p \in Procs,
             \/ CreateRequest(p) \/ RecordRejection(p) \/ FailPayout(p) \/ MarkPaid(p)
             \/ Submit(p) \/ Resend(p) \/ Crash(p) \/ DeadlockVictim(p)
      PROVE  UNCHANGED moneyVars
  BY <1>3 DEF CreateRequest, RecordRejection, FailPayout, MarkPaid, Submit, Resend, Crash,
     DeadlockVictim, GiveBack
<1>4. ASSUME NEW p \in Procs,
             \/ recordSubmission(p) \/ Pending(p) \/ Abandon(p) \/ AbandonRequest(p)
             \/ Status(p) \/ StillSubmitted(p) \/ recordArrival(p)
      PROVE  UNCHANGED moneyVars
  BY <1>4 DEF recordSubmission, Pending, Abandon, AbandonRequest, Status, StillSubmitted,
     recordArrival, GiveBack
<1>5. ASSUME NEW r \in Requests, RailCompletes(r) PROVE UNCHANGED moneyVars
  BY <1>5 DEF RailCompletes
<1>6. CASE UNCHANGED vars
  BY <1>6 DEF vars
<1> QED  BY <1>1, <1>2, <1>3, <1>4, <1>5, <1>6 DEF Next, Step

(* A key is written only by the caller whose request it belongs to. *)
LEMMA KeysStay ==
    ASSUME SafeInv, [Next]_vars
    PROVE  /\ \A r \in Requests :
                posted'[reservationKey(r)] # posted[reservationKey(r)] =>
                  \E p \in Procs : Reserve(p) /\ on[p] = r
           /\ \A r \in Requests :
                posted'[releaseKey(r)] # posted[releaseKey(r)] =>
                  \E p \in Procs : (ReleaseRejected(p) \/ PutBack(p)) /\ on[p] = r
<1>1. CASE UNCHANGED moneyVars
  BY <1>1 DEF moneyVars
<1>2. ASSUME NEW p \in Procs, Reserve(p)
      PROVE  \A k \in Keys : posted'[k] # posted[k] => k = reservationKey(on[p])
  BY <1>2, ReservePosts DEF Posts, SafeInv, TypeOK, moneyVars
<1>3. ASSUME NEW p \in Procs, ReleaseRejected(p)
      PROVE  \A k \in Keys : posted'[k] # posted[k] => k = releaseKey(on[p])
  BY <1>3, ReleaseRejectedPosts DEF Posts, SafeInv, TypeOK, moneyVars
<1>4. ASSUME NEW p \in Procs, PutBack(p)
      PROVE  \A k \in Keys : posted'[k] # posted[k] => k = releaseKey(on[p])
  BY <1>4, PutBackPosts DEF Posts, SafeInv, TypeOK, moneyVars
<1> QED  BY <1>1, <1>2, <1>3, <1>4, WhoPosts DEF reservationKey, releaseKey, Keys

(* A caller past its transfer still finds it under its key. *)
LEMMA MoneyStep ==
    ASSUME SafeInv, [Next]_vars
    PROVE  MoneyMoved'
<1>1. ASSUME NEW q \in Procs, pc'[q] = pc[q], on'[q] = on[q], taking'[q] = taking[q],
             pc[q] = "create"
      PROVE  posted'[reservationKey(on[q])] = Reservation(taking[q])
  <2>1. on[q] \in Requests /\ posted[reservationKey(on[q])] = Reservation(taking[q])
    BY <1>1 DEF SafeInv, MoneyMoved, CallersKnow, Knows
  <2>2. ASSUME NEW p \in Procs, Reserve(p), on[p] = on[q] PROVE FALSE
    BY <1>1, <2>2 DEF SafeInv, OneAsker, Asking, Reserve
  <2> QED  BY <2>1, <2>2, KeysStay
<1>2. ASSUME NEW q \in Procs, pc'[q] = pc[q], on'[q] = on[q], taking'[q] = taking[q],
             pc[q] \in {"refuse", "fail"}
      PROVE  posted'[releaseKey(on[q])] = ReleaseOf(taking[q])
  <2>1. on[q] \in Requests /\ posted[releaseKey(on[q])] = ReleaseOf(taking[q])
    BY <1>2 DEF SafeInv, MoneyMoved, CallersKnow, Knows
  <2>2. ASSUME NEW p \in Procs, ReleaseRejected(p) \/ PutBack(p), on[p] = on[q] PROVE FALSE
    <3>1. pc[p] \in {"release", "putBack"}
      BY <2>2 DEF ReleaseRejected, PutBack
    <3>2. reqLock[on[p]] = p /\ reqLock[on[q]] = q
      BY <1>2, <3>1 DEF SafeInv, LocksHeld, HoldsRows, Refusing, GivingUp
    <3> QED  BY <1>2, <2>2, <3>1, <3>2
  <2> QED  BY <2>1, <2>2, KeysStay
<1>3. ASSUME NEW p \in Procs, ByCaller(p) PROVE MoneyMoved'
  <2>1. ASSUME NEW q \in Procs, q # p
        PROVE  pc'[q] = pc[q] /\ on'[q] = on[q] /\ taking'[q] = taking[q]
    BY <1>3, <2>1, Others DEF OthersStay
  <2>2. ASSUME pc'[p] = "create"
        PROVE  posted'[reservationKey(on'[p])] = Reservation(taking'[p])
    BY <1>3, <2>2, Arrivals, ReservePosts
       DEF Arrives, Posts, On, Done, Idle, Goto, SafeInv, TypeOK
  <2>3. ASSUME pc'[p] \in {"refuse", "fail"}
        PROVE  posted'[releaseKey(on'[p])] = ReleaseOf(taking'[p])
    BY <1>3, <2>3, Arrivals, ReleaseRejectedPosts, PutBackPosts
       DEF Arrives, Posts, On, Done, Idle, Goto, SafeInv, TypeOK
  <2> QED  BY <1>1, <1>2, <2>1, <2>2, <2>3 DEF MoneyMoved
<1>4. ASSUME UNCHANGED <<pc, on, taking>> PROVE MoneyMoved'
  BY <1>1, <1>2, <1>4 DEF MoneyMoved
<1> QED  BY <1>3, <1>4, StepIsOneOf DEF RailCompletes, vars

(* A request keeps its transfer, and one that went nowhere has its release. *)
LEMMA BackedStep ==
    ASSUME SafeInv, [Next]_vars
    PROVE  Backed'
<1> DEFINE Stands(r) == request[r] # "none" =>
                /\ posted[reservationKey(r)] = Reservation(under[r])
                /\ request[r] \in {"rejected", "failed"} =>
                     posted[releaseKey(r)] = ReleaseOf(under[r])
<1>1. /\ Backed <=> \A r \in Requests : Stands(r)
      /\ Backed' <=> \A r \in Requests : Stands(r)'
  BY DEF Backed, Reservation, ReleaseOf, OwnerOfSet
<1>2. ASSUME NEW r \in Requests, request'[r] = request[r], under'[r] = under[r]
      PROVE  Stands(r)'
  <2>1. ASSUME request[r] # "none", NEW p \in Procs, Reserve(p), on[p] = r PROVE FALSE
    BY <2>1 DEF SafeInv, CallersKnow, Knows, Reserve, Asking
  <2>2. ASSUME request[r] \in {"rejected", "failed"}, NEW p \in Procs,
               ReleaseRejected(p) \/ PutBack(p), on[p] = r
        PROVE  FALSE
    BY <2>2 DEF SafeInv, CallersKnow, Knows, RowsAgree, ReleaseRejected, PutBack,
       Refusing, GivingUp
  <2> QED  BY <1>1, <1>2, <2>1, <2>2, KeysStay DEF SafeInv
<1>3. CASE RowsStay
  BY <1>1, <1>2, <1>3 DEF RowsStay
<1>4. ASSUME NEW p \in Procs, NEW r \in Requests, claim(p, r) PROVE Backed'
  <2>1. Stands(r)'
    BY <1>1, <1>4 DEF claim, awaitingDecision, moneyVars, SafeInv, TypeOK
  <2> QED  BY <1>1, <1>2, <1>4, <2>1 DEF claim, SafeInv, TypeOK
<1>5. ASSUME NEW p \in Procs, CreateRequest(p) PROVE Backed'
  <2>1. PICK r \in Requests : r = on[p] /\ posted[reservationKey(r)] = Reservation(taking[p])
    BY <1>5 DEF CreateRequest, SafeInv, CallersKnow, Knows, MoneyMoved
  <2>2. /\ posted' = posted
        /\ \A q \in Requests \ {r} : request'[q] = request[q] /\ under'[q] = under[q]
    BY <1>5, <2>1 DEF CreateRequest, moneyVars, SafeInv, TypeOK
  <2>3. \/ request'[r] = "awaiting_approval" /\ under'[r] = taking[p]
        \/ request'[r] = request[r] /\ under'[r] = under[r]
    BY <1>5, <2>1 DEF CreateRequest, SafeInv, TypeOK
  <2>4. Stands(r)'
    BY <1>2, <2>1, <2>2, <2>3
  <2> HIDE DEF Stands
  <2> QED  BY <1>1, <1>2, <2>2, <2>4
<1>6. ASSUME NEW p \in Procs, RecordRejection(p) \/ FailPayout(p) PROVE Backed'
  <2>1. PICK r \in Requests :
          /\ r = on[p] /\ request[r] # "none"
          /\ posted[releaseKey(r)] = ReleaseOf(under[r])
    BY <1>6 DEF RecordRejection, FailPayout, SafeInv, CallersKnow, Knows, MoneyMoved,
       Asking, Refusing, GivingUp
  <2>2. /\ posted' = posted /\ under' = under
        /\ \A q \in Requests \ {r} : request'[q] = request[q]
    BY <1>6, <2>1 DEF RecordRejection, FailPayout, moneyVars, SafeInv, TypeOK
  <2>3. posted[reservationKey(r)] = Reservation(under[r])
    BY <2>1, UnderTransfer
  <2>4. Stands(r)'
    BY <2>1, <2>2, <2>3
  <2> HIDE DEF Stands
  <2> QED  BY <1>1, <1>2, <2>2, <2>4
<1>7. ASSUME NEW p \in Procs, MarkPaid(p) PROVE Backed'
  <2>1. PICK r \in Requests : r = on[p] /\ request[r] # "none"
    BY <1>7 DEF MarkPaid, SafeInv, CallersKnow, Knows, Asking
  <2>2. /\ posted' = posted /\ under' = under
        /\ \A q \in Requests \ {r} : request'[q] = request[q]
        /\ request'[r] \in {request[r], "paid"}
    BY <1>7, <2>1 DEF MarkPaid, moneyVars, SafeInv, TypeOK
  <2>3. posted[reservationKey(r)] = Reservation(under[r])
    BY <2>1, UnderTransfer
  <2>4. Stands(r)'
    BY <1>2, <2>1, <2>2, <2>3
  <2> HIDE DEF Stands
  <2> QED  BY <1>1, <1>2, <2>2, <2>4
<1>8. ASSUME NEW p \in Procs, Submit(p) \/ Resend(p) PROVE Backed'
  BY <1>1, <1>2, <1>8 DEF Submit, Resend, rowVars
<1>9. ASSUME NEW r \in Requests, RailCompletes(r) PROVE Backed'
  BY <1>1, <1>2, <1>9 DEF RailCompletes, rowVars
<1> QED  BY <1>3, <1>4, <1>5, <1>6, <1>7, <1>8, <1>9, WhoWrites

------------------------------------------------------------------------------
(* Nobody has asked yet. *)
LEMMA SafeInit == Init => SafeInv
<1> SUFFICES ASSUME Init PROVE SafeInv
  OBVIOUS
<1>1. TypeOK
  <2>1. \A m : OwnedBy(m) \in SUBSET Entries
    BY DEF OwnedBy
  <2> QED  BY <2>1, TotalType, WithdrawalAssumption DEF Init, TypeOK
<1>2. LocksHeld /\ CallersKnow /\ OneAsker /\ MoneyMoved
  BY DEF Init, LocksHeld, HoldsRows, CallersKnow, Knows, OneAsker, MoneyMoved,
     Asking, Refusing, GivingUp
<1>3. RowsAgree /\ Apart /\ Backed
  BY DEF Init, RowsAgree, Apart, Standing, Backed
<1> QED  BY <1>1, <1>2, <1>3 DEF SafeInv

(* The safety invariant is inductive. *)
LEMMA SafeStep == SafeInv /\ [Next]_vars => SafeInv'
BY TypeStep, LocksStep, KnowsStep, AskerStep, RowsStep, ApartStep, MoneyStep, BackedStep
   DEF SafeInv

(* It holds throughout. *)
LEMMA Safe == Spec => []SafeInv
BY SafeInit, SafeStep, PTL DEF Spec

(* Every reachable state is well typed; in particular no account of a      *)
(* member is ever drawn below zero (balance is a natural number).          *)
THEOREM TypeCorrect == Spec => []TypeOK
<1>1. SafeInv => TypeOK
  BY DEF SafeInv
<1> QED  BY <1>1, Safe, PTL

(* No earning stands behind two requests that may be paid, or behind one   *)
(* and in the member's reach: asking, approving, refusing, re-sending,     *)
(* giving up and settling, in any order of any number of callers, with any *)
(* of them dying between two steps.                                        *)
THEOREM SpentOnceHolds == Spec => []SpentOnce
<1>1. ASSUME SafeInv PROVE SpentOnce
  <2>1. \A r \in Requests : Owed(r) => Standing(r)
    BY <1>1 DEF SafeInv, TypeOK, RowsAgree, Owed, Standing
  <2> QED  BY <1>1, <2>1 DEF SafeInv, Apart, RowsAgree, Standing, SpentOnce
<1> QED  BY <1>1, Safe, PTL

(* A request says paid exactly when its payout is settled and the rail     *)
(* delivered, failed exactly when the payout failed and the rail never     *)
(* will deliver.                                                           *)
THEOREM OutcomeIsTrueHolds == Spec => []OutcomeIsTrue
<1>1. SafeInv => OutcomeIsTrue
  BY DEF SafeInv, RowsAgree, OutcomeIsTrue
<1> QED  BY <1>1, Safe, PTL

------------------------------------------------------------------------------
(* The books.                                                              *)

Ahead == {"create", "refuse", "fail"}

(* An entry no caller is ahead with, before or after, stays at its stage. *)
LEMMA StageKept ==
    ASSUME SafeInv, NEW p \in Procs, ByCaller(p), NEW e \in Entries, entry'[e] = entry[e],
           pc[p] \in Ahead => e \notin taking[p],
           pc'[p] \in Ahead => e \notin taking'[p]
    PROVE  Stage(e)' = Stage(e)
<1>1. \A q \in Procs \ {p} : pc'[q] = pc[q] /\ taking'[q] = taking[q]
  BY Others DEF OthersStay
<1>2. /\ (\E q \in Procs : pc'[q] = "create" /\ e \in taking'[q])
           <=> (\E q \in Procs : pc[q] = "create" /\ e \in taking[q])
      /\ (\E q \in Procs : pc'[q] \in {"refuse", "fail"} /\ e \in taking'[q])
           <=> (\E q \in Procs : pc[q] \in {"refuse", "fail"} /\ e \in taking[q])
  BY <1>1 DEF Ahead
<1> QED  BY <1>2 DEF Stage

(* Of the entries a caller holds, the ledger has what the caller has done. *)
LEMMA StageHeld ==
    ASSUME SafeInv, NEW p \in Procs, NEW e \in taking[p],
           pc[p] \in Asking \cup Refusing \cup GivingUp
    PROVE  /\ e \in Entries
           /\ entry[e] = IF pc[p] \in Asking THEN "confirmed" ELSE "reserved"
           /\ Stage(e) = IF pc[p] \in {"reserve", "refuse", "fail"} THEN "confirmed" ELSE "reserved"
           /\ \A q \in Procs \ {p} : pc[q] \in Ahead => e \notin taking[q]
<1>1. e \in Entries
  BY DEF SafeInv, TypeOK
<1>2. entry[e] = IF pc[p] \in Asking THEN "confirmed" ELSE "reserved"
  <2>1. CASE pc[p] \in Asking
    BY <2>1 DEF SafeInv, CallersKnow, Knows, In
  <2>2. CASE pc[p] \in Refusing \cup GivingUp
    <3>1. on[p] \in Requests /\ taking[p] = under[on[p]]
      BY <2>2 DEF SafeInv, CallersKnow, Knows, Asking, Refusing, GivingUp
    <3>2. Standing(on[p])
      BY <2>2, <3>1 DEF SafeInv, CallersKnow, Knows, RowsAgree, Standing, Refusing, GivingUp
    <3>3. taking[p] \subseteq In("reserved")
      BY <3>1, <3>2 DEF SafeInv, Apart
    <3> QED  BY <2>2, <3>3 DEF In, Asking, Refusing, GivingUp
  <2> QED  BY <2>1, <2>2
<1>3. ASSUME NEW q \in Procs, q # p, pc[q] \in Ahead, e \in taking[q] PROVE FALSE
  BY <1>3 DEF SafeInv, LocksHeld, HoldsRows, Ahead, Asking, Refusing, GivingUp
<1>4. Stage(e) = IF pc[p] \in {"reserve", "refuse", "fail"} THEN "confirmed" ELSE "reserved"
  BY <1>2, <1>3 DEF Stage, Ahead, Asking, Refusing, GivingUp
<1> QED  BY <1>1, <1>2, <1>3, <1>4

Balanced == \A m \in Members, s \in {"confirmed", "reserved"} :
    balance[<<m, s>>] = Total(At(m, s))

(* Nothing moved and no entry changed its stage. *)
LEMMA BalancedKept ==
    ASSUME Balanced, balance' = balance, \A e \in Entries : Stage(e)' = Stage(e)
    PROVE  Balanced'
<1>1. \A m, s : At(m, s)' = At(m, s)
  BY DEF At, OwnedBy
<1> QED  BY <1>1 DEF Balanced

(* A transfer of a member's entries, and those entries change their stage. *)
LEMMA BalancedMove ==
    ASSUME TypeOK, Balanced, NEW m \in Members, NEW S, S \subseteq OwnedBy(m),
           NEW from, NEW to,
           <<from, to>> \in {<<"confirmed", "reserved">>, <<"reserved", "confirmed">>},
           balance' = [a \in Accounts |-> balance[a] + Move(m, from, to, Total(S))[a]],
           \A e \in S : Stage(e) = from /\ Stage(e)' = to,
           \A e \in Entries \ S : Stage(e)' = Stage(e)
    PROVE  Balanced'
<1>1. from # to /\ {from, to} = {"confirmed", "reserved"}
  OBVIOUS
<1>2. S \in SUBSET Entries /\ \A n, s : At(n, s) \in SUBSET Entries
  BY DEF At, OwnedBy
<1>3. Total(S) \in Nat /\ \A n, s : Total(At(n, s)) \in Nat /\ Total(At(n, s) \ S) \in Nat
  BY <1>2, TotalType
<1>4. ASSUME NEW n \in Members, NEW s \in {"confirmed", "reserved"}, n # m
      PROVE  balance'[<<n, s>>] = Total(At(n, s)')
  <2>1. At(n, s)' = At(n, s)
    <3>1. \A e \in OwnedBy(n) : e \in Entries \ S
      BY <1>4 DEF OwnedBy
    <3> QED  BY <3>1 DEF At
  <2>2. <<n, s>> \in Accounts /\ <<n, s>> # <<m, from>> /\ <<n, s>> # <<m, to>>
    BY <1>4 DEF Accounts
  <2>3. balance'[<<n, s>>] = balance[<<n, s>>] + 0
    BY <2>2 DEF Move
  <2>4. balance[<<n, s>>] = Total(At(n, s))
    BY DEF Balanced
  <2>5. Total(At(n, s)) \in Nat
    BY <1>3
  <2>6. Total(At(n, s)) + 0 = Total(At(n, s))
    BY <2>5
  <2> QED  BY <2>1, <2>3, <2>4, <2>6
<1>5. balance'[<<m, from>>] = Total(At(m, from)')
  <2>1. At(m, from) = At(m, from)' \cup S /\ At(m, from)' \cap S = {}
    BY <1>1, <1>2 DEF At, OwnedBy
  <2>2. At(m, from)' \in SUBSET Entries
    BY DEF At, OwnedBy
  <2>3. Total(At(m, from)) = Total(At(m, from)') + Total(S)
    BY <1>2, <2>1, <2>2, TotalUnion
  <2>4. <<m, from>> \in Accounts /\ <<m, from>> # <<m, to>>
    BY <1>1 DEF Accounts
  <2>5. balance'[<<m, from>>] = balance[<<m, from>>] + (-Total(S))
    BY <2>4 DEF Move
  <2>6. balance[<<m, from>>] = Total(At(m, from))
    BY <1>1 DEF Balanced
  <2>7. Total(At(m, from)') \in Nat
    BY <2>2, TotalType
  <2> QED  BY <1>3, <2>3, <2>5, <2>6, <2>7
<1>6. balance'[<<m, to>>] = Total(At(m, to)')
  <2>1. At(m, to)' = At(m, to) \cup S /\ At(m, to) \cap S = {}
    BY <1>1, <1>2 DEF At, OwnedBy
  <2>2. Total(At(m, to)') = Total(At(m, to)) + Total(S)
    BY <1>2, <2>1, TotalUnion
  <2>3. <<m, to>> \in Accounts
    BY <1>1 DEF Accounts
  <2>4. balance'[<<m, to>>] = balance[<<m, to>>] + Total(S)
    BY <2>3 DEF Move
  <2>5. balance[<<m, to>>] = Total(At(m, to))
    BY <1>1 DEF Balanced
  <2> QED  BY <2>2, <2>4, <2>5
<1> QED  BY <1>1, <1>4, <1>5, <1>6 DEF Balanced

(* What becomes of a transfer asked for under a fresh key. *)
LEMMA FreshPost ==
    ASSUME NEW p, NEW k, NEW t, NEW l, PostThen(p, k, t, l), posted[k] = NoTransfer
    PROVE  \/ /\ balance' = [a \in Accounts |-> balance[a] + t[a]]
              /\ On(p, l)
           \/ UNCHANGED moneyVars /\ Done(p)
BY DEF PostThen, L!Record, L!Accounts

(* As long as nobody has died, a reservation is posted once ... *)
LEMMA ReserveIsFresh ==
    ASSUME SafeInv, BooksInv, faults = 0, NEW p \in Procs, Reserve(p)
    PROVE  posted[reservationKey(on[p])] = NoTransfer
<1>1. pc[p] = "reserve" /\ on[p] \in Requests /\ request[on[p]] = "none"
  BY DEF Reserve, SafeInv, CallersKnow, Knows, Asking
<1>2. ASSUME NEW q \in Procs, pc[q] = "create", on[q] = on[p] PROVE FALSE
  BY <1>1, <1>2 DEF SafeInv, OneAsker, Asking
<1> QED  BY <1>1, <1>2 DEF BooksInv

(* ... and so is a release. *)
LEMMA ReleaseIsFresh ==
    ASSUME SafeInv, BooksInv, faults = 0, NEW p \in Procs, ReleaseRejected(p) \/ PutBack(p)
    PROVE  posted[releaseKey(on[p])] = NoTransfer
<1>1. /\ pc[p] \in {"release", "putBack"} /\ on[p] \in Requests /\ reqLock[on[p]] = p
      /\ request[on[p]] \notin {"rejected", "failed"}
  BY DEF ReleaseRejected, PutBack, SafeInv, CallersKnow, Knows, RowsAgree, LocksHeld,
     HoldsRows,
     Refusing, GivingUp
<1>2. ASSUME NEW q \in Procs, pc[q] \in {"refuse", "fail"}, on[q] = on[p] PROVE FALSE
  BY <1>1, <1>2 DEF SafeInv, LocksHeld, HoldsRows, Refusing, GivingUp
<1> QED  BY <1>1, <1>2 DEF BooksInv

(* A caller that is ahead of the tables writes them next, unless it dies.  *)
LEMMA AheadWrites ==
    ASSUME SafeInv, NEW p \in Procs, ByCaller(p), pc[p] \in Ahead, faults' = 0
    PROVE  \/ pc[p] = "create" /\ CreateRequest(p)
           \/ pc[p] = "refuse" /\ RecordRejection(p)
           \/ pc[p] = "fail" /\ FailPayout(p)
<1>1. ~ Crash(p)
  <2>1. faults \in Nat
    BY DEF SafeInv, TypeOK
  <2> QED  BY <2>1 DEF Crash
<1>2. ~ DeadlockVictim(p)
  BY DEF DeadlockVictim, WaitsFor, Ahead
<1>3. \A r \in Requests, m \in Members, want \in Wants : ~ Request(p, m, want, r)
  BY DEF Request, Ahead
<1>4. \A r \in Requests : ~ (\/ claim(p, r) \/ Reject(p, r) \/ Retry(p, r) \/ Settle(p, r)
                             \/ RecordByHand(p, r))
  BY DEF claim, Reject, Retry, Settle, RecordByHand, Ahead
<1>5. ~ (\/ Reserve(p) \/ Submit(p) \/ recordSubmission(p) \/ ReleaseRejected(p) \/ Pending(p)
         \/ Resend(p) \/ Abandon(p) \/ AbandonRequest(p) \/ PutBack(p) \/ Status(p)
         \/ StillSubmitted(p) \/ recordArrival(p) \/ MarkPaid(p))
  BY DEF Reserve, Submit, recordSubmission, ReleaseRejected, Pending, Resend, Abandon,
     AbandonRequest, PutBack, Status, StillSubmitted, recordArrival, MarkPaid, Ahead
<1>6. CreateRequest(p) \/ RecordRejection(p) \/ FailPayout(p)
  BY <1>1, <1>2, <1>3, <1>4, <1>5 DEF ByCaller, Step
<1> QED  BY <1>6 DEF CreateRequest, RecordRejection, FailPayout

(* The write it is ahead of: the rows come to say what the ledger says.    *)
LEMMA AheadCatchesUp ==
    ASSUME SafeInv, NEW p \in Procs, ByCaller(p), pc[p] \in Ahead, faults' = 0
    PROVE  /\ pc'[p] = "idle" /\ UNCHANGED moneyVars
           /\ entry' = Take(entry, taking[p], IF pc[p] = "create" THEN "reserved" ELSE "confirmed")
           /\ pc[p] = "create" => request'[on[p]] # "none"
           /\ pc[p] # "create" => request'[on[p]] \in {"rejected", "failed"}
<1>0. on[p] \in Requests
  BY DEF SafeInv, CallersKnow, Knows, Ahead
<1>1. CASE pc[p] = "create" /\ CreateRequest(p)
  <2>1. taking[p] \subseteq In("confirmed")
    BY <1>1 DEF SafeInv, CallersKnow, Knows, Asking
  <2> QED  BY <1>0, <1>1, <2>1 DEF CreateRequest, Done, Idle, Goto, SafeInv, TypeOK
<1>2. CASE pc[p] \in {"refuse", "fail"}
  <2>1. taking[p] \subseteq In("reserved")
    <3>1. \A e \in taking[p] : e \in Entries /\ entry[e] = "reserved"
      BY <1>2, StageHeld DEF Asking, Refusing, GivingUp
    <3> QED  BY <3>1 DEF In
  <2>2. request[on[p]] = IF pc[p] = "refuse" THEN "awaiting_approval" ELSE "approved"
    BY <1>0, <1>2 DEF SafeInv, CallersKnow, Knows, RowsAgree, Refusing, GivingUp
  <2>3. CASE RecordRejection(p)
    BY <1>0, <2>1, <2>2, <2>3 DEF RecordRejection, Done, Idle, Goto, SafeInv, TypeOK
  <2>4. CASE FailPayout(p)
    BY <1>0, <2>1, <2>2, <2>4 DEF FailPayout, Done, Idle, Goto, SafeInv, TypeOK
  <2> QED  BY <1>2, <2>3, <2>4, AheadWrites
<1> QED  BY <1>1, <1>2, AheadWrites

(* The count of calls that died never goes down. *)
LEMMA DeathsCount ==
    ASSUME SafeInv, [Next]_vars, faults' = 0
    PROVE  faults = 0
<1> USE DEF SafeInv, TypeOK
<1>1. ASSUME NEW p \in Procs, Crash(p) PROVE faults' # 0
  BY <1>1 DEF Crash
<1>2. ASSUME NEW p \in Procs, NEW m \in Members, NEW want \in Wants, NEW r \in Requests,
             Request(p, m, want, r)
      PROVE  UNCHANGED faults
  BY <1>2 DEF Request
<1>3. ASSUME NEW p \in Procs, NEW r \in Requests,
             claim(p, r) \/ Reject(p, r) \/ Retry(p, r) \/ Settle(p, r) \/ RecordByHand(p, r)
      PROVE  UNCHANGED faults
  BY <1>3 DEF claim, Reject, Retry, Settle, RecordByHand
<1>4. ASSUME NEW p \in Procs,
             \/ CreateRequest(p) \/ RecordRejection(p) \/ FailPayout(p) \/ MarkPaid(p)
             \/ Submit(p) \/ Resend(p) \/ DeadlockVictim(p)
             \/ Reserve(p) \/ ReleaseRejected(p) \/ PutBack(p)
      PROVE  UNCHANGED faults
  BY <1>4 DEF CreateRequest, RecordRejection, FailPayout, MarkPaid, Submit, Resend,
     DeadlockVictim, GiveBack, Reserve, ReleaseRejected, PutBack, Release, PostThen
<1>5. ASSUME NEW p \in Procs,
             \/ recordSubmission(p) \/ Pending(p) \/ Abandon(p) \/ AbandonRequest(p)
             \/ Status(p) \/ StillSubmitted(p) \/ recordArrival(p)
      PROVE  UNCHANGED faults
  BY <1>5 DEF recordSubmission, Pending, Abandon, AbandonRequest, Status, StillSubmitted,
     recordArrival, GiveBack
<1>6. ASSUME NEW r \in Requests, RailCompletes(r) PROVE UNCHANGED faults
  BY <1>6 DEF RailCompletes
<1>7. CASE UNCHANGED vars
  BY <1>7 DEF vars
<1> QED  BY <1>1, <1>2, <1>3, <1>4, <1>5, <1>6, <1>7 DEF Next, Step

(* One caller acts at a time: who moved is who was meant. *)
LEMMA OneActs ==
    ASSUME SafeInv, NEW p \in Procs, ByCaller(p), NEW q \in Procs,
           \/ CreateRequest(q) \/ RecordRejection(q) \/ FailPayout(q)
           \/ Reserve(q) \/ ReleaseRejected(q) \/ PutBack(q)
    PROVE  p = q
<1>1. pc'[q] # pc[q]
  <2>1. CASE CreateRequest(q) \/ RecordRejection(q) \/ FailPayout(q)
    BY <2>1 DEF CreateRequest, RecordRejection, FailPayout, Done, Idle, Goto, SafeInv,
       TypeOK
  <2>2. CASE Reserve(q)
    BY <2>2, ReservePosts DEF Posts, On, Done, Idle, Goto, SafeInv, TypeOK
  <2>3. CASE ReleaseRejected(q)
    BY <2>3, ReleaseRejectedPosts DEF Posts, On, Done, Idle, Goto, SafeInv, TypeOK
  <2>4. CASE PutBack(q)
    BY <2>4, PutBackPosts DEF Posts, On, Done, Idle, Goto, SafeInv, TypeOK
  <2> QED  BY <2>1, <2>2, <2>3, <2>4
<1> QED  BY <1>1, Others DEF OthersStay

(* A caller that posts nothing and is not ahead leaves the books alone. *)
LEMMA BooksAside ==
    ASSUME SafeInv, [Next]_vars, NEW p \in Procs, ByCaller(p), pc[p] \notin Ahead,
           ~ (Reserve(p) \/ ReleaseRejected(p) \/ PutBack(p))
    PROVE  /\ UNCHANGED <<moneyVars, entry>>
           /\ pc'[p] \notin Ahead
<1>1. UNCHANGED moneyVars
  BY WhoPosts, OneActs
<1>2. UNCHANGED entry
  <2>1. ASSUME NEW q \in Procs, CreateRequest(q) \/ RecordRejection(q) \/ FailPayout(q) PROVE FALSE
    <3>1. p = q
      BY <2>1, OneActs
    <3> QED  BY <2>1, <3>1 DEF CreateRequest, RecordRejection, FailPayout, Ahead
  <2>2. ASSUME NEW q \in Procs, MarkPaid(q) \/ Submit(q) \/ Resend(q) PROVE UNCHANGED entry
    BY <2>2 DEF MarkPaid, Submit, Resend, rowVars
  <2>3. ASSUME NEW q \in Procs, NEW r \in Requests, claim(q, r) PROVE UNCHANGED entry
    BY <2>3 DEF claim
  <2>4. ASSUME NEW r \in Requests, RailCompletes(r) PROVE UNCHANGED entry
    BY <2>4 DEF RailCompletes, rowVars
  <2> QED  BY <2>1, <2>2, <2>3, <2>4, WhoWrites DEF RowsStay
<1>3. pc'[p] \notin Ahead
  BY Arrivals DEF Arrives, Ahead
<1> QED  BY <1>1, <1>2, <1>3

(* A transfer that is refused ends the call; one that is accepted takes    *)
(* its entries along.                                                      *)
LEMMA BalancedPost ==
    ASSUME SafeInv, Balanced, NEW p \in Procs, ByCaller(p), UNCHANGED entry,
           NEW k, NEW from, NEW to, NEW l,
           \/ <<pc[p], from, to, l>> = <<"reserve", "confirmed", "reserved", "create">>
           \/ <<pc[p], from, to, l>> = <<"release", "reserved", "confirmed", "refuse">>
           \/ <<pc[p], from, to, l>> = <<"putBack", "reserved", "confirmed", "fail">>,
           posted[k] = NoTransfer,
           PostThen(p, k, Move(Member(p), from, to, Total(taking[p])), l)
    PROVE  Balanced'
<1>1. pc[p] \in Asking \cup Refusing \cup GivingUp /\ pc[p] \notin Ahead /\ l \in Ahead
  BY DEF Asking, Refusing, GivingUp, Ahead
<1>2. \A e \in taking[p] : e \in Entries /\ Stage(e) = from
  BY <1>1, StageHeld
<1>3. CASE Done(p) /\ UNCHANGED moneyVars
  <2>1. pc'[p] \notin Ahead
    BY <1>3 DEF Done, Idle, Goto, Ahead, SafeInv, TypeOK
  <2>2. \A e \in Entries : Stage(e)' = Stage(e)
    BY <1>1, <2>1, StageKept
  <2> QED  BY <1>3, <2>2, BalancedKept DEF moneyVars
<1>4. CASE /\ balance' = [a \in Accounts |->
                            balance[a] + Move(Member(p), from, to, Total(taking[p]))[a]]
           /\ On(p, l)
  <2>1. pc'[p] = l /\ taking'[p] = taking[p]
    BY <1>4 DEF On, Goto, SafeInv, TypeOK
  <2>2. \A e \in Entries \ taking[p] : Stage(e)' = Stage(e)
    BY <1>1, <2>1, StageKept
  <2>3. ASSUME NEW e \in taking[p] PROVE Stage(e)' = to
    <3>1. \A q \in Procs \ {p} : pc'[q] \in Ahead => e \notin taking'[q]
      BY <1>1, StageHeld, Others DEF OthersStay
    <3> QED  BY <2>1, <3>1 DEF Stage, Ahead
  <2>4. \E m \in Members : taking[p] \subseteq OwnedBy(m) /\ taking[p] # {}
    <3>1. CASE pc[p] \in Asking
      BY <3>1 DEF SafeInv, CallersKnow, Knows
    <3>2. CASE pc[p] \in Refusing \cup GivingUp
      <4>1. on[p] \in Requests /\ request[on[p]] # "none" /\ taking[p] = under[on[p]]
        BY <3>2 DEF SafeInv, CallersKnow, Knows, Asking, Refusing, GivingUp
      <4> QED  BY <4>1, UnderTransfer
    <3> QED  BY <1>1, <3>1, <3>2
  <2>5. PICK m \in Members : taking[p] \subseteq OwnedBy(m) /\ taking[p] # {}
    BY <2>4
  <2>6. Member(p) = m
    BY <2>5 DEF Member, OwnedBy
  <2>7. PICK S : S = taking[p]
    OBVIOUS
  <2>8. /\ balance' = [a \in Accounts |-> balance[a] + Move(m, from, to, Total(S))[a]]
        /\ \A e \in S : Stage(e) = from /\ Stage(e)' = to
        /\ \A e \in Entries \ S : Stage(e)' = Stage(e)
        /\ S \subseteq OwnedBy(m)
    BY <1>2, <1>4, <2>2, <2>3, <2>5, <2>6, <2>7
  <2>9. <<from, to>> \in {<<"confirmed", "reserved">>, <<"reserved", "confirmed">>}
    OBVIOUS
  <2> QED  BY <2>8, <2>9, BalancedMove DEF SafeInv
<1> QED  BY <1>3, <1>4, FreshPost

(* The accounts hold the entries they stand for after every step of a      *)
(* caller that does not die.                                               *)
LEMMA BalancedStep ==
    ASSUME SafeInv, BooksInv, [Next]_vars, faults' = 0
    PROVE  Balanced'
<1>1. faults = 0
  BY DeathsCount
<1>2. Balanced
  BY <1>1 DEF BooksInv, Balanced
<1>3. ASSUME NEW p \in Procs, ByCaller(p), pc[p] \in Ahead PROVE Balanced'
  <2>1. /\ pc'[p] = "idle" /\ UNCHANGED moneyVars
        /\ entry' = Take(entry, taking[p], IF pc[p] = "create" THEN "reserved" ELSE "confirmed")
    BY <1>3, AheadCatchesUp
  <2>2. pc[p] \in Asking \cup Refusing \cup GivingUp
    BY <1>3 DEF Ahead, Asking, Refusing, GivingUp
  <2>3. ASSUME NEW e \in Entries, e \notin taking[p] PROVE Stage(e)' = Stage(e)
    <3>1. entry'[e] = entry[e] /\ pc'[p] \notin Ahead
      BY <2>1, <2>3 DEF Take, Ahead, SafeInv, TypeOK
    <3> QED  BY <1>3, <2>3, <3>1, StageKept
  <2>4. ASSUME NEW e \in taking[p] PROVE Stage(e)' = Stage(e)
    <3>1. \A q \in Procs : pc'[q] \in Ahead => e \notin taking'[q]
      BY <1>3, <2>1, <2>2, StageHeld, Others DEF OthersStay, Ahead
    <3>2. Stage(e)' = entry'[e]
      BY <3>1 DEF Stage, Ahead
    <3>3. Stage(e) = IF pc[p] = "create" THEN "reserved" ELSE "confirmed"
      BY <1>3, <2>2, StageHeld DEF Ahead
    <3> QED  BY <2>1, <3>2, <3>3 DEF Take, SafeInv, TypeOK
  <2> QED  BY <1>2, <2>1, <2>3, <2>4, BalancedKept DEF moneyVars
<1>4. ASSUME NEW p \in Procs, ByCaller(p), Reserve(p) PROVE Balanced'
  <2>1. posted[reservationKey(on[p])] = NoTransfer
    BY <1>1, <1>4, ReserveIsFresh
  <2>2. /\ PostThen(p, reservationKey(on[p]),
                    Move(Member(p), "confirmed", "reserved", Total(taking[p])), "create")
        /\ pc[p] = "reserve" /\ UNCHANGED entry
    BY <1>4 DEF Reserve, PostThen, rowVars
  <2> QED  BY <1>2, <1>4, <2>1, <2>2, BalancedPost
<1>5. ASSUME NEW p \in Procs, ByCaller(p), ReleaseRejected(p) \/ PutBack(p) PROVE Balanced'
  <2>1. posted[releaseKey(on[p])] = NoTransfer
    BY <1>1, <1>5, ReleaseIsFresh
  <2>2. CASE ReleaseRejected(p)
    <3>1. /\ PostThen(p, releaseKey(on[p]),
                      Move(Member(p), "reserved", "confirmed", Total(taking[p])), "refuse")
          /\ pc[p] = "release" /\ UNCHANGED entry
      BY <2>2 DEF ReleaseRejected, Release, PostThen, rowVars
    <3> QED  BY <1>2, <1>5, <2>1, <3>1, BalancedPost
  <2>3. CASE PutBack(p)
    <3>1. /\ PostThen(p, releaseKey(on[p]),
                      Move(Member(p), "reserved", "confirmed", Total(taking[p])), "fail")
          /\ pc[p] = "putBack" /\ UNCHANGED entry
      BY <2>3 DEF PutBack, Release, PostThen, rowVars
    <3> QED  BY <1>2, <1>5, <2>1, <3>1, BalancedPost
  <2> QED  BY <1>5, <2>2, <2>3
<1>6. ASSUME NEW p \in Procs, ByCaller(p), pc[p] \notin Ahead,
             ~ (Reserve(p) \/ ReleaseRejected(p) \/ PutBack(p))
      PROVE  Balanced'
  <2>1. UNCHANGED <<moneyVars, entry>> /\ pc'[p] \notin Ahead
    BY <1>6, BooksAside
  <2>2. \A e \in Entries : Stage(e)' = Stage(e)
    BY <1>6, <2>1, StageKept
  <2> QED  BY <1>2, <2>1, <2>2, BalancedKept DEF moneyVars
<1>7. ASSUME UNCHANGED <<moneyVars, entry, pc, taking>> PROVE Balanced'
  <2>1. \A e \in Entries : Stage(e)' = Stage(e)
    BY <1>7 DEF Stage
  <2> QED  BY <1>2, <1>7, <2>1, BalancedKept DEF moneyVars
<1> QED  BY <1>3, <1>4, <1>5, <1>6, <1>7, StepIsOneOf DEF RailCompletes, vars, rowVars

(* A row that exists is never forgotten, and a request that went nowhere   *)
(* stays there.                                                            *)
LEMMA RequestsStay ==
    ASSUME SafeInv, [Next]_vars, NEW r \in Requests
    PROVE  /\ request[r] # "none" => request'[r] # "none"
           /\ request[r] \in {"rejected", "failed"} => request'[r] = request[r]
<1> USE DEF SafeInv, TypeOK
<1>1. CASE RowsStay
  BY <1>1 DEF RowsStay
<1>2. ASSUME NEW p \in Procs, NEW q \in Requests, claim(p, q)
      PROVE  \/ request'[r] = request[r]
             \/ request[r] = "awaiting_approval" /\ request'[r] = "approved"
  BY <1>2 DEF claim, awaitingDecision
<1>3. ASSUME NEW p \in Procs, CreateRequest(p)
      PROVE  \/ request'[r] = request[r]
             \/ request[r] = "none" /\ request'[r] = "awaiting_approval"
  BY <1>3 DEF CreateRequest, CallersKnow, Knows, Asking
<1>4. ASSUME NEW p \in Procs, RecordRejection(p) \/ FailPayout(p) \/ MarkPaid(p)
      PROVE  \/ request'[r] = request[r]
             \/ /\ request[r] \in {"awaiting_approval", "approved"}
                /\ request'[r] \in {"rejected", "failed", "paid"}
  BY <1>4 DEF RecordRejection, FailPayout, MarkPaid
<1>5. ASSUME NEW p \in Procs, Submit(p) \/ Resend(p) PROVE request' = request
  BY <1>5 DEF Submit, Resend, rowVars
<1>6. ASSUME NEW q \in Requests, RailCompletes(q) PROVE request' = request
  BY <1>6 DEF RailCompletes, rowVars
<1> QED  BY <1>1, <1>2, <1>3, <1>4, <1>5, <1>6, WhoWrites

(* As long as nobody has died, every recorded transfer is explained. *)
LEMMA ExplainedStep ==
    ASSUME SafeInv, BooksInv, [Next]_vars, faults' = 0, NEW r \in Requests
    PROVE  /\ posted'[reservationKey(r)] # NoTransfer =>
                \/ request'[r] # "none"
                \/ \E p \in Procs : pc'[p] = "create" /\ on'[p] = r
           /\ posted'[releaseKey(r)] # NoTransfer =>
                \/ request'[r] \in {"rejected", "failed"}
                \/ \E p \in Procs : pc'[p] \in {"refuse", "fail"} /\ on'[p] = r
<1>1. faults = 0
  BY DeathsCount
<1>2. ASSUME NEW q \in Procs, pc[q] \in Ahead, on[q] = r
      PROVE  \/ pc'[q] = pc[q] /\ on'[q] = on[q]
             \/ pc[q] = "create" /\ request'[r] # "none"
             \/ pc[q] \in {"refuse", "fail"} /\ request'[r] \in {"rejected", "failed"}
  <2>1. ASSUME NEW p \in Procs, ByCaller(p), p # q PROVE pc'[q] = pc[q] /\ on'[q] = on[q]
    BY <2>1, Others DEF OthersStay
  <2>2. CASE ByCaller(q)
    BY <1>2, <2>2, AheadCatchesUp DEF Ahead
  <2>3. CASE UNCHANGED <<pc, on>>
    BY <2>3
  <2> QED  BY <2>1, <2>2, <2>3, StepIsOneOf DEF RailCompletes, vars
<1>3. ASSUME posted'[reservationKey(r)] # NoTransfer
      PROVE  \/ request'[r] # "none"
             \/ \E p \in Procs : pc'[p] = "create" /\ on'[p] = r
  <2>1. CASE posted'[reservationKey(r)] = posted[reservationKey(r)]
    BY <1>1, <1>2, <1>3, <2>1, RequestsStay DEF BooksInv, Ahead
  <2>2. CASE posted'[reservationKey(r)] # posted[reservationKey(r)]
    <3>1. PICK p \in Procs : Reserve(p) /\ on[p] = r
      BY <2>2, KeysStay
    <3>2. On(p, "create")
      BY <2>2, <3>1, ReservePosts DEF Posts, moneyVars
    <3> QED  BY <3>1, <3>2 DEF On, Goto, SafeInv, TypeOK
  <2> QED  BY <2>1, <2>2
<1>4. ASSUME posted'[releaseKey(r)] # NoTransfer
      PROVE  \/ request'[r] \in {"rejected", "failed"}
             \/ \E p \in Procs : pc'[p] \in {"refuse", "fail"} /\ on'[p] = r
  <2>1. CASE posted'[releaseKey(r)] = posted[releaseKey(r)]
    BY <1>1, <1>2, <1>4, <2>1, RequestsStay DEF BooksInv, Ahead
  <2>2. CASE posted'[releaseKey(r)] # posted[releaseKey(r)]
    <3>1. PICK p \in Procs : (ReleaseRejected(p) \/ PutBack(p)) /\ on[p] = r
      BY <2>2, KeysStay
    <3>2. On(p, "refuse") \/ On(p, "fail")
      BY <2>2, <3>1, ReleaseRejectedPosts, PutBackPosts DEF Posts, moneyVars
    <3> QED  BY <3>1, <3>2 DEF On, Goto, SafeInv, TypeOK
  <2> QED  BY <2>1, <2>2
<1> QED  BY <1>3, <1>4

(* The books' invariant is inductive, given the callers' invariant. *)
LEMMA BooksStep == SafeInv /\ BooksInv /\ [Next]_vars => BooksInv'
<1> SUFFICES ASSUME SafeInv, BooksInv, [Next]_vars, faults' = 0 PROVE BooksInv'
  BY DEF BooksInv
<1>1. Balanced'
  BY BalancedStep
<1> QED  BY <1>1, ExplainedStep DEF BooksInv, Balanced

(* Before any request the ledger agrees with the entries. *)
LEMMA BooksInit == Init => BooksInv
<1> SUFFICES ASSUME Init PROVE BooksInv
  OBVIOUS
<1>1. ASSUME NEW m \in Members
      PROVE  At(m, "confirmed") = OwnedBy(m) /\ At(m, "reserved") = {}
  BY DEF Init, At, Stage, OwnedBy
<1>2. ASSUME NEW m \in Members, NEW s \in {"confirmed", "reserved"}
      PROVE  balance[<<m, s>>] = Total(At(m, s))
  <2>1. <<m, s>> \in Accounts
    BY DEF Accounts
  <2> QED  BY <1>1, <2>1, TotalType DEF Init
<1>3. \A r \in Requests : /\ posted[reservationKey(r)] = NoTransfer
                          /\ posted[releaseKey(r)] = NoTransfer
  BY DEF Init, Keys, reservationKey, releaseKey
<1> QED  BY <1>2, <1>3 DEF BooksInv

(* The ledger and the tables agree: each request stands on a transfer of   *)
(* exactly its entries, one that went nowhere was given back in full, and  *)
(* as long as no call has died the two stages of every member hold what    *)
(* the entries say once everybody is done.  The sums are over any number   *)
(* of entries.                                                             *)
THEOREM BooksAgreeHolds == Spec => []BooksAgree
<1>1. Spec => []BooksInv
  BY BooksInit, BooksStep, Safe, PTL DEF Spec
<1>2. ASSUME SafeInv, BooksInv PROVE BooksAgree
  <2>1. ASSUME Quiet, faults = 0, NEW m \in Members, NEW s \in {"confirmed", "reserved"}
        PROVE  StageHolds(m, s)
    <3>1. \A e \in Entries : Stage(e) = entry[e]
      BY <2>1 DEF Quiet, Stage
    <3>2. At(m, s) = OwnedBy(m) \cap In(s)
      BY <3>1 DEF At, OwnedBy, In
    <3>3. balance[<<m, s>>] = Total(At(m, s))
      BY <1>2, <2>1 DEF BooksInv
    <3> QED  BY <3>2, <3>3 DEF StageHolds
  <2> QED  BY <1>2, <2>1 DEF SafeInv, BooksAgree
<1> QED  BY <1>1, <1>2, Safe, PTL

==============================================================================
