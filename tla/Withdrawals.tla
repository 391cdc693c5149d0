------------------------------ MODULE Withdrawals ------------------------------
(***************************************************************************)
(* internal/cashback/payout: a member's confirmed earnings on their way    *)
(* out of the business.  Asking, approving, refusing, re-sending, giving   *)
(* up and settling each run as the transactions the code opens, next to a  *)
(* ledger and a rail that no rollback undoes.                              *)
(*                                                                         *)
(* A transaction's row locks last until it ends.  A ledger transfer is     *)
(* atomic here: PostgresLedger shows what Post is made of.                 *)
(***************************************************************************)
EXTENDS Integers, FiniteSets, FiniteSetsExt

CONSTANTS
    Members,
    Entries,        \* what was earned: natural numbers, the oldest first
    OwnerOf,        \* whose entry it is
    AmountOf,       \* what it holds, in minor units
    BrandOf,        \* the brand it was earned under
    Requests,       \* ids of withdrawal requests, minted by Request
    Wants,          \* the amounts members ask for
    Threshold,      \* what confirmed must reach (FR-050)
    Procs,          \* concurrent request handlers, operators and sweeps
    NoProc, NoRequest, NoTransfer,
    MaxFaults,      \* bound: calls that die between two of their steps
    MaxLost         \* bound: submissions whose answer is lost or retryable

ASSUME WithdrawalAssumption ==
    /\ Entries \subseteq Nat /\ IsFiniteSet(Entries)
    /\ OwnerOf \in [Entries -> Members]
    /\ AmountOf \in [Entries -> Nat \ {0}]
    /\ Wants \subseteq Nat \ {0}
    /\ Threshold \in Nat
    /\ NoProc \notin Procs /\ NoRequest \notin Requests
    /\ MaxFaults \in Nat /\ MaxLost \in Nat

VARIABLES
    balance, posted,    \* the ledger
    entry,              \* confirmed or reserved
    request, under,     \* a request's state; the entries whose reserving
                        \* transition carries its transfer
    payout, ref,        \* its payout's state; the rail's reference is stored
    rail,               \* what became of the payment, outside the system
    pc, on, taking,     \* where each caller is, for which request, with what
    reqLock, payLock, entryLock,    \* who holds each row
    faults, lost

moneyVars == <<balance, posted>>
rowVars   == <<entry, request, under, payout, ref>>
lockVars  == <<reqLock, payLock, entryLock>>
vars == <<moneyVars, rowVars, rail, pc, on, taking, lockVars, faults, lost>>

------------------------------------------------------------------------------
(* The ledger: two stage accounts per member, one key per request and way. *)
Total(S) == MapThenSumSet(LAMBDA e : AmountOf[e], S)

Accounts == Members \X {"confirmed", "reserved"}

Move(m, from, to, n) == [a \in Accounts |->
    IF a = <<m, to>> THEN n ELSE IF a = <<m, from>> THEN -n ELSE 0]

Transfers == { Move(m, s[1], s[2], Total(S)) :
    m \in Members, S \in (SUBSET Entries) \ {{}},
    s \in {<<"confirmed", "reserved">>, <<"reserved", "confirmed">>} }

(* A key with nothing recorded under it is told from one with a transfer. *)
ASSUME TransferAssumption == NoTransfer \notin Transfers

reservationKey(r) == <<r, "reserve">>
releaseKey(r)     == <<r, "release">>
Keys == Requests \X {"reserve", "release"}

L == INSTANCE Ledger WITH MemberAccounts <- Accounts, HouseAccounts <- {}

OwnedBy(m) == {e \in Entries : OwnerOf[e] = m}
In(s) == {e \in Entries : entry[e] = s}

TypeOK ==
    /\ balance \in [Accounts -> Nat]
    /\ posted \in [Keys -> Transfers \cup {NoTransfer}]
    /\ entry \in [Entries -> {"confirmed", "reserved"}]
    /\ request \in [Requests ->
         {"none", "awaiting_approval", "approved", "rejected", "paid", "failed"}]
    /\ under \in [Requests -> SUBSET Entries]
    /\ payout \in [Requests -> {"none", "submitted", "settled", "failed"}]
    /\ ref \in [Requests -> BOOLEAN]
    /\ rail \in [Requests -> {"none", "refused", "taken", "settled", "failed"}]
    /\ pc \in [Procs -> {"idle", "reserve", "create", "submit", "sent", "release",
         "refuse", "retry", "resend", "status", "arrival", "paid",
         "abandon", "giveUp", "putBack", "fail"}]
    /\ on \in [Procs -> Requests \cup {NoRequest}]
    /\ taking \in [Procs -> SUBSET Entries]
    /\ reqLock \in [Requests -> Procs \cup {NoProc}]
    /\ payLock \in [Requests -> Procs \cup {NoProc}]
    /\ entryLock \in [Entries -> Procs \cup {NoProc}]
    /\ faults \in 0 .. MaxFaults /\ lost \in 0 .. MaxLost

(* Everything earned so far is confirmed, in the tables and in the ledger. *)
Init ==
    /\ balance = [a \in Accounts |-> IF a[2] = "confirmed" THEN Total(OwnedBy(a[1])) ELSE 0]
    /\ posted = [k \in Keys |-> NoTransfer]
    /\ entry = [e \in Entries |-> "confirmed"]
    /\ request = [r \in Requests |-> "none"]
    /\ under = [r \in Requests |-> {}]
    /\ payout = [r \in Requests |-> "none"]
    /\ ref = [r \in Requests |-> FALSE]
    /\ rail = [r \in Requests |-> "none"]
    /\ pc = [p \in Procs |-> "idle"]
    /\ on = [p \in Procs |-> NoRequest]
    /\ taking = [p \in Procs |-> {}]
    /\ reqLock = [r \in Requests |-> NoProc]
    /\ payLock = [r \in Requests |-> NoProc]
    /\ entryLock = [e \in Entries |-> NoProc]
    /\ faults = 0 /\ lost = 0

------------------------------------------------------------------------------
Free(f, S) == \A x \in S : f[x] = NoProc
Take(f, S, p) == [x \in DOMAIN f |-> IF x \in S THEN p ELSE f[x]]
Drop(f, p) == [x \in DOMAIN f |-> IF f[x] = p THEN NoProc ELSE f[x]]

(* p goes on, for request r and the entries S. *)
Goto(p, l, r, S) ==
    /\ pc' = [pc EXCEPT ![p] = l]
    /\ on' = [on EXCEPT ![p] = r]
    /\ taking' = [taking EXCEPT ![p] = S]

(* The transaction ends, by commit or rollback. *)
EndTx(p) ==
    /\ reqLock' = Drop(reqLock, p)
    /\ payLock' = Drop(payLock, p)
    /\ entryLock' = Drop(entryLock, p)

Idle(p) == Goto(p, "idle", NoRequest, {})

(* The call ends; what it wrote is what its action says. *)
Done(p) == Idle(p) /\ EndTx(p)

(* An error return before anything was written. *)
GiveBack(p) == Done(p) /\ UNCHANGED <<moneyVars, rowVars, rail, faults, lost>>

(* p goes on holding what it holds; only its place changes. *)
On(p, l) == Goto(p, l, on[p], taking[p])

(* Post under key k: recorded now, or earlier with the same postings.      *)
Accepted(k, t) == IF posted[k] = NoTransfer THEN L!Funds(t) ELSE posted[k] = t

(* Entries.post, then p is at l; a refusal (funds, conflict) ends the call. *)
PostThen(p, k, t, l) ==
    /\ IF Accepted(k, t)
       THEN /\ IF posted[k] = NoTransfer THEN L!Record(k, t) ELSE UNCHANGED moneyVars
            /\ On(p, l)
            /\ UNCHANGED lockVars
       ELSE Done(p) /\ UNCHANGED moneyVars
    /\ UNCHANGED <<rowVars, rail, faults, lost>>

------------------------------------------------------------------------------
(* Asking (withdrawal.go).                                                 *)

(* Whole entries, oldest first, up to the one that reaches want. *)
Covering(S, want) == {e \in S : Total({f \in S : f < e}) < want}

(* Confirmed locks every confirmed entry; the id is minted afresh.  A      *)
(* refusal (destination, threshold, shortfall) changes nothing.            *)
Request(p, m, want, r) ==
    LET held == OwnedBy(m) \cap In("confirmed") IN
    /\ pc[p] = "idle"
    /\ Free(entryLock, held)
    /\ Total(held) >= Threshold /\ Total(held) >= want
    /\ posted[reservationKey(r)] = NoTransfer /\ \A q \in Procs : on[q] # r
    /\ entryLock' = Take(entryLock, held, p)
    /\ Goto(p, "reserve", r, Covering(held, want))
    /\ UNCHANGED <<moneyVars, rowVars, rail, reqLock, payLock, faults, lost>>

Member(p) == OwnerOf[CHOOSE e \in taking[p] : TRUE]

Reserve(p) ==
    /\ pc[p] = "reserve"
    /\ PostThen(p, reservationKey(on[p]),
                Move(Member(p), "confirmed", "reserved", Total(taking[p])), "create")

(* moveOne over the set (each conditional on the state it leaves), then    *)
(* the request row, in one commit.                                         *)
CreateRequest(p) ==
    /\ pc[p] = "create"
    /\ IF taking[p] \subseteq In("confirmed")
       THEN /\ entry' = Take(entry, taking[p], "reserved")
            /\ request' = [request EXCEPT ![on[p]] = "awaiting_approval"]
            /\ under' = [under EXCEPT ![on[p]] = taking[p]]
       ELSE UNCHANGED <<entry, request, under>>
    /\ Done(p)
    /\ UNCHANGED <<moneyVars, payout, ref, rail, faults, lost>>

------------------------------------------------------------------------------
(* Deciding (approval.go, reject.go).                                      *)

(* Mutant: the request is read without FOR UPDATE. *)
awaitingDecision_Unlocked(r) == request[r] = "awaiting_approval"

awaitingDecision(r) == reqLock[r] = NoProc /\ request[r] = "awaiting_approval"

(* Approve's first transaction: it waits for nothing once it has the       *)
(* request.  Entries of two brands are not payable as one payout.          *)
claim(p, r) ==
    /\ pc[p] = "idle"
    /\ awaitingDecision(r)
    /\ Cardinality({BrandOf[e] : e \in under[r]}) = 1
    /\ request' = [request EXCEPT ![r] = "approved"]
    /\ payout' = [payout EXCEPT ![r] = "submitted"]
    /\ Goto(p, "submit", r, {})
    /\ UNCHANGED <<moneyVars, entry, under, ref, rail, lockVars, faults, lost>>

(* The rail answers with its reference, under the request's key: the same  *)
(* payment however often it is asked.                                      *)
Accepts(r) ==
    /\ rail[r] # "refused"
    /\ rail' = [rail EXCEPT ![r] = IF rail[r] = "none" THEN "taken" ELSE rail[r]]

(* ErrRailTerminal: the submission never started and never will. *)
Refuses(r) ==
    /\ rail[r] \in {"none", "refused"}
    /\ rail' = [rail EXCEPT ![r] = "refused"]

(* A retryable failure, or an answer that never came: it may be in flight. *)
Loses(r) ==
    /\ lost < MaxLost
    /\ lost' = lost + 1
    /\ Accepts(r) \/ UNCHANGED rail

Submit(p) ==
    /\ pc[p] = "submit"
    /\ \/ Accepts(on[p]) /\ On(p, "sent") /\ UNCHANGED lost
       \/ Refuses(on[p]) /\ Idle(p) /\ UNCHANGED lost
       \/ Loses(on[p]) /\ Idle(p)
    /\ UNCHANGED <<moneyVars, rowVars, lockVars, faults>>

(* One UPDATE, which waits for whoever holds the payout. *)
RecordPayoutSubmission(r) == payLock[r] = NoProc /\ ref' = [ref EXCEPT ![r] = TRUE]

recordSubmission(p) ==
    /\ pc[p] = "sent"
    /\ RecordPayoutSubmission(on[p])
    /\ Idle(p)
    /\ UNCHANGED <<moneyVars, entry, request, under, payout, rail, lockVars, faults, lost>>

(* SELECT ... FOR UPDATE of the request, until the transaction ends. *)
LockWithdrawalRequestForDecision(p, r) == reqLock' = [reqLock EXCEPT ![r] = p]

(* What Reserved locks: every entry reserved under the request, each still *)
(* where moveTogether wants it.                                            *)
Holds(r) ==
    /\ under[r] # {}
    /\ Free(entryLock, under[r])
    /\ under[r] \subseteq In("reserved")

Reject(p, r) ==
    /\ pc[p] = "idle"
    /\ awaitingDecision(r)
    /\ Holds(r)
    /\ LockWithdrawalRequestForDecision(p, r)
    /\ entryLock' = Take(entryLock, under[r], p)
    /\ Goto(p, "release", r, under[r])
    /\ UNCHANGED <<moneyVars, rowVars, rail, payLock, faults, lost>>

(* Entries.Release, for a refusal and for a payment that will not happen. *)
Release(p, l) ==
    PostThen(p, releaseKey(on[p]),
             Move(Member(p), "reserved", "confirmed", Total(taking[p])), l)

ReleaseRejected(p) == pc[p] = "release" /\ Release(p, "refuse")

RecordRejection(p) ==
    /\ pc[p] = "refuse"
    /\ IF request[on[p]] = "awaiting_approval" /\ taking[p] \subseteq In("reserved")
       THEN /\ entry' = Take(entry, taking[p], "confirmed")
            /\ request' = [request EXCEPT ![on[p]] = "rejected"]
       ELSE UNCHANGED <<entry, request>>
    /\ Done(p)
    /\ UNCHANGED <<moneyVars, under, payout, ref, rail, faults, lost>>

------------------------------------------------------------------------------
(* Re-sending and giving up (retry.go).                                    *)

(* pending: the request, then its payout, under one transaction ... *)
Retry(p, r) ==
    /\ pc[p] = "idle"
    /\ request[r] # "none"
    /\ reqLock[r] = NoProc
    /\ LockWithdrawalRequestForDecision(p, r)
    /\ Goto(p, "retry", r, {})
    /\ UNCHANGED <<moneyVars, rowVars, rail, payLock, entryLock, faults, lost>>

(* ... that only reads: both locks are gone before the rail is asked. *)
Pending(p) ==
    /\ pc[p] = "retry"
    /\ payLock[on[p]] = NoProc
    /\ IF payout[on[p]] = "submitted" THEN On(p, "resend") ELSE Idle(p)
    /\ EndTx(p)
    /\ UNCHANGED <<moneyVars, rowVars, rail, faults, lost>>

(* Mutant: any failure of the rail counts as final. *)
Resend_AnyError(p) ==
    /\ pc[p] = "resend"
    /\ \/ Accepts(on[p]) /\ On(p, "sent") /\ UNCHANGED lost
       \/ Refuses(on[p]) /\ On(p, "abandon") /\ UNCHANGED lost
       \/ Loses(on[p]) /\ On(p, "abandon")
    /\ UNCHANGED <<moneyVars, rowVars, lockVars, faults>>

Resend(p) ==
    /\ pc[p] = "resend"
    /\ \/ Accepts(on[p]) /\ On(p, "sent") /\ UNCHANGED lost
       \/ Refuses(on[p]) /\ On(p, "abandon") /\ UNCHANGED lost
       \/ Loses(on[p]) /\ Idle(p)
    /\ UNCHANGED <<moneyVars, rowVars, lockVars, faults>>

(* SELECT ... FOR UPDATE of the payout. *)
LockPayoutForRequest(p, r) == payLock' = [payLock EXCEPT ![r] = p]

(* The payout first, while it still waits on the rail ... *)
Abandon(p) ==
    /\ pc[p] = "abandon"
    /\ payLock[on[p]] = NoProc
    /\ \/ /\ payout[on[p]] = "submitted"
          /\ LockPayoutForRequest(p, on[p])
          /\ On(p, "giveUp")
          /\ UNCHANGED <<moneyVars, rowVars, rail, reqLock, entryLock, faults, lost>>
       \/ payout[on[p]] # "submitted" /\ GiveBack(p)

(* ... then the request and its entries. *)
AbandonRequest(p) ==
    /\ pc[p] = "giveUp"
    /\ reqLock[on[p]] = NoProc
    /\ Holds(on[p])
    /\ LockWithdrawalRequestForDecision(p, on[p])
    /\ entryLock' = Take(entryLock, under[on[p]], p)
    /\ Goto(p, "putBack", on[p], under[on[p]])
    /\ UNCHANGED <<moneyVars, rowVars, rail, payLock, faults, lost>>

PutBack(p) == pc[p] = "putBack" /\ Release(p, "fail")

FailPayout(p) ==
    /\ pc[p] = "fail"
    /\ IF request[on[p]] = "approved" /\ taking[p] \subseteq In("reserved")
       THEN /\ entry' = Take(entry, taking[p], "confirmed")
            /\ payout' = [payout EXCEPT ![on[p]] = "failed"]
            /\ request' = [request EXCEPT ![on[p]] = "failed"]
       ELSE UNCHANGED <<entry, payout, request>>
    /\ Done(p)
    /\ UNCHANGED <<moneyVars, under, ref, rail, faults, lost>>

------------------------------------------------------------------------------
(* Settling (settle.go).                                                   *)

(* The sweep reads a payment the rail named, without a lock. *)
Settle(p, r) ==
    /\ pc[p] = "idle"
    /\ payout[r] = "submitted" /\ ref[r]
    /\ Goto(p, "status", r, {})
    /\ UNCHANGED <<moneyVars, rowVars, rail, lockVars, faults, lost>>

(* Mutant: a payment the rail has taken counts as settled. *)
Status_Guesses(p) ==
    /\ pc[p] = "status"
    /\ \/ rail[on[p]] \in {"settled", "taken"} /\ On(p, "arrival")
       \/ rail[on[p]] = "failed" /\ On(p, "abandon")
    /\ UNCHANGED <<moneyVars, rowVars, rail, lockVars, faults, lost>>

Status(p) ==
    /\ pc[p] = "status"
    /\ \/ rail[on[p]] = "settled" /\ On(p, "arrival")
       \/ rail[on[p]] = "failed" /\ On(p, "abandon")
    /\ UNCHANGED <<moneyVars, rowVars, rail, lockVars, faults, lost>>

(* Still in flight as far as the rail knows, which is all the manual rail  *)
(* ever says; or the question failed.                                      *)
StillSubmitted(p) ==
    /\ pc[p] = "status"
    /\ Idle(p)
    /\ UNCHANGED <<moneyVars, rowVars, rail, lockVars, faults, lost>>

(* An operator who saw the transfer at the bank says so; nobody is asked. *)
RecordByHand(p, r) ==
    /\ pc[p] = "idle"
    /\ rail[r] = "settled"
    /\ Goto(p, "arrival", r, {})
    /\ UNCHANGED <<moneyVars, rowVars, rail, lockVars, faults, lost>>

(* recordArrival: the payout again, locked this time ... *)
recordArrival(p) ==
    /\ pc[p] = "arrival"
    /\ payLock[on[p]] = NoProc
    /\ \/ /\ payout[on[p]] = "submitted"
          /\ LockPayoutForRequest(p, on[p])
          /\ On(p, "paid")
          /\ UNCHANGED <<moneyVars, rowVars, rail, reqLock, entryLock, faults, lost>>
       \/ payout[on[p]] # "submitted" /\ GiveBack(p)

(* ... then the request, whose UPDATE waits for its holder. *)
MarkPaid(p) ==
    /\ pc[p] = "paid"
    /\ reqLock[on[p]] = NoProc
    /\ IF request[on[p]] = "approved"
       THEN /\ payout' = [payout EXCEPT ![on[p]] = "settled"]
            /\ request' = [request EXCEPT ![on[p]] = "paid"]
            /\ ref' = [ref EXCEPT ![on[p]] = TRUE]
       ELSE UNCHANGED <<payout, request, ref>>
    /\ Done(p)
    /\ UNCHANGED <<moneyVars, entry, under, rail, faults, lost>>

------------------------------------------------------------------------------
(* What the code has no say in.                                            *)

(* The call dies: its transaction is rolled back, its transfers stand. *)
Crash(p) ==
    /\ pc[p] # "idle"
    /\ faults < MaxFaults
    /\ faults' = faults + 1
    /\ Done(p)
    /\ UNCHANGED <<moneyVars, rowVars, rail, lost>>

(* Who a caller waits for. *)
WaitsFor(p, q) ==
    \/ pc[p] \in {"retry", "abandon", "arrival", "sent"} /\ payLock[on[p]] = q
    \/ pc[p] \in {"giveUp", "paid"} /\ reqLock[on[p]] = q

(* Postgres ends one of two transactions that wait for each other. *)
DeadlockVictim(p) ==
    /\ \E q \in Procs : WaitsFor(p, q) /\ WaitsFor(q, p)
    /\ GiveBack(p)

(* The payment reaches the member, or comes back. *)
RailCompletes(r) ==
    /\ rail[r] = "taken"
    /\ \E s \in {"settled", "failed"} : rail' = [rail EXCEPT ![r] = s]
    /\ UNCHANGED <<moneyVars, rowVars, pc, on, taking, lockVars, faults, lost>>

Step(p) ==
    \/ Reserve(p) \/ CreateRequest(p)
    \/ Submit(p) \/ recordSubmission(p)
    \/ ReleaseRejected(p) \/ RecordRejection(p)
    \/ Pending(p) \/ Resend(p)
    \/ Abandon(p) \/ AbandonRequest(p) \/ PutBack(p) \/ FailPayout(p)
    \/ Status(p) \/ StillSubmitted(p) \/ recordArrival(p) \/ MarkPaid(p)

Next ==
    \/ \E p \in Procs :
         \/ \E m \in Members, want \in Wants, r \in Requests : Request(p, m, want, r)
         \/ \E r \in Requests : claim(p, r) \/ Reject(p, r) \/ Retry(p, r)
                                \/ Settle(p, r) \/ RecordByHand(p, r)
         \/ Step(p)
         \/ Crash(p)
         \/ DeadlockVictim(p)
    \/ \E r \in Requests : RailCompletes(r)

Spec == Init /\ [][Next]_vars

(* A call keeps going, a row comes to whoever queues for it, a deadlock is *)
(* ended, and not always at the cost of the side that holds the payout.    *)
(* The sweep asks about every payment again on its schedule, and the rail  *)
(* tells it in the end.                                                    *)
FairSpec ==
    /\ Spec
    /\ \A p \in Procs :
         SF_vars(Step(p)) /\ SF_vars(Status(p)) /\ SF_vars(AbandonRequest(p) \/ MarkPaid(p))
    /\ SF_vars(\E p \in Procs : pc[p] = "retry" /\ DeadlockVictim(p))
    /\ \A r \in Requests : SF_vars(\E p \in Procs : Settle(p, r))

------------------------------------------------------------------------------
(* Properties.                                                             *)

(* A request that may still be paid, or a payment the rail has taken. *)
Owed(r) ==
    \/ request[r] \in {"awaiting_approval", "approved", "paid"}
    \/ rail[r] \in {"taken", "settled"}

(* No earning is spent twice: what stands behind a request that may be     *)
(* paid, or behind money already with the rail, is out of the member's     *)
(* reach and behind no other such request, whatever is lost or dies.       *)
SpentOnce ==
    \A r \in Requests : Owed(r) =>
        /\ under[r] # {} /\ under[r] \subseteq In("reserved")
        /\ \A q \in Requests \ {r} : Owed(q) => under[r] \cap under[q] = {}

(* What the tables say of a payment is what became of it: paid means it    *)
(* arrived, failed means it never will, and the two rows tell one story    *)
(* ("a member being told two different things by two screens").            *)
OutcomeIsTrue ==
    \A r \in Requests :
        /\ request[r] = "paid" <=> payout[r] = "settled"
        /\ request[r] = "failed" <=> payout[r] = "failed"
        /\ request[r] = "paid" => rail[r] = "settled"
        /\ request[r] = "failed" => rail[r] \in {"refused", "failed"}

Quiet == \A p \in Procs : pc[p] = "idle"

StageHolds(m, s) == balance[<<m, s>>] = Total(OwnedBy(m) \cap In(s))

(* What survives even a call that died: a request names a transfer the     *)
(* ledger holds for exactly its entries, and a request that went nowhere   *)
(* was given back in full.                                                 *)
Backed ==
    \A r \in Requests : request[r] # "none" =>
        LET m == OwnerOf[CHOOSE e \in under[r] : TRUE]
            n == Total(under[r])
        IN  /\ posted[reservationKey(r)] = Move(m, "confirmed", "reserved", n)
            /\ request[r] \in {"rejected", "failed"} =>
                 posted[releaseKey(r)] = Move(m, "reserved", "confirmed", n)

(* As long as no call died half way, the ledger's stages hold what the     *)
(* entries say, once everybody is done: a release racing an approval never *)
(* moves money the other kept (awaitingDecision).  Even if one died, each  *)
(* request stands on its own transfer.                                     *)
BooksAgree ==
    /\ Backed
    /\ Quiet /\ faults = 0 =>
          \A m \in Members, s \in {"confirmed", "reserved"} : StageHolds(m, s)

(* A payment whose outcome the rail knows is resolved by the sweep, from   *)
(* the reference a submission recorded (SettleAll).                        *)
KnownOutcomeIsRecorded ==
    \A r \in Requests :
        ref[r] /\ rail[r] \in {"settled", "failed"} ~> request[r] \in {"paid", "failed"}

(* "A retry re-posts to the same reference rather than moving the money    *)
(* again" (Entries.Reserve): a member whose request stands has no more in  *)
(* reserved than their requests name, even if an earlier call died.        *)
RetryMovesNothing ==
    Quiet => \A m \in Members :
        (\E r \in Requests : request[r] = "awaiting_approval" /\ under[r] \subseteq OwnedBy(m))
            => balance[<<m, "reserved">>] <= Total(OwnedBy(m) \cap In("reserved"))
==============================================================================
