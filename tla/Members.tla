-------------------------------- MODULE Members --------------------------------
(***************************************************************************)
(* A member's side of cashback (internal/cashback/wallet and payout):      *)
(* joining and leaving, the payout destinations whose details a vault      *)
(* keeps, the withdrawals that name them, and what a deletion of the       *)
(* account does to all of these.                                           *)
(*                                                                         *)
(* A request is let in while the account lives and ends in one statement   *)
(* that takes the participation's row, so the statement, its event and its *)
(* commit are one step; now() is the time at which its transaction began.  *)
(* The deletion is delivered at least once, by processes that may overlap: *)
(* its handler closes the participation in one transaction, reads the      *)
(* withdrawals in flight, and announces each in a transaction of its own.  *)
(***************************************************************************)
EXTENDS Integers, Sequences, FiniteSets, SequencesExt, TLC

CONSTANTS
    NoOne,
    Accounts,
    Devices,        \* what members send their requests from
    OwnerOf,        \* OwnerOf[d]: the account signed in on the device
    Handlers,       \* processes that deliver the deletion
    Versions,       \* terms versions a request may name
    InForce,        \* the version in force
    Details,        \* payout details a member may offer
    Describes,      \* the details the vault accepts
    MaxClock,
    Beginnings      \* the states and budgets a behaviour starts from

VARIABLES
    account,        \* "live", or "deleted" once the deletion is published
    participation,  \* cashback.participation
    announced,      \* announced[a]: the participation events, as committed, each with its place
    deletion,       \* deletion[a]: "none", "due", "handled"
    request,        \* cashback.withdrawal_request, in the order of its ids
    flagged,        \* flagged[r]: how often the withdrawal was announced as in flight
    vault,          \* the details stored, by their references
    destination,    \* cashback.payout_destination, in the order of its ids
    entry,          \* entry[a]: the states of the account's entries, oldest first
    device,         \* each device's request
    handler,        \* each process's delivery
    clock,
    budget

memberVars == <<account, participation, announced, deletion, request, flagged, vault,
                destination, entry, device, handler, clock, budget>>

(* Bounds on how often each kind of step is taken. *)
Spend(what) ==
    /\ budget[what] > 0
    /\ budget' = [budget EXCEPT ![what] = @ - 1]

Away == [st |-> "away"]
(* A member's row; late is no column: it joined an account already deleted. *)
Participation(status, optedIn, late) == [status |-> status, optedIn |-> optedIn, leftAt |-> 0, late |-> late]
NeverJoined == Participation("none", 0, FALSE)

MembersInit ==
    \E b \in Beginnings :
        /\ account = [a \in Accounts |-> "live"]
        /\ participation = [a \in Accounts |-> NeverJoined]
        /\ announced = [a \in Accounts |-> <<>>]
        /\ deletion = [a \in Accounts |-> "none"]
        /\ request = b.request
        /\ flagged = [r \in 1..Len(b.request) |-> 0]
        /\ vault = b.vault
        /\ destination = b.destination
        /\ entry = b.entry
        /\ device = [d \in Devices |-> Away]
        /\ handler = [h \in Handlers |-> Away]
        /\ clock = 1
        /\ budget = b.budget

---------------------------------------------------------------------------------
(* requireMember: the token names an account that lives.  The handler's      *)
(* transaction begins.                                                       *)
requireMember(d, what) ==
    /\ Spend("requests")
    /\ device[d] = Away
    /\ account[OwnerOf[d]] = "live"
    /\ device' = [device EXCEPT ![d] = [st |-> what, now |-> clock]]
    /\ UNCHANGED <<account, participation, announced, deletion, request, flagged, vault, destination, entry, handler, clock>>

Answered(d) == device' = [device EXCEPT ![d] = Away]

(* The events beside the rows.  They carry no idempotency key; their place   *)
(* in the stream is occurred_at, when the transaction began.                 *)
Started(a, now) == announced' = [announced EXCEPT ![a] = Append(@, [what |-> "started", at |-> now])]
Ended(a, now) == announced' = [announced EXCEPT ![a] = Append(@, [what |-> "ended", at |-> now])]

(* The member joins or joins again, under the terms in force. *)
OptIntoParticipation(a, now) ==
    IF participation[a].status = "active"
    THEN UNCHANGED <<participation, announced>>
    ELSE /\ participation' = [participation EXCEPT ![a] = Participation("active", now, account[a] # "live")]
         /\ Started(a, now)

(* Only the version in force can be accepted. *)
Join(a, v, now) ==
    IF v = InForce THEN OptIntoParticipation(a, now) ELSE UNCHANGED <<participation, announced>>

postParticipation(d) ==
    /\ device[d].st = "join"
    /\ \E v \in Versions : Join(OwnerOf[d], v, device[d].now)
    /\ Answered(d)
    /\ UNCHANGED <<account, deletion, request, flagged, vault, destination, entry, handler, clock, budget>>

(* Mutant: the update closes a participation whatever its status. *)
Closes_Any(a) == participation[a].status # "none"

(* The row the update matches. *)
Closes(a) == participation[a].status = "active"

(* participation_left_after_opt_in refuses a departure dated before the       *)
(* opt-in it ends.                                                           *)
LeavesInTime(a, now) == now >= participation[a].optedIn

(* A participation already closed, or never opened, is left as it is. *)
Leave(a, now) ==
    IF Closes(a) /\ LeavesInTime(a, now)
    THEN /\ participation' = [participation EXCEPT ![a].status = "left", ![a].leftAt = now]
         /\ Ended(a, now)
    ELSE UNCHANGED <<participation, announced>>

deleteParticipation(d) ==
    /\ device[d].st = "leave"
    /\ Leave(OwnerOf[d], device[d].now)
    /\ Answered(d)
    /\ UNCHANGED <<account, deletion, request, flagged, vault, destination, entry, handler, clock, budget>>

---------------------------------------------------------------------------------
References == 1..Len(vault)

(* Mutant: details are stored unread. *)
validate_Any(x) == TRUE

(* What the vault accepts as details of a destination. *)
validate(x) == x \in Describes

(* The details are stored under a reference of their own; the vault's answer *)
(* may be lost, and they are stored all the same.                            *)
Store(d, x) ==
    /\ vault' = Append(vault, x)
    /\ \/ device' = [device EXCEPT ![d] = [st |-> "stored", ref |-> Len(vault) + 1]]
       \/ Answered(d)

postDestination(d) ==
    /\ device[d].st = "destination"
    /\ \E x \in Details : IF validate(x) THEN Store(d, x) ELSE Answered(d) /\ UNCHANGED vault
    /\ UNCHANGED <<account, participation, announced, deletion, request, flagged, destination, entry, handler, clock, budget>>

(* Recorded unverified, naming where the details are. *)
Destination(a, ref) == [owner |-> a, ref |-> ref, at |-> clock, verifiedBy |-> NoOne]

CreatePayoutDestination(a, ref) == destination' = Append(destination, Destination(a, ref))

(* The second half of the handler: the row that names the reference. *)
Record(d) ==
    /\ device[d].st = "stored"
    /\ CreatePayoutDestination(OwnerOf[d], device[d].ref)
    /\ Answered(d)
    /\ UNCHANGED <<account, participation, announced, deletion, request, flagged, vault, entry, handler, clock, budget>>

RequireVerified(n) == destination[n].verifiedBy # NoOne

(* A destination is read for a member, by id. *)
OwnDestination(a, n) == destination[n].owner = a

CreateWithdrawalRequest(a, n, now) ==
    /\ request' = Append(request, [owner |-> a, to |-> n, state |-> "awaiting_approval",
                                   at |-> now, early |-> account[a] = "live"])
    /\ flagged' = Append(flagged, 0)

(* The destination is read first, and one that is not the member's or not    *)
(* verified is refused.                                                      *)
payable(d) ==
    /\ device[d].st = "withdraw"
    /\ \E n \in 1..Len(destination) :
          IF OwnDestination(OwnerOf[d], n) /\ RequireVerified(n)
          THEN device' = [device EXCEPT ![d] = [st |-> "payable", to |-> n, now |-> @.now]]
          ELSE Answered(d)
    /\ UNCHANGED <<account, participation, announced, deletion, request, flagged, vault, destination, entry, handler, clock, budget>>

(* What the insert meets in the database: the foreign key on id and owner,   *)
(* and the trigger that reads the destination again.                         *)
withdrawal_request_guard(a, n) == destination[n].owner = a /\ destination[n].verifiedBy # NoOne

(* The request is recorded steps later, on what was read.  What becomes of   *)
(* the money between the two is Withdrawals.                                 *)
Request(d) ==
    /\ device[d].st = "payable"
    /\ IF withdrawal_request_guard(OwnerOf[d], device[d].to)
       THEN CreateWithdrawalRequest(OwnerOf[d], device[d].to, device[d].now)
       ELSE UNCHANGED <<request, flagged>>
    /\ Answered(d)
    /\ UNCHANGED <<account, participation, announced, deletion, vault, destination, entry, handler, clock, budget>>

(* The handler's two steps. *)
postWithdrawal(d) == payable(d) \/ Request(d)

InFlight(r) == request[r].state \in {"awaiting_approval", "approved"}

(* An operator's decision, and the rail's outcome of an approved one. *)
RecordWithdrawalDecision(r) ==
    /\ Spend("decisions")
    /\ request[r].state = "awaiting_approval"
    /\ \E s \in {"approved", "rejected"} : request' = [request EXCEPT ![r].state = s]
    /\ UNCHANGED <<account, participation, announced, deletion, flagged, vault, destination, entry, device, handler, clock>>

MarkWithdrawalPaid(r) ==
    /\ Spend("decisions")
    /\ request[r].state = "approved"
    /\ request' = [request EXCEPT ![r].state = "paid"]
    /\ UNCHANGED <<account, participation, announced, deletion, flagged, vault, destination, entry, device, handler, clock>>

---------------------------------------------------------------------------------
(* identity.account.deleted is published. *)
DeleteAccount(a) ==
    /\ Spend("deletions")
    /\ account[a] = "live"
    /\ account' = [account EXCEPT ![a] = "deleted"]
    /\ deletion' = [deletion EXCEPT ![a] = "due"]
    /\ UNCHANGED <<participation, announced, request, flagged, vault, destination, entry, device, handler, clock>>

(* A delivery of the deletion, about to close the participation. *)
Delivery(a) == [st |-> "close", of |-> a, now |-> clock, todo |-> <<>>]

(* Handle: the participation's closing begins. *)
Handle(h) ==
    /\ handler[h] = Away
    /\ \E a \in Accounts : /\ deletion[a] = "due"
                           /\ handler' = [handler EXCEPT ![h] = Delivery(a)]
    /\ UNCHANGED <<account, participation, announced, deletion, request, flagged, vault, destination, entry, device, clock, budget>>

(* A closing that is refused fails the delivery. *)
Close(h) ==
    /\ handler[h].st = "close"
    /\ LET a == handler[h].of
       IN  /\ Leave(a, handler[h].now)
           /\ handler' = [handler EXCEPT ![h] = IF Closes(a) /\ ~ LeavesInTime(a, @.now) THEN Away
                                                ELSE [@ EXCEPT !.st = "read"]]
    /\ UNCHANGED <<account, deletion, request, flagged, vault, destination, entry, device, clock, budget>>

InFlightWithdrawalsForAccount(a) ==
    SetToSortSeq({r \in 1..Len(request) : request[r].owner = a /\ InFlight(r)}, <)

flagInFlight(h) ==
    /\ handler[h].st = "read"
    /\ handler' = [handler EXCEPT ![h].st = "flag", ![h].todo = InFlightWithdrawalsForAccount(handler[h].of)]
    /\ UNCHANGED <<account, participation, announced, deletion, request, flagged, vault, destination, entry, device, clock, budget>>

(* The flag's idempotency key is the request and the cause. *)
WithdrawalFlagged(r) == flagged' = IF flagged[r] = 0 THEN [flagged EXCEPT ![r] = 1] ELSE flagged

(* Mutant: the flag has no idempotency key. *)
announce_Again(h) ==
    /\ handler[h].st = "flag"
    /\ handler[h].todo # <<>>
    /\ flagged' = [flagged EXCEPT ![Head(handler[h].todo)] = @ + 1]
    /\ handler' = [handler EXCEPT ![h].todo = Tail(@)]
    /\ UNCHANGED <<account, participation, announced, deletion, request, vault, destination, entry, device, clock, budget>>

(* One flag, in its own transaction; a key that is there already is no failure. *)
announce(h) ==
    /\ handler[h].st = "flag"
    /\ handler[h].todo # <<>>
    /\ WithdrawalFlagged(Head(handler[h].todo))
    /\ handler' = [handler EXCEPT ![h].todo = Tail(@)]
    /\ UNCHANGED <<account, participation, announced, deletion, request, vault, destination, entry, device, clock, budget>>

(* The handler has answered, and the delivery is recorded. *)
Delivered(h) ==
    /\ handler[h].st = "flag"
    /\ handler[h].todo = <<>>
    /\ deletion' = [deletion EXCEPT ![handler[h].of] = "handled"]
    /\ handler' = [handler EXCEPT ![h] = Away]
    /\ UNCHANGED <<account, participation, announced, request, flagged, vault, destination, entry, device, clock, budget>>

(* A request or a delivery ends before its next statement. *)
Dies ==
    /\ Spend("faults")
    /\ \/ \E d \in Devices : device[d] # Away /\ Answered(d) /\ UNCHANGED handler
       \/ \E h \in Handlers : /\ handler[h] # Away
                              /\ handler' = [handler EXCEPT ![h] = Away]
                              /\ UNCHANGED device
    /\ UNCHANGED <<account, participation, announced, deletion, request, flagged, vault, destination, entry, clock>>

(* Earnings open an entry, or move one on. *)
CreateEntry(a) == entry' = [entry EXCEPT ![a] = Append(@, "pending")]
MoveEntry(a) ==
    \E n \in 1..Len(entry[a]) : entry[a][n] = "pending" /\ entry' = [entry EXCEPT ![a][n] = "confirmed"]

EntryStep(a) ==
    /\ Spend("entries")
    /\ CreateEntry(a) \/ MoveEntry(a)
    /\ UNCHANGED <<account, participation, announced, deletion, request, flagged, vault, destination, device, handler, clock>>

Tick ==
    /\ Spend("ticks")
    /\ clock < MaxClock
    /\ clock' = clock + 1
    /\ UNCHANGED <<account, participation, announced, deletion, request, flagged, vault, destination, entry, device, handler>>

MemberStep ==
    \/ \E d \in Devices : \/ \E what \in {"join", "leave", "destination", "withdraw"} : requireMember(d, what)
                          \/ postParticipation(d)
                          \/ deleteParticipation(d)
                          \/ postDestination(d)
                          \/ Record(d)
                          \/ postWithdrawal(d)
    \/ \E h \in Handlers : Handle(h) \/ Close(h) \/ flagInFlight(h) \/ announce(h) \/ Delivered(h)
    \/ \E r \in 1..Len(request) : RecordWithdrawalDecision(r) \/ MarkWithdrawalPaid(r)
    \/ \E a \in Accounts : DeleteAccount(a) \/ EntryStep(a)
    \/ Dies
    \/ Tick

---------------------------------------------------------------------------------
(* How many events of a kind stand in the member's stream up to t. *)
Upto(a, what, t) == Cardinality({i \in DOMAIN announced[a] :
                        announced[a][i].what = what /\ announced[a][i].at <= t})

(* The re-joins that stand at t or before it although they followed a         *)
(* departure that stands after it: they began before it and ran after it.    *)
Overtaken(a, t) == {i \in DOMAIN announced[a] :
    /\ announced[a][i].what = "started" /\ announced[a][i].at <= t
    /\ \E j \in 1..(i - 1) : announced[a][j].what = "ended" /\ t < announced[a][j].at}

(* The participation events of a member, read in the order of the stream,   *)
(* tell its story: no departure stands before the joining it ends, two      *)
(* memberships are open at one place only where a re-join overtook a        *)
(* departure, and the whole of it agrees with the row, whatever requests    *)
(* are repeated and however often and on how many processes the deletion is *)
(* delivered.                                                               *)
AnnouncedInTurn ==
    \A a \in Accounts :
        /\ \A t \in 1..MaxClock :
              Upto(a, "started", t) - Upto(a, "ended", t) \in 0 .. 1 + Cardinality(Overtaken(a, t))
        /\ Upto(a, "started", MaxClock) - Upto(a, "ended", MaxClock)
              = IF participation[a].status = "active" THEN 1 ELSE 0

(* When a deletion counts as handled the member is out, unless a request    *)
(* let in before the deletion joined again after it, and each withdrawal    *)
(* asked for before the deletion and still in flight has been put before an *)
(* operator exactly once, although the handler may stop between any two of  *)
(* its transactions and be run again, or twice at a time.                   *)
DeletionIsHandled ==
    /\ \A a \in Accounts :
          deletion[a] = "handled" =>
              /\ participation[a].status = "active" => participation[a].late
              /\ \A r \in 1..Len(request) :
                    (request[r].owner = a /\ request[r].early /\ InFlight(r)) => flagged[r] = 1
    /\ \A r \in DOMAIN flagged : flagged[r] <= 1

(* Whatever a withdrawal is to be paid to is the member's own destination,  *)
(* someone verified it, and the vault holds the details it refers to,       *)
(* although the details and the row are stored in two steps and the row is  *)
(* read some steps before the request is recorded.                          *)
PaidWhereVerified ==
    \A r \in 1..Len(request) :
        LET n == request[r].to
        IN  /\ destination[n].owner = request[r].owner
            /\ destination[n].verifiedBy # NoOne
            /\ destination[n].ref \in References
            /\ vault[destination[n].ref] \in Describes
================================================================================
