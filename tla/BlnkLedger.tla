------------------------------ MODULE BlnkLedger ------------------------------
(***************************************************************************)
(* internal/cashback/wallet/blnk: the wallet.Ledger port over a Blnk       *)
(* server, one HTTP call a step.  The server (ledgers, txns) is external   *)
(* and is modelled by what the adapter asks of it: names of ledgers are    *)
(* not unique, a reference is held by one transaction, a create is atomic  *)
(* and is usually applied at once, an answer may be lost.                  *)
(*                                                                         *)
(* Instances are processes; each keeps the ledger id it resolved.  Callers *)
(* are their goroutines.  An account's id is <<ledger id, account>>.       *)
(***************************************************************************)
EXTENDS Integers, Sequences, FiniteSets, SequencesExt

CONSTANTS
    MemberAccounts, HouseAccounts, Keys, Transfers, NoTransfer,
    Requests,       \* <<key, transfer>> pairs callers post; a key comes from its cause
    Callers,        \* goroutines that call the adapter
    Instance,       \* the process each belongs to
    LedgerIds,      \* ids the server may hand out, as numbers
    NoCaller,
    MaxOthers,      \* bound: ledgers of other names on the server
    ScanLimit,      \* ledgerScanLimit
    Read,           \* the accounts whose history is read
    PageCap,        \* rows the server puts on a page, whatever was asked for
    MaxTxns,        \* bound: transactions the server ever records
    MaxFaults       \* bound: lost answers, and transactions not applied inline

Accounts  == MemberAccounts \cup HouseAccounts
Instances == {Instance[c] : c \in Callers}
NoLedger  == 0

ASSUME BlnkAssumption ==
    /\ LedgerIds \subseteq Nat \ {NoLedger}
    /\ {MaxOthers, ScanLimit, PageCap, MaxTxns, MaxFaults} \subseteq Nat
    /\ PageCap > 0
    /\ Read \subseteq Accounts
    /\ Requests \subseteq Keys \X Transfers

VARIABLES
    ledgers,    \* server: the ledgers of the configured name, id and time, as created
    others,     \* server: how many ledgers of other names it lists
    txns,       \* server: its transactions, oldest first
    ledgerID,   \* the id each instance remembers
    resolving,  \* who holds each instance's creation lock
    call,       \* each caller's call: where it is and what it read so far
    answer,     \* what the call that returned in the last step came back with
    faults

serverVars == <<ledgers, others, txns>>
vars == <<serverVars, ledgerID, resolving, call, answer, faults>>

Statuses == {"applied", "queued", "refused", "unheard"}
Idle == [pc |-> "idle"]

(* ---- The server ------------------------------------------------------ *)
Sources(t)      == {a \in Accounts : t[a] < 0}
Destinations(t) == {a \in Accounts : t[a] > 0}

(* What the applied transactions leave on an account. *)
Holds(ns, a) ==
    FoldSeq(LAMBDA x, sum : IF x.ns = ns /\ x.status = "applied" THEN x.t[a] + sum ELSE sum,
            0, txns)

Covered(x) == x.over \/ \A a \in Sources(x.t) : Holds(x.ns, a) + x.t[a] >= 0

(* The newest transaction whose reference is k. *)
Under(k) == {i \in DOMAIN txns : txns[i].key = k}
Newest(S) == CHOOSE i \in S : \A j \in S : j <= i

------------------------------------------------------------------------------
(* ---- Which ledger the account names are scoped to ---------------------- *)

(* The oldest of several ledgers of the name, the id breaking a tie. *)
Winner ==
    (CHOOSE l \in Range(ledgers) : \A m \in Range(ledgers) :
        l.at < m.at \/ (l.at = m.at /\ l.id <= m.id)).id

(* Mutant: the newest of the name wins. *)
findLedger_Newest ==
    IF Len(ledgers) + others >= ScanLimit THEN {}
    ELSE {IF ledgers = <<>> THEN NoLedger ELSE Last(ledgers).id}

(* Every page is walked; a walk that never meets a short page is an error. *)
findLedger ==
    IF Len(ledgers) + others >= ScanLimit THEN {}
    ELSE {IF ledgers = <<>> THEN NoLedger ELSE Winner}

At(c, pc)     == call[c].pc = pc
Goto(c, pc)   == call' = [call EXCEPT ![c].pc = pc]
Silent == answer' = "none"

Return(c, said) ==
    /\ call' = [call EXCEPT ![c] = Idle]
    /\ answer' = said

(* A failed call gives the creation lock back (defer Unlock). *)
Unlock(c) == resolving' = [i \in Instances |-> IF resolving[i] = c THEN NoCaller ELSE resolving[i]]

Remember(c, id) ==
    /\ ledgerID' = [ledgerID EXCEPT ![Instance[c]] = id]
    /\ call' = [call EXCEPT ![c].pc = call[c].then, ![c].ns = id]
    /\ Unlock(c)

(* The memoised id, or the id the server lists.  Post and EnsureAccount    *)
(* create the ledger when there is none, reads answer that no account has  *)
(* been issued.                                                            *)
knownLedgerID(c, pc, IfNone) ==
    /\ At(c, pc)
    /\ \/ /\ ledgerID[Instance[c]] # NoLedger
          /\ Remember(c, ledgerID[Instance[c]])
          /\ Silent
       \/ /\ ledgerID[Instance[c]] = NoLedger
          /\ \E id \in findLedger :
                \/ id # NoLedger /\ Remember(c, id) /\ Silent
                \/ /\ id = NoLedger
                   /\ IfNone
                   /\ UNCHANGED ledgerID
       \/ /\ ledgerID[Instance[c]] = NoLedger
          /\ findLedger = {}
          /\ Return(c, "error")
          /\ Unlock(c)
          /\ UNCHANGED ledgerID
    /\ UNCHANGED <<serverVars, faults>>

(* A call goes straight on when its instance remembers the ledger. *)
Begin(c, first, then, m) ==
    [pc |-> IF ledgerID[Instance[c]] = NoLedger THEN first ELSE then, then |-> then,
     ns |-> ledgerID[Instance[c]]] @@ m

EnsureAccount(c) ==
    knownLedgerID(c, "ensure", Goto(c, "lock") /\ Silent /\ UNCHANGED resolving)

(* One goroutine of an instance creates; it looks again under the lock. *)
LookAgain(c) ==
    /\ resolving[Instance[c]] = NoCaller
    /\ knownLedgerID(c, "lock",
            /\ Goto(c, "create ledger")
            /\ resolving' = [resolving EXCEPT ![Instance[c]] = c]
            /\ Silent)

(* The time the server puts on a new ledger: creates that no answered      *)
(* listing separates may carry one time, a listed ledger is always older.  *)
Stamps ==
    LET last == IF ledgers = <<>> THEN 0 ELSE Last(ledgers).at
    IN  {last + 1} \cup IF last > 0 /\ \A i \in Instances : ledgerID[i] = NoLedger
                        THEN {last} ELSE {}

(* Concurrent creates of one name all succeed, each with an id of its own. *)
createLedger(c) ==
    /\ At(c, "create ledger")
    /\ \E id \in LedgerIds \ {l.id : l \in Range(ledgers)}, at \in Stamps :
            ledgers' = Append(ledgers, [id |-> id, at |-> at])
    /\ Goto(c, "find")
    /\ Silent
    /\ UNCHANGED <<others, txns, ledgerID, resolving, faults>>

(* The list is read again after the create, never the create's answer. *)
resolveLedgerID(c) ==
    knownLedgerID(c, "find", Return(c, "error") /\ Unlock(c))

------------------------------------------------------------------------------
(* ---- Post ----------------------------------------------------------------*)
Posting(c) == call[c].t

(* decompose: one transaction carries one giver or one receiver. *)
Recordable(t) == Cardinality(Sources(t)) = 1 \/ Cardinality(Destinations(t)) = 1

Port == INSTANCE Ledger WITH
    balance <- [a \in Accounts |-> IF ledgers = <<>> THEN 0 ELSE Holds(Winner, a)],
    posted  <- [k \in Keys |->
                  IF \E i \in Under(k) : txns[i].status = "applied"
                  THEN txns[CHOOSE i \in Under(k) : txns[i].status = "applied"].t
                  ELSE NoTransfer]

(* Post begins: what could never be recorded is refused before any call. *)
Post(c, k, t) ==
    /\ At(c, "idle")
    /\ Port!Validates(t)
    /\ \/ /\ Recordable(t)
          /\ call' = [call EXCEPT ![c] =
                Begin(c, "ensure", "judge",
                      [key |-> k, t |-> t, over |-> FALSE, seen |-> 0, status |-> "none"])]
          /\ Silent
       \/ ~Recordable(t) /\ Return(c, "unsupported")
    /\ UNCHANGED <<serverVars, ledgerID, resolving, faults>>

(* transferUnder with the key itself and, for a split, its first child:    *)
(* the newest under it, 0 when nothing is recorded.                        *)
transferUnder(k) == IF Under(k) = {} THEN 0 ELSE Newest(Under(k))

(* Two records match when the movements, reference and metadata do, and    *)
(* the movements name accounts by their id.                                *)
matches(i, c) == txns[i].t = Posting(c) /\ txns[i].ns = call[c].ns

KeyState(c, i) ==
    CASE i = 0 -> "unclaimed"
      [] i # 0 /\ txns[i].status = "refused" -> "refused"
      [] i # 0 /\ txns[i].status # "refused" /\ matches(i, c) -> "claimed"
      [] OTHER -> "conflict"

(* The call waits for the transaction i: its id is what will be answered,  *)
(* its status is what the wait starts from.                                *)
Await(c, i, status) ==
    /\ call' = [call EXCEPT ![c].pc = "await", ![c].seen = i, ![c].status = status]
    /\ Silent

(* judgeRecordedKey: a refused key is free, a claimed one is waited for. *)
judgeRecordedKey(c) ==
    /\ At(c, "judge")
    /\ LET i == transferUnder(call[c].key) IN
       \/ /\ KeyState(c, i) \in {"unclaimed", "refused"}
          /\ Goto(c, "accounts") /\ Silent
       \/ KeyState(c, i) = "claimed" /\ Await(c, i, txns[i].status)
       \/ KeyState(c, i) = "conflict" /\ Return(c, "conflict")
    /\ UNCHANGED <<serverVars, ledgerID, resolving, faults>>

(* checkFunds over the net movement on every member account it touches. *)
checkFunds(c) ==
    \A a \in MemberAccounts : Posting(c)[a] # 0 => Holds(call[c].ns, a) + Posting(c)[a] >= 0

(* The overdraft covers a whole transaction: it is asked for only when no  *)
(* member gives, and a house account that needs it beside one is refused.  *)
overdraftFor(c) ==
    IF Sources(Posting(c)) \cap MemberAccounts = {} THEN "yes"
    ELSE IF \A a \in Sources(Posting(c)) \cap HouseAccounts :
                Holds(call[c].ns, a) + Posting(c)[a] >= 0
         THEN "no" ELSE "unsupported"

(* The balances are read, the shape and the funds judged on what was read. *)
checkAccounts(c) ==
    /\ At(c, "accounts")
    /\ \/ overdraftFor(c) = "unsupported" /\ Return(c, "unsupported")
       \/ overdraftFor(c) # "unsupported" /\ ~checkFunds(c) /\ Return(c, "funds")
       \/ /\ overdraftFor(c) # "unsupported" /\ checkFunds(c)
          /\ call' = [call EXCEPT ![c].pc = "create", ![c].over = (overdraftFor(c) = "yes")]
          /\ Silent
    /\ UNCHANGED <<serverVars, ledgerID, resolving, faults>>

(* buildRequest: the transaction sent, under the key as its reference. *)
buildRequest(c, status) ==
    [key |-> call[c].key, t |-> Posting(c), ns |-> call[c].ns,
     over |-> call[c].over, status |-> status]

(* The responses that mean one thing or another, as status, code and words. *)
Responses ==
    [ duplicate |-> { [status |-> 409, code |-> "none", words |-> FALSE],
                      [status |-> 422, code |-> "TXN_DUPLICATE_REFERENCE", words |-> FALSE] },
      short     |-> { [status |-> 400, code |-> "TXN_INSUFFICIENT_FUNDS", words |-> FALSE],
                      [status |-> 422, code |-> "UNKNOWN", words |-> TRUE] } ]

errorCode(r) == IF r.code \in {"none", "UNKNOWN"} THEN "none" ELSE r.code

isConflict(r) ==
    \/ r.status = 409
    \/ r.status \in 400 .. 499 /\ errorCode(r) \in {"TXN_DUPLICATE_REFERENCE", "GEN_CONFLICT"}

isInsufficientFunds(r) ==
    /\ r.status \in {400, 409, 422}
    /\ IF errorCode(r) # "none" THEN errorCode(r) = "TXN_INSUFFICIENT_FUNDS" ELSE r.words

(* explainCreateFailure: a duplicate is judged by reading the key again. *)
explainCreateFailure(c, r) ==
    \/ isConflict(r) /\ Goto(c, "rejudge") /\ Silent
    \/ ~isConflict(r) /\ isInsufficientFunds(r) /\ Return(c, "funds")
    \/ ~isConflict(r) /\ ~isInsufficientFunds(r) /\ Return(c, "error")

Accepts(c, status) ==
    /\ Len(txns) < MaxTxns
    /\ txns' = Append(txns, buildRequest(c, status))
    /\ Await(c, Len(txns) + 1, status)

HeldKey(c) == \E i \in Under(call[c].key) : txns[i].status # "refused"

(* Transaction.Create.  A held reference is refused; a refused one is free *)
(* or is kept, which the adapter cannot know.                              *)
Create(c) ==
    /\ At(c, "create")
    /\ \/ /\ Under(call[c].key) # {}
          /\ \E r \in Responses.duplicate : explainCreateFailure(c, r)
          /\ UNCHANGED <<txns, faults>>
       \/ /\ ~HeldKey(c)
          /\ Covered(buildRequest(c, "applied"))
          /\ Accepts(c, "applied")
          /\ UNCHANGED faults
       \/ /\ ~HeldKey(c)
          /\ ~Covered(buildRequest(c, "applied"))
          /\ \/ \E r \in Responses.short : explainCreateFailure(c, r) /\ UNCHANGED txns
             \/ Accepts(c, "refused")
          /\ UNCHANGED faults
       \/ /\ ~HeldKey(c)
          /\ faults < MaxFaults /\ faults' = faults + 1
          /\ \E status \in {"queued", "unheard", "refused"} : Accepts(c, status)
    /\ UNCHANGED <<ledgers, others, ledgerID, resolving>>

(* The answer to a create is lost: the server may have recorded it. *)
CreateUnanswered(c) ==
    /\ At(c, "create")
    /\ faults < MaxFaults /\ faults' = faults + 1
    /\ \/ UNCHANGED txns
       \/ /\ ~HeldKey(c) /\ Covered(buildRequest(c, "applied")) /\ Len(txns) < MaxTxns
          /\ txns' = Append(txns, buildRequest(c, "applied"))
    /\ Return(c, "lost")
    /\ UNCHANGED <<ledgers, others, ledgerID, resolving>>

(* After a conflict: the winner is waited for when it is this transfer. *)
Rejudge(c) ==
    /\ At(c, "rejudge")
    /\ LET i == transferUnder(call[c].key) IN
       \/ KeyState(c, i) = "conflict" /\ Return(c, "conflict")
       \/ KeyState(c, i) \in {"refused", "unclaimed"} /\ Return(c, "error")
       \/ KeyState(c, i) = "claimed" /\ Await(c, i, txns[i].status)
    /\ UNCHANGED <<serverVars, ledgerID, resolving, faults>>

(* Mutant: an accepted transaction counts as applied. *)
Settled_Accepted(status) == status \in {"applied", "queued"}

Settled(status) == status = "applied"

(* awaitApplied: a queued transaction is asked about until the settle      *)
(* window closes.  It is asked for by its KEY and nothing compares what    *)
(* comes back with the transaction the call waits for.                     *)
awaitApplied(c) ==
    /\ At(c, "await")
    /\ LET status == call[c].status IN
       \/ Settled(status) /\ Return(c, "ref")
       \/ status = "refused" /\ Goto(c, "explain") /\ Silent
       \/ status = "unheard" /\ Return(c, "error")
       \/ /\ ~Settled(status) /\ status = "queued"
          /\ \/ Return(c, "late")
             \/ Await(c, call[c].seen, txns[transferUnder(call[c].key)].status)
    /\ UNCHANGED <<serverVars, ledgerID, resolving, faults>>

(* explainRefusal reads the accounts again to say why. *)
explainRefusal(c) ==
    /\ At(c, "explain")
    /\ Return(c, IF checkFunds(c) THEN "error" ELSE "funds")
    /\ UNCHANGED <<serverVars, ledgerID, resolving, faults>>

(* Another deployment on the server creates a ledger of its own name. *)
OtherLedger ==
    /\ others < MaxOthers
    /\ others' = others + 1
    /\ Silent
    /\ UNCHANGED <<ledgers, txns, ledgerID, resolving, call, faults>>

(* The server works through what it queued: it applies what is covered and *)
(* may refuse any of it (rejected, voided or expired).                     *)
ServerApplies ==
    \E i \in DOMAIN txns :
        /\ txns[i].status \in {"queued", "unheard"}
        /\ \/ Covered(txns[i]) /\ txns' = [txns EXCEPT ![i].status = "applied"]
           \/ txns' = [txns EXCEPT ![i].status = "refused"]
        /\ Silent
        /\ UNCHANGED <<ledgers, others, ledgerID, resolving, call, faults>>

------------------------------------------------------------------------------
(* ---- History ------------------------------------------------------------ *)

(* A split is kept as one row per account of its many-sided side. *)
LegsOf == [t \in Transfers |->
    LET legs == IF Cardinality(Sources(t)) > 1 THEN Sources(t) ELSE Destinations(t)
        one  == CHOOSE a \in (IF Cardinality(Sources(t)) > 1 THEN Destinations(t) ELSE Sources(t)) : TRUE
        Row(a) == IF t[a] < 0 THEN [source |-> a, destination |-> one, n |-> -t[a]]
                              ELSE [source |-> one, destination |-> a, n |-> t[a]]
    IN  SetToSeq({Row(a) : a \in legs})]

RowsOf(i) ==
    LET x == txns[i] IN [j \in DOMAIN LegsOf[x.t] |->
        [id |-> i, leg |-> LegsOf[x.t][j], ns |-> x.ns, status |-> x.status]]

Rows == FlattenSeq([i \in DOMAIN txns |-> RowsOf(i)])

filterTransactions(field, ns, a, offset) ==
    LET all == SelectSeq(Rows, LAMBDA r : r.ns = ns /\ r.leg[field] = a)
    IN  SubSeq(all, offset + 1, Min({Len(all), offset + PageCap}))

Touching(ns, a) == {i \in DOMAIN txns : txns[i].status = "applied" /\ txns[i].ns = ns /\ txns[i].t[a] # 0}

(* A reader of an account's history, under the id its instance issues. *)
History(c, a) ==
    /\ At(c, "idle")
    /\ call' = [call EXCEPT ![c] =
            Begin(c, "known", "source", [a |-> a, offset |-> 0, found |-> {}, before |-> {}])]
    /\ Silent
    /\ UNCHANGED <<serverVars, ledgerID, resolving, faults>>

readAccount(c) ==
    knownLedgerID(c, "known", Return(c, "unknown") /\ UNCHANGED resolving)

(* Mutant: the offset moves by the page asked for (here one more than the  *)
(* server's cap), not by what came back.                                   *)
NextOffset_AsAsked(offset, page) == offset + PageCap + 1

NextOffset(offset, page) == offset + Len(page)

(* transactionsTouching: pages of rows where the account gives, then of    *)
(* rows where it receives, each until an empty one.                        *)
transactionsTouching(c) ==
    /\ call[c].pc \in {"source", "destination"}
    /\ LET m    == call[c]
           page == filterTransactions(m.pc, m.ns, m.a, m.offset) IN
       call' = [call EXCEPT ![c] =
          IF page # <<>>
          THEN [m EXCEPT !.offset = NextOffset(m.offset, page), !.found = @ \cup Range(page),
                         !.before = IF m.pc = "source" /\ m.offset = 0 THEN Touching(m.ns, m.a) ELSE @]
          ELSE [m EXCEPT !.pc = IF m.pc = "source" THEN "destination" ELSE "group", !.offset = 0,
                         !.before = IF m.pc = "source" /\ m.offset = 0 THEN Touching(m.ns, m.a) ELSE @]]
    /\ Silent
    /\ UNCHANGED <<serverVars, ledgerID, resolving, faults>>

(* groupIntoTransfers: rows of one transaction, applied when all of them were. *)
Groups(rows) == {r.id : r \in rows}
GroupApplied(rows, i) == \A r \in rows : r.id = i => r.status = "applied"

(* netOf: what the rows read say about the account. *)
netOf(rows, i, a) ==
    FoldLeft(LAMBDA sum, r : sum + (IF r.leg.destination = a THEN r.leg.n ELSE 0)
                                 - (IF r.leg.source = a THEN r.leg.n ELSE 0),
             0, SetToSeq({r \in rows : r.id = i}))

(* writtenPostings: what the annotation on the transaction says it moved. *)
writtenPostings(i, a) == txns[i].t[a]

(* postingsOfTransfer: the annotation and the rows must agree. *)
Yielded(rows, a) == {i \in Groups(rows) : GroupApplied(rows, i)}
Disagrees(rows, a) == \E i \in Yielded(rows, a) : writtenPostings(i, a) # netOf(rows, i, a)

(* postingsOn: the history read, or the refusal to give a wrong one. *)
postingsOn(c) ==
    /\ At(c, "group")
    /\ LET m == call[c] IN
       Return(c, IF Disagrees(m.found, m.a) THEN "half"
                 ELSE IF ~(m.before \subseteq Yielded(m.found, m.a)) THEN "gap"
                 ELSE IF ~(Yielded(m.found, m.a) \subseteq Touching(m.ns, m.a)) THEN "invented"
                 ELSE "history")
    /\ UNCHANGED <<serverVars, ledgerID, resolving, faults>>

------------------------------------------------------------------------------
Init ==
    /\ ledgers = <<>>
    /\ others = 0
    /\ txns = <<>>
    /\ ledgerID = [i \in Instances |-> NoLedger]
    /\ resolving = [i \in Instances |-> NoCaller]
    /\ call = [c \in Callers |-> Idle]
    /\ answer = "none"
    /\ faults = 0

Next ==
    \/ \E c \in Callers :
        \/ \E r \in Requests : Post(c, r[1], r[2])
        \/ \E a \in Read : History(c, a)
        \/ EnsureAccount(c) \/ LookAgain(c) \/ createLedger(c) \/ resolveLedgerID(c)
        \/ judgeRecordedKey(c) \/ checkAccounts(c) \/ Create(c) \/ CreateUnanswered(c)
        \/ Rejudge(c) \/ awaitApplied(c) \/ explainRefusal(c)
        \/ readAccount(c) \/ transactionsTouching(c) \/ postingsOn(c)
    \/ ServerApplies
    \/ OtherLedger

Spec == Init /\ [][Next]_vars

------------------------------------------------------------------------------
TypeOK ==
    /\ ledgers \in Seq([id : LedgerIds, at : Nat]) /\ others \in 0 .. MaxOthers
    /\ txns \in Seq([key : Keys, t : Transfers, ns : LedgerIds, over : BOOLEAN, status : Statuses])
    /\ ledgerID \in [Instances -> LedgerIds \cup {NoLedger}]
    /\ resolving \in [Instances -> Callers \cup {NoCaller}]
    /\ answer \in {"none", "ref", "conflict", "funds", "unsupported", "late", "lost",
                               "error", "unknown", "history", "half", "gap", "invented"}
    /\ faults \in 0 .. MaxFaults

(* Processes that raced to create the ledger converge on one: all money is *)
(* recorded under one namespace, the one every instance resolves.          *)
OneNamespace ==
    /\ \A i \in Instances : ledgerID[i] # NoLedger => ledgerID[i] = Winner
    /\ \A i \in DOMAIN txns : txns[i].ns = Winner

(* The call that returned a reference in this step. *)
Told(c) == answer' = "ref" /\ At(c, "await") /\ call'[c].pc = "idle"

(* The transaction was refused and its freed key posted again since.       *)
Reused(i) ==
    /\ txns[i].status = "refused"
    /\ \E j \in Under(txns[i].key) : j > i /\ txns[j].status = "applied"

(* The reference a caller is answered is the id of a transaction that      *)
(* carries this transfer under this key and namespace and is applied, with *)
(* one exception: it was refused while the call waited and a later post of *)
(* the same key was applied, which the read by key takes for it.           *)
ToldRefIsApplied ==
    \A c \in Callers : Told(c) =>
        LET i == call[c].seen IN
        /\ txns[i].key = call[c].key /\ matches(i, c)
        /\ txns[i].status = "applied" \/ Reused(i)

(* "The reference returned is Blnk's transaction id for the whole          *)
(* transfer, and it is readable the moment Post returns" (blnk.go, Post),  *)
(* with no exception.                                                      *)
ToldRefStands ==
    [][\A c \in Callers : Told(c) => txns[call[c].seen].status = "applied"]_vars

(* The adapter keeps the port's promises: each transfer the server applies *)
(* is one Post of the port, under a free key and with the funds there      *)
(* (Port!LedgerSpec, with the steps that leave the server alone set        *)
(* aside), and a reference answered names an applied transaction, or one   *)
(* refused whose key a later post has used (blnk.go, Post, awaitApplied).  *)
ImplementsLedger ==
    /\ Port!LedgerInit
    /\ [][UNCHANGED <<ledgers, txns>> \/ [Port!LedgerNext]_(Port!ledgerVars)]_vars
    /\ [][ToldRefIsApplied]_vars

(* A history read while transfers land misses nothing applied before it    *)
(* began, invents nothing, and agrees with the rows the server keeps.      *)
HistoryIsWhole == answer \notin {"half", "gap", "invented"}
==============================================================================
