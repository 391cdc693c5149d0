------------------------- MODULE PostgresLedgerProofs -------------------------
(***************************************************************************)
(* The Postgres ledger implements the wallet.Ledger port, for any accounts *)
(* keys, transfers and callers.  The argument is what each caller holds at *)
(* each statement: the key from the claim on, the rows of every member     *)
(* account it draws from the balance query on.  What is held cannot be     *)
(* changed by anybody else, so what was checked still stands at commit.    *)
(***************************************************************************)
EXTENDS PostgresLedger, Sums

(* What caller p knows at its place in Post. *)
KeyHeld(p) ==
    pc[p] \in {"lock", "funds", "commit"} =>
        claimed[key[p]] = p /\ posted[key[p]] = NoTransfer

RowsHeld(p) ==
    pc[p] \in {"funds", "commit"} =>
        \A a \in Drawn(transfer[p]) : locked[a] = p

FundsStand(p) == pc[p] = "commit" => Funds(transfer[p])

Valid(p) == pc[p] # "idle" => Validates(transfer[p])

Recorded(p) ==
    pc[p] = "answer" \/ answer[p] = "ref" => posted[key[p]] = transfer[p]

CallerInv ==
    \A p \in Procs : KeyHeld(p) /\ RowsHeld(p) /\ FundsStand(p) /\ Valid(p) /\ Recorded(p)

IInv == TypeOK /\ NeverOverdrawn /\ CallerInv

(* What a transaction lets go of was its own. *)
LEMMA ReleaseType ==
    ASSUME TypeOK, NEW p \in Procs, ReleaseLocks(p)
    PROVE  /\ claimed' \in [Keys -> Procs \cup {NoProc}]
           /\ locked' \in [MemberAccounts -> Procs \cup {NoProc}]
BY DEF TypeOK, ReleaseLocks

(* A caller's rollback frees nothing of another's. *)
LEMMA ReleaseKeeps ==
    ASSUME TypeOK, NEW p \in Procs, NEW q \in Procs, q # p, ReleaseLocks(p)
    PROVE  /\ \A k \in Keys : claimed[k] = q => claimed'[k] = q
           /\ \A a \in MemberAccounts : locked[a] = q => locked'[a] = q
BY DEF TypeOK, ReleaseLocks

(* A refusal or a replay leaves the ledger alone and the caller idle. *)
LEMMA ReturnKeeps ==
    ASSUME IInv, NEW p \in Procs, NEW said \in Answers, Return(p, said),
           said = "ref" => posted[key[p]] = transfer[p]
    PROVE  IInv'
<1>1. TypeOK'
  BY ReleaseType DEF IInv, TypeOK, LedgerTypeOK, Return, Goto, ledgerVars
<1>2. NeverOverdrawn'
  BY DEF IInv, NeverOverdrawn, Return, ledgerVars
<1>3. ASSUME NEW q \in Procs
      PROVE  (KeyHeld(q) /\ RowsHeld(q) /\ FundsStand(q) /\ Valid(q) /\ Recorded(q))'
  <2>0. KeyHeld(q) /\ RowsHeld(q) /\ FundsStand(q) /\ Valid(q) /\ Recorded(q)
    BY DEF IInv, CallerInv
  <2>1. CASE q = p
    <3>1. pc'[q] = "idle" /\ answer'[q] = said
      BY <2>1 DEF IInv, TypeOK, Return, Goto
    <3>2. posted' = posted /\ key' = key /\ transfer' = transfer
      BY DEF Return, ledgerVars
    <3>. QED BY <2>1, <3>1, <3>2
         DEF KeyHeld, RowsHeld, FundsStand, Valid, Recorded
  <2>2. CASE q # p
    <3>1. pc'[q] = pc[q] /\ answer'[q] = answer[q]
      BY <2>2 DEF IInv, TypeOK, Return, Goto
    <3>2. posted' = posted /\ key' = key /\ transfer' = transfer /\ balance' = balance
      BY DEF Return, ledgerVars
    <3>3. key[q] \in Keys /\ Drawn(transfer[q]) \subseteq MemberAccounts
      BY DEF IInv, TypeOK, Drawn
    <3>4. /\ claimed[key[q]] = q => claimed'[key[q]] = q
          /\ \A a \in Drawn(transfer[q]) : locked[a] = q => locked'[a] = q
      BY <2>2, <3>3, ReleaseKeeps DEF IInv, Return
    <3>5. KeyHeld(q)' /\ RowsHeld(q)'
      BY <2>0, <3>1, <3>2, <3>4 DEF KeyHeld, RowsHeld, Drawn
    <3>6. FundsStand(q)' /\ Valid(q)' /\ Recorded(q)'
      BY <2>0, <3>1, <3>2 DEF FundsStand, Valid, Recorded, Funds, Drawn
    <3>. QED BY <3>5, <3>6
  <2>. QED BY <2>1, <2>2
<1>. QED BY <1>1, <1>2, <1>3 DEF IInv, CallerInv

------------------------------------------------------------------------------
(* A new call: nothing is held yet, and the transfer validates. *)
LEMMA CallKeeps ==
    ASSUME IInv, NEW p \in Procs, NEW k \in Keys, NEW t \in Transfers, Call(p, k, t)
    PROVE  IInv'
<1>1. TypeOK'
  BY DEF IInv, TypeOK, LedgerTypeOK, Call, Goto, ledgerVars, Answers
<1>2. NeverOverdrawn'
  BY DEF IInv, NeverOverdrawn, Call, ledgerVars
<1>3. ASSUME NEW q \in Procs
      PROVE  (KeyHeld(q) /\ RowsHeld(q) /\ FundsStand(q) /\ Valid(q) /\ Recorded(q))'
  <2>0. KeyHeld(q) /\ RowsHeld(q) /\ FundsStand(q) /\ Valid(q) /\ Recorded(q)
    BY DEF IInv, CallerInv
  <2>1. CASE q = p
    <3>1. pc'[q] = "judge" /\ answer'[q] = "none" /\ transfer'[q] = t
      BY <2>1 DEF IInv, TypeOK, Call, Goto
    <3>2. Validates(t)
      BY DEF Call
    <3>3. Validates(transfer[q])'
      BY <3>1, <3>2 DEF Validates
    <3>. QED BY <3>1, <3>3 DEF KeyHeld, RowsHeld, FundsStand, Valid, Recorded
  <2>2. CASE q # p
    <3>1. /\ pc'[q] = pc[q] /\ answer'[q] = answer[q]
          /\ key'[q] = key[q] /\ transfer'[q] = transfer[q]
      BY <2>2 DEF IInv, TypeOK, Call, Goto
    <3>2. posted' = posted /\ balance' = balance /\ claimed' = claimed /\ locked' = locked
      BY DEF Call, ledgerVars
    <3>3. KeyHeld(q)' /\ RowsHeld(q)' /\ Recorded(q)'
      BY <2>0, <3>1, <3>2 DEF KeyHeld, RowsHeld, Recorded, Drawn
    <3>4. FundsStand(q)' /\ Valid(q)'
      BY <2>0, <3>1, <3>2 DEF FundsStand, Valid, Funds, Drawn, Validates
    <3>. QED BY <3>3, <3>4
  <2>. QED BY <2>1, <2>2
<1>. QED BY <1>1, <1>2, <1>3 DEF IInv, CallerInv

(* A statement that moves a caller on and takes at most a free key or a    *)
(* free row: the others hold what they held.                               *)
LEMMA MoveKeeps ==
    ASSUME IInv, NEW p \in Procs, TypeOK', Same,
           \A q \in Procs \ {p} : pc'[q] = pc[q],
           \A k \in Keys : claimed[k] # NoProc => claimed'[k] = claimed[k],
           \A a \in MemberAccounts : locked[a] # NoProc => locked'[a] = locked[a],
           KeyHeld(p)', RowsHeld(p)', FundsStand(p)', pc[p] # "idle", pc'[p] # "answer"
    PROVE  IInv'
<1>2. NeverOverdrawn'
  BY DEF IInv, NeverOverdrawn, Same, ledgerVars
<1>u. /\ posted' = posted /\ balance' = balance /\ key' = key
      /\ transfer' = transfer /\ answer' = answer
  BY DEF Same, ledgerVars
<1>3. ASSUME NEW q \in Procs
      PROVE  (KeyHeld(q) /\ RowsHeld(q) /\ FundsStand(q) /\ Valid(q) /\ Recorded(q))'
  <2>0. KeyHeld(q) /\ RowsHeld(q) /\ FundsStand(q) /\ Valid(q) /\ Recorded(q)
    BY DEF IInv, CallerInv
  <2>1. CASE q = p
    <3>1. Valid(q)' /\ Recorded(q)'
      BY <2>0, <2>1, <1>u DEF Valid, Recorded, Validates
    <3>. QED BY <2>1, <3>1
  <2>2. CASE q # p
    <3>1. pc'[q] = pc[q] /\ q # NoProc
      BY <2>2, PostgresAssumption
    <3>2. key[q] \in Keys /\ Drawn(transfer[q]) \subseteq MemberAccounts
      BY DEF IInv, TypeOK, Drawn
    <3>3. KeyHeld(q)'
      BY <2>0, <3>1, <3>2, <1>u DEF KeyHeld
    <3>4. RowsHeld(q)'
      BY <2>0, <3>1, <3>2, <1>u DEF RowsHeld, Drawn
    <3>5. FundsStand(q)' /\ Valid(q)' /\ Recorded(q)'
      BY <2>0, <3>1, <1>u DEF FundsStand, Valid, Recorded, Funds, Drawn, Validates
    <3>. QED BY <3>3, <3>4, <3>5
  <2>. QED BY <2>1, <2>2
<1>. QED BY <1>2, <1>3 DEF IInv, CallerInv

(* A key that is on record is answered from the record. *)
LEMMA JudgeKeeps ==
    ASSUME IInv, NEW p \in Procs, judgeRecordedKey(p)
    PROVE  IInv'
<1>1. CASE posted[key[p]] # NoTransfer /\ Return(p, Judged(p))
  BY <1>1, ReturnKeeps DEF Judged, Answers
<1>2. CASE Goto(p, "claim") /\ UNCHANGED <<claimed, locked>> /\ Same
  <2>1. TypeOK'
    BY <1>2 DEF IInv, TypeOK, LedgerTypeOK, Goto, Same, ledgerVars
  <2>2. pc'[p] = "claim" /\ \A q \in Procs \ {p} : pc'[q] = pc[q]
    BY <1>2 DEF IInv, TypeOK, Goto
  <2>3. pc[p] # "idle"
    BY DEF judgeRecordedKey
  <2>4. KeyHeld(p)' /\ RowsHeld(p)' /\ FundsStand(p)'
    BY <2>2 DEF KeyHeld, RowsHeld, FundsStand
  <2>. QED BY <1>2, <2>1, <2>2, <2>3, <2>4, MoveKeeps
<1>. QED BY <1>1, <1>2 DEF judgeRecordedKey

(* A key is claimed, or was recorded meanwhile. *)
LEMMA ClaimKeeps ==
    ASSUME IInv, NEW p \in Procs, ClaimKey(p)
    PROVE  IInv'
<1>1. CASE posted[key[p]] # NoTransfer /\ Return(p, Judged(p))
  BY <1>1, ReturnKeeps DEF Judged, Answers
<1>2. CASE /\ posted[key[p]] = NoTransfer
           /\ claimed' = [claimed EXCEPT ![key[p]] = p]
           /\ Goto(p, "lock") /\ UNCHANGED locked /\ Same
  <2>1. TypeOK'
    BY <1>2 DEF IInv, TypeOK, LedgerTypeOK, Goto, Same, ledgerVars
  <2>2. pc'[p] = "lock" /\ \A q \in Procs \ {p} : pc'[q] = pc[q]
    BY <1>2 DEF IInv, TypeOK, Goto
  <2>3. pc[p] # "idle" /\ claimed[key[p]] = NoProc
    BY DEF ClaimKey
  <2>4. KeyHeld(p)' /\ RowsHeld(p)' /\ FundsStand(p)'
    <3>1. claimed'[key[p]] = p /\ key' = key /\ posted' = posted
      BY <1>2 DEF IInv, TypeOK, Same, ledgerVars
    <3>. QED BY <1>2, <2>2, <3>1 DEF KeyHeld, RowsHeld, FundsStand
  <2>5. \A k \in Keys : claimed[k] # NoProc => claimed'[k] = claimed[k]
    BY <1>2, <2>3 DEF IInv, TypeOK
  <2>. QED BY <1>2, <2>1, <2>2, <2>3, <2>4, <2>5, MoveKeeps
<1>. QED BY <1>1, <1>2 DEF ClaimKey

(* Rows are locked one after the other. *)
LEMMA LockKeeps ==
    ASSUME IInv, NEW p \in Procs, lockAccounts(p)
    PROVE  IInv'
<1>0. /\ pc[p] = "lock" /\ claimed' = claimed /\ Same /\ KeyHeld(p)
      /\ key' = key /\ posted' = posted /\ transfer' = transfer
  BY DEF lockAccounts, IInv, CallerInv, Same, ledgerVars
<1>1. ASSUME NEW a \in MemberAccounts, locked[a] = NoProc,
             locked' = [locked EXCEPT ![a] = p], UNCHANGED pc
      PROVE  IInv'
  <2>1. TypeOK'
    BY <1>0, <1>1 DEF IInv, TypeOK, LedgerTypeOK, Same, ledgerVars
  <2>2. \A b \in MemberAccounts : locked[b] # NoProc => locked'[b] = locked[b]
    BY <1>1 DEF IInv, TypeOK
  <2>3. KeyHeld(p)' /\ RowsHeld(p)' /\ FundsStand(p)'
    BY <1>0, <1>1 DEF KeyHeld, RowsHeld, FundsStand
  <2>. QED BY <1>0, <1>1, <2>1, <2>2, <2>3, MoveKeeps
<1>2. CASE (\A a \in Drawn(transfer[p]) : locked[a] = p) /\ Goto(p, "funds") /\ UNCHANGED locked
  <2>1. TypeOK'
    BY <1>0, <1>2 DEF IInv, TypeOK, LedgerTypeOK, Goto, Same, ledgerVars
  <2>2. pc'[p] = "funds" /\ \A q \in Procs \ {p} : pc'[q] = pc[q]
    BY <1>2 DEF IInv, TypeOK, Goto
  <2>3. KeyHeld(p)' /\ RowsHeld(p)' /\ FundsStand(p)'
    BY <1>0, <1>2, <2>2 DEF KeyHeld, RowsHeld, FundsStand, Drawn
  <2>. QED BY <1>0, <1>2, <2>1, <2>2, <2>3, MoveKeeps
<1>. QED BY <1>1, <1>2 DEF lockAccounts

(* Funds are checked under the locks. *)
LEMMA FundsKeeps ==
    ASSUME IInv, NEW p \in Procs, checkFunds(p)
    PROVE  IInv'
<1>1. CASE Return(p, "funds")
  BY <1>1, ReturnKeeps DEF Answers
<1>2. CASE Funds(transfer[p]) /\ Goto(p, "commit") /\ UNCHANGED <<claimed, locked>> /\ Same
  <2>0. /\ pc[p] = "funds" /\ KeyHeld(p) /\ RowsHeld(p) /\ key' = key
        /\ posted' = posted /\ transfer' = transfer /\ balance' = balance
    BY <1>2 DEF checkFunds, IInv, CallerInv, Same, ledgerVars
  <2>1. TypeOK'
    BY <1>2 DEF IInv, TypeOK, LedgerTypeOK, Goto, Same, ledgerVars
  <2>2. pc'[p] = "commit" /\ \A q \in Procs \ {p} : pc'[q] = pc[q]
    BY <1>2 DEF IInv, TypeOK, Goto
  <2>3. KeyHeld(p)' /\ RowsHeld(p)' /\ FundsStand(p)'
    BY <1>2, <2>0, <2>2 DEF KeyHeld, RowsHeld, FundsStand, Funds, Drawn
  <2>. QED BY <1>2, <2>0, <2>1, <2>2, <2>3, MoveKeeps
<1>. QED BY <1>1, <1>2 DEF checkFunds

(* The commit: nobody else holds p's key, nor a row p draws. *)
LEMMA CommitKeeps ==
    ASSUME IInv, NEW p \in Procs, Commit(p)
    PROVE  IInv'
<1>t. /\ key[p] \in Keys /\ transfer[p] \in Transfers
      /\ transfer[p] \in [Accounts -> Int] /\ balance \in [Accounts -> Int]
  BY LedgerAssumption DEF IInv, TypeOK, LedgerTypeOK
<1>p. /\ claimed[key[p]] = p /\ posted[key[p]] = NoTransfer
      /\ \A a \in Drawn(transfer[p]) : locked[a] = p
      /\ Funds(transfer[p]) /\ Validates(transfer[p])
  BY DEF Commit, IInv, CallerInv, KeyHeld, RowsHeld, FundsStand, Valid
<1>u. /\ key' = key /\ transfer' = transfer /\ answer' = answer /\ faults' = faults
      /\ pc' = [pc EXCEPT ![p] = "answer"] /\ ReleaseLocks(p)
      /\ balance' = [a \in Accounts |-> balance[a] + transfer[p][a]]
      /\ posted' = [posted EXCEPT ![key[p]] = transfer[p]]
  BY DEF Commit, Record, Goto
<1>1. TypeOK'
  <2>1. balance' \in [Accounts -> Int]
    BY <1>t, <1>u
  <2>2. posted' \in [Keys -> Transfers \cup {NoTransfer}]
    BY <1>t, <1>u DEF IInv, TypeOK, LedgerTypeOK
  <2>3. pc' \in [Procs -> {"idle", "judge", "claim", "lock", "funds", "commit", "answer"}]
    BY <1>u DEF IInv, TypeOK
  <2>. QED BY <1>u, <2>1, <2>2, <2>3, ReleaseType DEF IInv, TypeOK, LedgerTypeOK
<1>2. NeverOverdrawn'
  <2>. SUFFICES ASSUME NEW a \in MemberAccounts
                PROVE  balance'[a] >= 0
    BY DEF NeverOverdrawn
  <2>1. a \in Accounts /\ balance[a] \in Int /\ transfer[p][a] \in Int
    BY <1>t DEF Accounts
  <2>2. balance'[a] = balance[a] + transfer[p][a]
    BY <2>1, <1>u
  <2>3. CASE transfer[p][a] = 0
    BY <2>1, <2>2, <2>3 DEF IInv, NeverOverdrawn
  <2>4. CASE transfer[p][a] # 0
    BY <2>2, <2>4, <1>p DEF Funds, Drawn
  <2>. QED BY <2>3, <2>4
<1>3. ASSUME NEW q \in Procs
      PROVE  (KeyHeld(q) /\ RowsHeld(q) /\ FundsStand(q) /\ Valid(q) /\ Recorded(q))'
  <2>0. KeyHeld(q) /\ RowsHeld(q) /\ FundsStand(q) /\ Valid(q) /\ Recorded(q)
    BY DEF IInv, CallerInv
  <2>1. CASE q = p
    <3>1. pc'[q] = "answer" /\ posted'[key[q]] = transfer[q]
      BY <2>1, <1>t, <1>u DEF IInv, TypeOK, LedgerTypeOK
    <3>. QED BY <2>1, <3>1, <1>p, <1>u
         DEF KeyHeld, RowsHeld, FundsStand, Valid, Recorded, Validates
  <2>2. CASE q # p
    <3>1. pc'[q] = pc[q]
      BY <2>2, <1>u DEF IInv, TypeOK
    <3>2. /\ key[q] \in Keys /\ Drawn(transfer[q]) \subseteq MemberAccounts
          /\ transfer[q] \in Transfers
      BY DEF IInv, TypeOK, Drawn
    <3>3. /\ claimed[key[q]] = q => claimed'[key[q]] = q
          /\ \A a \in Drawn(transfer[q]) : locked[a] = q => locked'[a] = q
      BY <2>2, <3>2, <1>u, ReleaseKeeps DEF IInv
    <3>4. key[q] # key[p] => posted'[key[q]] = posted[key[q]]
      BY <3>2, <1>t, <1>u DEF IInv, TypeOK, LedgerTypeOK
    <3>5. KeyHeld(q)'
      BY <2>0, <2>2, <3>1, <3>3, <3>4, <1>p, <1>u DEF KeyHeld
    <3>6. RowsHeld(q)'
      BY <2>0, <3>1, <3>3, <1>u DEF RowsHeld, Drawn
    <3>7. FundsStand(q)'
      <4>. SUFFICES ASSUME pc[q] = "commit", NEW a \in Drawn(transfer[q])
                    PROVE  balance'[a] + transfer[q][a] >= 0
        BY <3>1, <1>u DEF FundsStand, Funds, Drawn
      <4>1. a \in MemberAccounts /\ a \in Accounts /\ a \notin Drawn(transfer[p])
        BY <2>0, <2>2, <3>2, <1>p DEF RowsHeld, Accounts
      <4>2. balance'[a] = balance[a]
        BY <4>1, <1>t, <1>u DEF Drawn
      <4>. QED BY <2>0, <4>2 DEF FundsStand, Funds
    <3>8. Valid(q)'
      BY <2>0, <3>1, <1>u DEF Valid, Validates
    <3>9. Recorded(q)'
      BY <2>0, <3>1, <3>2, <3>4, <1>p, <1>u, LedgerAssumption DEF Recorded
    <3>. QED BY <3>5, <3>6, <3>7, <3>8, <3>9
  <2>. QED BY <2>1, <2>2
<1>. QED BY <1>1, <1>2, <1>3 DEF IInv, CallerInv

(* The answer follows the commit. *)
LEMMA AnswerKeeps ==
    ASSUME IInv, NEW p \in Procs, Answer(p)
    PROVE  IInv'
<1>1. posted[key[p]] = transfer[p]
  BY DEF Answer, IInv, CallerInv, Recorded
<1>. QED BY <1>1, ReturnKeeps DEF Answer, Answers

(* A lost connection forgets what the transaction held and nothing else. *)
LEMMA CrashKeeps ==
    ASSUME IInv, NEW p \in Procs, Crash(p)
    PROVE  IInv'
<1>u. /\ posted' = posted /\ balance' = balance /\ key' = key /\ transfer' = transfer
      /\ ReleaseLocks(p) /\ pc' = [pc EXCEPT ![p] = "idle"]
      /\ answer' = [answer EXCEPT ![p] = "lost"]
  BY DEF Crash, Goto, ledgerVars
<1>1. TypeOK'
  <2>1. faults' \in 0 .. MaxFaults
    BY PostgresAssumption DEF Crash, IInv, TypeOK
  <2>. QED BY <1>u, <2>1, ReleaseType DEF IInv, TypeOK, LedgerTypeOK, Answers
<1>2. NeverOverdrawn'
  BY <1>u DEF IInv, NeverOverdrawn
<1>3. ASSUME NEW q \in Procs
      PROVE  (KeyHeld(q) /\ RowsHeld(q) /\ FundsStand(q) /\ Valid(q) /\ Recorded(q))'
  <2>0. KeyHeld(q) /\ RowsHeld(q) /\ FundsStand(q) /\ Valid(q) /\ Recorded(q)
    BY DEF IInv, CallerInv
  <2>1. CASE q = p
    <3>1. pc'[q] = "idle" /\ answer'[q] = "lost"
      BY <2>1, <1>u DEF IInv, TypeOK
    <3>. QED BY <3>1 DEF KeyHeld, RowsHeld, FundsStand, Valid, Recorded
  <2>2. CASE q # p
    <3>1. pc'[q] = pc[q] /\ answer'[q] = answer[q]
      BY <2>2, <1>u DEF IInv, TypeOK
    <3>2. key[q] \in Keys /\ Drawn(transfer[q]) \subseteq MemberAccounts
      BY DEF IInv, TypeOK, Drawn
    <3>3. /\ claimed[key[q]] = q => claimed'[key[q]] = q
          /\ \A a \in Drawn(transfer[q]) : locked[a] = q => locked'[a] = q
      BY <2>2, <3>2, <1>u, ReleaseKeeps DEF IInv
    <3>4. KeyHeld(q)' /\ RowsHeld(q)'
      BY <2>0, <3>1, <3>3, <1>u DEF KeyHeld, RowsHeld, Drawn
    <3>5. FundsStand(q)' /\ Valid(q)' /\ Recorded(q)'
      BY <2>0, <3>1, <1>u DEF FundsStand, Valid, Recorded, Funds, Drawn, Validates
    <3>. QED BY <3>4, <3>5
  <2>. QED BY <2>1, <2>2
<1>. QED BY <1>1, <1>2, <1>3 DEF IInv, CallerInv

------------------------------------------------------------------------------
(* The invariant holds before anyone posts. *)
LEMMA InitInv == Init => IInv
<1>. SUFFICES ASSUME Init PROVE IInv
  OBVIOUS
<1>1. TypeOK
  BY PostgresAssumption DEF Init, LedgerInit, TypeOK, LedgerTypeOK, Answers
<1>2. NeverOverdrawn
  BY DEF Init, LedgerInit, NeverOverdrawn, Accounts
<1>3. CallerInv
  BY DEF Init, CallerInv, KeyHeld, RowsHeld, FundsStand, Valid, Recorded
<1>. QED BY <1>1, <1>2, <1>3 DEF IInv

(* A step that changes nothing keeps it. *)
LEMMA StutterKeeps == IInv /\ UNCHANGED vars => IInv'
<1>. SUFFICES ASSUME IInv, UNCHANGED vars PROVE IInv'
  OBVIOUS
<1>1. /\ pc' = pc /\ key' = key /\ transfer' = transfer /\ answer' = answer
      /\ claimed' = claimed /\ locked' = locked /\ faults' = faults
      /\ balance' = balance /\ posted' = posted
  BY DEF vars, procVars, ledgerVars
<1>2. TypeOK' /\ NeverOverdrawn'
  BY <1>1 DEF IInv, TypeOK, LedgerTypeOK, NeverOverdrawn
<1>3. CallerInv'
  BY <1>1 DEF IInv, CallerInv, KeyHeld, RowsHeld, FundsStand, Valid, Recorded,
              Funds, Drawn, Validates
<1>. QED BY <1>2, <1>3 DEF IInv

(* Every statement of every caller keeps the invariant: one case per       *)
(* action, each a lemma above.                                             *)
LEMMA NextKeeps == IInv /\ [Next]_vars => IInv'
<1>. SUFFICES ASSUME IInv, [Next]_vars PROVE IInv'
  OBVIOUS
<1>1. CASE UNCHANGED vars
  BY <1>1, StutterKeeps
<1>2. ASSUME NEW p \in Procs, NEW k \in Keys, NEW t \in Transfers, Call(p, k, t)
      PROVE  IInv'
  BY <1>2, CallKeeps
<1>3. ASSUME NEW p \in Procs, Step(p)
      PROVE  IInv'
  BY <1>3, JudgeKeeps, ClaimKeeps, LockKeeps, FundsKeeps, CommitKeeps, AnswerKeeps
     DEF Step
<1>4. ASSUME NEW p \in Procs, Crash(p)
      PROVE  IInv'
  BY <1>4, CrashKeeps
<1>. QED BY <1>1, <1>2, <1>3, <1>4 DEF Next

(* The invariant of the statements of Post: what each caller knows at each *)
(* of them stands until it answers.                                        *)
THEOREM LedgerInductive == Spec => []IInv
BY InitInv, NextKeeps, PTL DEF Spec

(* No member account is ever below zero in the committed tables, however   *)
(* many posts draw on it at once (checkFunds under lockAccounts).          *)
THEOREM Solvent == Spec => []NeverOverdrawn
<1>1. IInv => NeverOverdrawn
  BY DEF IInv
<1>. QED BY <1>1, LedgerInductive, PTL

(* A reference Post returned names a transfer that is recorded, under the  *)
(* caller's key and with the caller's postings.                            *)
THEOREM ReferencesStand == Spec => []ToldRefIsRecorded
<1>1. IInv => ToldRefIsRecorded
  BY DEF IInv, CallerInv, Recorded, ToldRefIsRecorded
<1>. QED BY <1>1, LedgerInductive, PTL

------------------------------------------------------------------------------
(* Refinement: a commit is one Post of the port, every other statement     *)
(* leaves the tables as they are.                                          *)
LEMMA StepRefines == IInv /\ [Next]_vars => [LedgerNext]_ledgerVars
<1>. SUFFICES ASSUME IInv, [Next]_vars PROVE [LedgerNext]_ledgerVars
  OBVIOUS
<1>1. CASE UNCHANGED vars
  BY <1>1 DEF vars
<1>2. ASSUME NEW p \in Procs, NEW k \in Keys, NEW t \in Transfers, Call(p, k, t)
      PROVE  UNCHANGED ledgerVars
  BY <1>2 DEF Call
<1>3. ASSUME NEW p \in Procs,
             judgeRecordedKey(p) \/ ClaimKey(p) \/ lockAccounts(p) \/ checkFunds(p)
               \/ Answer(p)
      PROVE  UNCHANGED ledgerVars
  BY <1>3 DEF judgeRecordedKey, ClaimKey, lockAccounts, checkFunds, Answer, Return, Same
<1>4. ASSUME NEW p \in Procs, Commit(p)
      PROVE  LedgerNext
  <2>1. key[p] \in Keys /\ transfer[p] \in Transfers
    BY DEF IInv, TypeOK
  <2>2. Post(key[p], transfer[p])
    BY <1>4 DEF Commit, Post, IInv, CallerInv, KeyHeld, FundsStand, Valid
  <2>. QED BY <2>1, <2>2 DEF LedgerNext
<1>5. ASSUME NEW p \in Procs, Crash(p)
      PROVE  UNCHANGED ledgerVars
  BY <1>5 DEF Crash
<1>. QED BY <1>1, <1>2, <1>3, <1>4, <1>5 DEF Next, Step

(* The Postgres implementation implements the wallet.Ledger port: whatever *)
(* posts overlap, the committed tables only ever take the port's steps.    *)
THEOREM ImplementsPort == Spec => LedgerSpec
<1>1. Init => LedgerInit
  BY DEF Init
<1>. QED BY <1>1, StepRefines, LedgerInductive, PTL DEF Spec, LedgerSpec

(* Only the balance query refuses for want of funds, and it runs while its *)
(* caller holds a key nobody has recorded under.                           *)
LEMMA FundsStep ==
    IInv /\ [Next]_vars =>
        [\A p \in Procs : answer[p] # "funds" /\ answer'[p] = "funds"
            => posted[key[p]] = NoTransfer]_vars
<1>. SUFFICES ASSUME IInv, Next, NEW q \in Procs,
                     answer[q] # "funds", answer'[q] = "funds"
              PROVE  posted[key[q]] = NoTransfer
  OBVIOUS
<1>0. answer \in [Procs -> Answers]
  BY DEF IInv, TypeOK
<1>1. ASSUME NEW p \in Procs, NEW k \in Keys, NEW t \in Transfers, Call(p, k, t)
      PROVE  FALSE
  BY <1>0, <1>1 DEF Call
<1>2. ASSUME NEW p \in Procs, judgeRecordedKey(p) \/ ClaimKey(p)
      PROVE  FALSE
  <2>1. answer' = answer \/ answer' = [answer EXCEPT ![p] = Judged(p)]
    BY <1>2 DEF judgeRecordedKey, ClaimKey, Return, Same
  <2>2. Judged(p) # "funds"
    BY DEF Judged
  <2>. QED BY <1>0, <2>1, <2>2
<1>3. ASSUME NEW p \in Procs, lockAccounts(p) \/ Commit(p)
      PROVE  FALSE
  BY <1>3 DEF lockAccounts, Commit, Same
<1>4. ASSUME NEW p \in Procs, checkFunds(p)
      PROVE  posted[key[q]] = NoTransfer
  <2>1. answer' = answer \/ answer' = [answer EXCEPT ![p] = "funds"]
    BY <1>4 DEF checkFunds, Return, Same
  <2>2. q = p
    BY <1>0, <2>1
  <2>. QED BY <1>4, <2>2 DEF checkFunds, IInv, CallerInv, KeyHeld
<1>5. ASSUME NEW p \in Procs, Answer(p)
      PROVE  FALSE
  BY <1>0, <1>5 DEF Answer, Return
<1>6. ASSUME NEW p \in Procs, Crash(p)
      PROVE  FALSE
  BY <1>0, <1>6 DEF Crash
<1>. QED BY <1>1, <1>2, <1>3, <1>4, <1>5, <1>6 DEF Next, Step

(* A post that loses the race for its key is answered about the key: never *)
(* "insufficient funds" for a transfer that is already recorded.           *)
THEOREM KeyBeforeFunds == Spec => FundsAnswerIsAboutFunds
BY FundsStep, LedgerInductive, PTL DEF Spec, FundsAnswerIsAboutFunds
------------------------------------------------------------------------------
(* A post moves money between accounts and makes none, whoever posts.  The *)
(* sum is over all accounts, so there have to be finitely many.            *)
LEMMA PostBalances ==
    LedgerTypeOK /\ ZeroSum /\ [LedgerNext]_ledgerVars => ZeroSum'
<1>. SUFFICES ASSUME LedgerTypeOK, ZeroSum, [LedgerNext]_ledgerVars PROVE ZeroSum'
  OBVIOUS
<1>1. CASE UNCHANGED ledgerVars
  BY <1>1 DEF ledgerVars, ZeroSum
<1>2. ASSUME NEW k \in Keys, NEW t \in Transfers, Post(k, t)
      PROVE  ZeroSum'
  <2>1. /\ t \in [Accounts -> Int] /\ balance \in [Accounts -> Int]
        /\ IsFiniteSet(Accounts)
    BY LedgerAssumption, PostgresAssumption DEF LedgerTypeOK
  <2>2. balance' = [a \in Accounts |-> balance[a] + t[a]] /\ SumFunction(t) = 0
    BY <1>2 DEF Post, Record, Validates
  <2>3. /\ SumFunction(t) = Sum(t, Accounts)
        /\ SumFunction(balance) = Sum(balance, Accounts)
        /\ SumFunction(balance') = Sum(balance', Accounts)
    BY <2>1, <2>2 DEF SumFunction, Sum
  <2>4. Sum(balance', Accounts) = Sum(balance, Accounts) + Sum(t, Accounts)
    <3>1. /\ \A a \in Accounts : balance[a] \in Int /\ t[a] \in Int
          /\ \A a \in Accounts : balance'[a] = balance[a] + t[a]
      BY <2>1, <2>2
    <3>. QED BY <2>1, <3>1, SumPlus
  <2>. QED BY <2>2, <2>3, <2>4 DEF ZeroSum
<1>. QED BY <1>1, <1>2 DEF LedgerNext

(* C-1, which the zero-sum audit looks for in the tables: what is committed *)
(* sums to zero between any two statements of any posts.                   *)
THEOREM ZeroSumHolds == Spec => []ZeroSum
<1>1. Init => ZeroSum
  <2>. SUFFICES ASSUME Init PROVE ZeroSum
    OBVIOUS
  <2>1. balance = [a \in Accounts |-> 0] /\ IsFiniteSet(Accounts)
    BY PostgresAssumption DEF Init, LedgerInit
  <2>2. SumFunction(balance) = Sum(balance, Accounts)
    BY <2>1 DEF SumFunction, Sum
  <2>3. Sum(balance, Accounts) = 0
    BY <2>1, SumZero
  <2>. QED BY <2>2, <2>3 DEF ZeroSum
<1>2. IInv /\ ZeroSum /\ [Next]_vars => ZeroSum'
  BY StepRefines, PostBalances DEF IInv, TypeOK
<1>. QED BY <1>1, <1>2, LedgerInductive, PTL DEF Spec

------------------------------------------------------------------------------
(* Who may hold what, and in which order rows are taken: the reason why    *)
(* posts do not deadlock.  Holding begins with the claim of the key.       *)
Holding == {"lock", "funds", "commit"}

KeyHolder(q) == \A k \in Keys : claimed[k] = q => pc[q] \in Holding /\ key[q] = k

RowHolder(q) ==
    \A a \in MemberAccounts : locked[a] = q => pc[q] \in Holding /\ a \in Drawn(transfer[q])

InOrder(q) ==
    \A a \in MemberAccounts, b \in Drawn(transfer[q]) :
        locked[a] = q /\ locked[b] # q => IdOf[a] < IdOf[b]

WaitInv == \A q \in Procs : KeyHolder(q) /\ RowHolder(q) /\ InOrder(q)

(* A caller whose call and whose holdings did not change. *)
LEMMA HolderSame ==
    ASSUME IInv, NEW q \in Procs, KeyHolder(q), RowHolder(q), InOrder(q),
           pc'[q] = pc[q], key'[q] = key[q], transfer'[q] = transfer[q],
           \A k \in Keys : claimed'[k] = q <=> claimed[k] = q,
           \A a \in MemberAccounts : locked'[a] = q <=> locked[a] = q
    PROVE  (KeyHolder(q) /\ RowHolder(q) /\ InOrder(q))'
<1>1. KeyHolder(q)'
  BY DEF KeyHolder
<1>2. RowHolder(q)'
  BY DEF RowHolder, Drawn
<1>3. InOrder(q)'
  BY DEF InOrder, Drawn
<1>. QED BY <1>1, <1>2, <1>3

(* A caller that holds nothing. *)
LEMMA HolderNone ==
    ASSUME NEW q \in Procs,
           \A k \in Keys : claimed'[k] # q, \A a \in MemberAccounts : locked'[a] # q
    PROVE  (KeyHolder(q) /\ RowHolder(q) /\ InOrder(q))'
BY DEF KeyHolder, RowHolder, InOrder

(* The end of a transaction, however it ends. *)
LEMMA ReleaseWaits ==
    ASSUME IInv, WaitInv, NEW p \in Procs, ReleaseLocks(p),
           key' = key, transfer' = transfer, \A q \in Procs \ {p} : pc'[q] = pc[q]
    PROVE  WaitInv'
<1>. SUFFICES ASSUME NEW q \in Procs
              PROVE  (KeyHolder(q) /\ RowHolder(q) /\ InOrder(q))'
  BY DEF WaitInv
<1>0. KeyHolder(q) /\ RowHolder(q) /\ InOrder(q) /\ p # NoProc /\ q # NoProc
  BY PostgresAssumption DEF WaitInv
<1>1. CASE q = p
  <2>1. /\ \A k \in Keys : claimed'[k] # q
        /\ \A a \in MemberAccounts : locked'[a] # q
    BY <1>0, <1>1 DEF ReleaseLocks
  <2>. QED BY <2>1, HolderNone
<1>2. CASE q # p
  <2>1. /\ \A k \in Keys : claimed'[k] = q <=> claimed[k] = q
        /\ \A a \in MemberAccounts : locked'[a] = q <=> locked[a] = q
    BY <1>0, <1>2 DEF ReleaseLocks
  <2>2. pc'[q] = pc[q] /\ key'[q] = key[q] /\ transfer'[q] = transfer[q]
    BY <1>2
  <2>. QED BY <1>0, <2>1, <2>2, HolderSame
<1>. QED BY <1>1, <1>2

(* A statement of p that takes neither key nor row. *)
LEMMA MoveWaits ==
    ASSUME IInv, WaitInv, NEW p \in Procs, claimed' = claimed, locked' = locked,
           \A q \in Procs \ {p} :
               pc'[q] = pc[q] /\ key'[q] = key[q] /\ transfer'[q] = transfer[q],
           \/ pc[p] \notin Holding
           \/ pc'[p] \in Holding /\ key'[p] = key[p] /\ transfer'[p] = transfer[p]
    PROVE  WaitInv'
<1>. SUFFICES ASSUME NEW q \in Procs
              PROVE  (KeyHolder(q) /\ RowHolder(q) /\ InOrder(q))'
  BY DEF WaitInv
<1>0. KeyHolder(q) /\ RowHolder(q) /\ InOrder(q)
  BY DEF WaitInv
<1>1. CASE q # p
  BY <1>0, <1>1, HolderSame
<1>2. CASE q = p /\ pc[p] \notin Holding
  BY <1>0, <1>2, HolderNone DEF KeyHolder, RowHolder
<1>3. CASE q = p /\ pc'[p] \in Holding /\ key'[p] = key[p] /\ transfer'[p] = transfer[p]
  BY <1>0, <1>3 DEF KeyHolder, RowHolder, InOrder, Drawn
<1>. QED BY <1>1, <1>2, <1>3

(* A key is claimed by a caller that holds nothing yet. *)
LEMMA ClaimWaits ==
    ASSUME IInv, WaitInv, NEW p \in Procs, pc[p] = "claim", claimed[key[p]] = NoProc,
           claimed' = [claimed EXCEPT ![key[p]] = p], Goto(p, "lock"),
           locked' = locked, Same
    PROVE  WaitInv'
<1>. SUFFICES ASSUME NEW q \in Procs
              PROVE  (KeyHolder(q) /\ RowHolder(q) /\ InOrder(q))'
  BY DEF WaitInv
<1>0. KeyHolder(q) /\ RowHolder(q) /\ InOrder(q) /\ p # NoProc /\ q # NoProc
  BY PostgresAssumption DEF WaitInv
<1>t. /\ pc \in [Procs -> {"idle", "judge", "claim", "lock", "funds", "commit", "answer"}]
      /\ claimed \in [Keys -> Procs \cup {NoProc}]
  BY DEF IInv, TypeOK
<1>u. key' = key /\ transfer' = transfer
  BY DEF Same
<1>1. CASE q # p
  <2>1. pc'[q] = pc[q]
    BY <1>1, <1>t DEF Goto
  <2>2. \A k \in Keys : claimed'[k] = q <=> claimed[k] = q
    BY <1>0, <1>1, <1>t
  <2>. QED BY <1>0, <1>u, <2>1, <2>2, HolderSame
<1>2. CASE q = p
  <2>1. pc'[q] = "lock"
    BY <1>2, <1>t DEF Goto
  <2>2. \A k \in Keys : claimed[k] # p
    BY <1>0, <1>2 DEF KeyHolder, Holding
  <2>3. \A a \in MemberAccounts : locked'[a] # q
    BY <1>0, <1>2 DEF RowHolder, Holding
  <2>4. KeyHolder(q)'
    <3>1. \A k \in Keys : claimed'[k] = q => k = key[q]
      BY <1>2, <1>t, <2>2
    <3>. QED BY <1>u, <2>1, <3>1 DEF KeyHolder, Holding
  <2>5. RowHolder(q)' /\ InOrder(q)'
    BY <2>3 DEF RowHolder, InOrder
  <2>. QED BY <2>4, <2>5
<1>. QED BY <1>1, <1>2

(* The next row in id order is behind every row p already has. *)
LEMMA LockWaits ==
    ASSUME IInv, WaitInv, NEW p \in Procs, pc[p] = "lock", NEW c \in MemberAccounts,
           IsNextLock(p, c), locked[c] = NoProc, locked' = [locked EXCEPT ![c] = p],
           pc' = pc, claimed' = claimed, Same
    PROVE  WaitInv'
<1>. SUFFICES ASSUME NEW q \in Procs
              PROVE  (KeyHolder(q) /\ RowHolder(q) /\ InOrder(q))'
  BY DEF WaitInv
<1>0. KeyHolder(q) /\ RowHolder(q) /\ InOrder(q) /\ p # NoProc /\ q # NoProc
  BY PostgresAssumption DEF WaitInv
<1>t. locked \in [MemberAccounts -> Procs \cup {NoProc}]
  BY DEF IInv, TypeOK
<1>u. key' = key /\ transfer' = transfer
  BY DEF Same
<1>1. CASE q # p
  <2>1. \A a \in MemberAccounts : locked'[a] = q <=> locked[a] = q
    BY <1>0, <1>1, <1>t
  <2>. QED BY <1>0, <1>u, <2>1, HolderSame
<1>2. CASE q = p
  <2>1. KeyHolder(q)'
    BY <1>0, <1>u DEF KeyHolder
  <2>2. \A a \in MemberAccounts : locked'[a] = q <=> a = c \/ locked[a] = q
    BY <1>2, <1>t
  <2>3. RowHolder(q)'
    BY <1>0, <1>2, <1>u, <2>2 DEF RowHolder, Drawn, IsNextLock, Holding
  <2>4. InOrder(q)'
    <3>. SUFFICES ASSUME NEW a \in MemberAccounts, NEW b \in Drawn(transfer[q]),
                         locked'[a] = q, locked'[b] # q
                  PROVE  IdOf[a] < IdOf[b]
      BY <1>u DEF InOrder, Drawn
    <3>1. b \in MemberAccounts /\ b # c /\ locked[b] # q
      BY <2>2 DEF Drawn
    <3>2. CASE locked[a] = q
      BY <1>0, <3>1, <3>2 DEF InOrder
    <3>3. CASE a = c
      <4>1. IdOf[c] <= IdOf[b]
        BY <1>2, <3>1 DEF IsNextLock
      <4>2. IdOf[c] \in Nat /\ IdOf[b] \in Nat /\ IdOf[c] # IdOf[b]
        BY <3>1, PostgresAssumption
      <4>. QED BY <3>3, <4>1, <4>2
    <3>. QED BY <2>2, <3>2, <3>3
  <2>. QED BY <2>1, <2>3, <2>4
<1>. QED BY <1>1, <1>2

(* Every statement keeps the order. *)
LEMMA NextWaits == IInv /\ WaitInv /\ [Next]_vars => WaitInv'
<1>. SUFFICES ASSUME IInv, WaitInv, [Next]_vars PROVE WaitInv'
  OBVIOUS
<1>t. /\ pc \in [Procs -> {"idle", "judge", "claim", "lock", "funds", "commit", "answer"}]
      /\ key \in [Procs -> Keys] /\ transfer \in [Procs -> Transfers]
  BY DEF IInv, TypeOK
<1>1. CASE UNCHANGED vars
  BY <1>1 DEF vars, procVars, WaitInv, KeyHolder, RowHolder, InOrder, Drawn
<1>2. ASSUME NEW p \in Procs, NEW k \in Keys, NEW t \in Transfers, Call(p, k, t)
      PROVE  WaitInv'
  <2>1. \A q \in Procs \ {p} :
            pc'[q] = pc[q] /\ key'[q] = key[q] /\ transfer'[q] = transfer[q]
    BY <1>t, <1>2 DEF Call, Goto
  <2>2. claimed' = claimed /\ locked' = locked /\ pc[p] \notin Holding
    BY <1>2 DEF Call, Holding
  <2>. QED BY <2>1, <2>2, MoveWaits
<1>3. ASSUME NEW p \in Procs, NEW said, Return(p, said)
      PROVE  WaitInv'
  <2>1. \A q \in Procs \ {p} : pc'[q] = pc[q]
    BY <1>t, <1>3 DEF Return, Goto
  <2>. QED BY <1>3, <2>1, ReleaseWaits DEF Return
<1>4. ASSUME NEW p \in Procs, NEW l, Goto(p, l), Same, claimed' = claimed, locked' = locked,
             pc[p] \notin Holding \/ l \in Holding
      PROVE  WaitInv'
  <2>1. pc'[p] = l /\ \A q \in Procs \ {p} : pc'[q] = pc[q]
    BY <1>t, <1>4 DEF Goto
  <2>2. key' = key /\ transfer' = transfer
    BY <1>4 DEF Same
  <2>. QED BY <1>4, <2>1, <2>2, MoveWaits
<1>5. ASSUME NEW p \in Procs, judgeRecordedKey(p)
      PROVE  WaitInv'
  BY <1>5, <1>3, <1>4 DEF judgeRecordedKey, Holding
<1>6. ASSUME NEW p \in Procs, ClaimKey(p)
      PROVE  WaitInv'
  BY <1>6, <1>3, ClaimWaits DEF ClaimKey
<1>7. ASSUME NEW p \in Procs, lockAccounts(p)
      PROVE  WaitInv'
  BY <1>7, <1>4, LockWaits DEF lockAccounts, Holding
<1>8. ASSUME NEW p \in Procs, checkFunds(p)
      PROVE  WaitInv'
  BY <1>8, <1>3, <1>4 DEF checkFunds, Holding
<1>9. ASSUME NEW p \in Procs, Commit(p)
      PROVE  WaitInv'
  <2>1. \A q \in Procs \ {p} : pc'[q] = pc[q]
    BY <1>t, <1>9 DEF Commit, Goto
  <2>. QED BY <1>9, <2>1, ReleaseWaits DEF Commit
<1>10. ASSUME NEW p \in Procs, Answer(p)
       PROVE  WaitInv'
  BY <1>10, <1>3 DEF Answer
<1>11. ASSUME NEW p \in Procs, Crash(p)
       PROVE  WaitInv'
  <2>1. \A q \in Procs \ {p} : pc'[q] = pc[q]
    BY <1>t, <1>11 DEF Crash, Goto
  <2>. QED BY <1>11, <2>1, ReleaseWaits DEF Crash
<1>. QED BY <1>1, <1>2, <1>5, <1>6, <1>7, <1>8, <1>9, <1>10, <1>11 DEF Next, Step

(* Of the callers that wait for a row take the one whose row comes last:   *)
(* whoever has that row wants a later one, or none.  A caller that waits   *)
(* for a key waits for one that is past waiting for keys.                  *)
LEMMA OrderBreaksCycles == IInv /\ WaitInv => NoWaitCycle
<1>. SUFFICES ASSUME IInv, WaitInv, NEW r \in Procs, pc[r] # "idle",
                     \A p \in Procs : pc[p] # "idle" => \E q \in Procs : WaitsFor(p, q)
              PROVE  FALSE
  BY DEF NoWaitCycle
<1> DEFINE Wants(p, a) == pc[p] = "lock" /\ IsNextLock(p, a)
           Behind(a) == {b \in MemberAccounts : IdOf[b] > IdOf[a]}
           Wanted == {a \in MemberAccounts : \E p \in Procs : Wants(p, a)}
           F == {Behind(a) : a \in Wanted}
<1>f. IsFiniteSet(MemberAccounts)
  <2>1. MemberAccounts \subseteq Accounts
    BY DEF Accounts
  <2>. QED BY <2>1, PostgresAssumption, FS_Subset
<1>1. ASSUME NEW p \in Procs, pc[p] \in Holding
      PROVE  \E a \in Wanted : Wants(p, a) /\ \E q \in Procs : locked[a] = q
  BY <1>1 DEF WaitsFor, Holding
<1>2. \E p \in Procs : pc[p] \in Holding
  <2>1. PICK q \in Procs : WaitsFor(r, q)
    OBVIOUS
  <2>2. CASE pc[r] = "claim" /\ claimed[key[r]] = q
    <3>1. key[r] \in Keys
      BY DEF IInv, TypeOK
    <3>. QED BY <2>2, <3>1 DEF WaitInv, KeyHolder
  <2>. QED BY <2>1, <2>2 DEF WaitsFor, Holding
<1>3. F \subseteq SUBSET MemberAccounts /\ F # {}
  <2>1. PICK a \in Wanted : TRUE
    BY <1>1, <1>2
  <2>2. Behind(a) \in F
    BY <2>1
  <2>. QED BY <2>2
<1>4. PICK a \in Wanted : \A V \in F : V \subseteq Behind(a) => V = Behind(a)
  <2>1. PICK U \in F : \A V \in F : V \subseteq U => V = U
    <3> HIDE DEF F
    <3>. QED BY <1>f, <1>3, Smallest
  <2>. QED BY <2>1
<1>5. PICK p \in Procs : Wants(p, a)
  OBVIOUS
<1>6. PICK q \in Procs : locked[a] = q
  <2>1. PICK b \in Wanted : Wants(p, b) /\ \E q \in Procs : locked[b] = q
    BY <1>1, <1>5 DEF Holding
  <2>2. IdOf[a] <= IdOf[b] /\ IdOf[b] <= IdOf[a]
    BY <1>5, <2>1 DEF IsNextLock
  <2>3. IdOf[a] \in Nat /\ IdOf[b] \in Nat
    BY PostgresAssumption
  <2>4. a = b
    BY <2>2, <2>3, PostgresAssumption
  <2>. QED BY <2>1, <2>4
<1>7. pc[q] \in Holding
  BY <1>6 DEF WaitInv, RowHolder
<1>8. PICK c \in Wanted : Wants(q, c)
  BY <1>1, <1>7
<1>9. IdOf[a] < IdOf[c]
  BY <1>6, <1>8 DEF WaitInv, InOrder, IsNextLock
<1>10. Behind(c) \in F /\ Behind(c) \subseteq Behind(a)
  <2>1. \A b \in MemberAccounts : IdOf[b] \in Nat
    BY PostgresAssumption
  <2>. QED BY <1>9, <2>1
<1>11. c \in Behind(a) /\ c \notin Behind(c)
  <2>1. \A b \in MemberAccounts : IdOf[b] \in Nat
    BY PostgresAssumption
  <2>. QED BY <1>9, <2>1
<1>. QED BY <1>4, <1>10, <1>11

(* Posts do not wait for each other in a circle: whoever runs, somebody    *)
(* who runs waits for nobody, since keys come before rows and rows are     *)
(* locked in the order of their ids (sqlLockAccounts).                     *)
THEOREM NoWaitCycleHolds == Spec => []NoWaitCycle
<1>1. Init => WaitInv
  BY PostgresAssumption DEF Init, WaitInv, KeyHolder, RowHolder, InOrder
<1>2. Spec => []WaitInv
  BY <1>1, NextWaits, LedgerInductive, PTL DEF Spec
<1>. QED BY <1>2, OrderBreaksCycles, LedgerInductive, PTL
==============================================================================
