----------------------------- MODULE Translations -----------------------------
(***************************************************************************)
(* The translation pipeline and its spend caps (internal/translation).     *)
(*                                                                         *)
(* Every replica runs the cycle.  It reads the month, pages through the    *)
(* items that still lack a reader's language, newest first, and takes each *)
(* (item, locale) in a transaction of its own: a claim that is tried and   *)
(* never waited for, the pair and the month read again under it, the paid  *)
(* call, and the translation with its cost on the month's ledger.  The     *)
(* month is the one in which that transaction began.                       *)
(*                                                                         *)
(* The provider is external: an attempt is answered, answered unusably,    *)
(* refused or not answered, and what it cost is stated or is not.          *)
(***************************************************************************)
EXTENDS Feeds

CONSTANTS
    Workers,
    LanguageOf,         \* [Sources -> the language of each, set when the row is made]
    ReaderLocales,      \* the readers' languages, in order
    Prose,              \* the bodies that yield an extract
    Costs,              \* what a priced attempt may cost
    PerArticle,
    Monthly,
    CycleLimit,
    CallAttempts

ASSUME CapsValid == PerArticle \in Nat \ {0} /\ Monthly \in Nat /\ PerArticle <= Monthly

ASSUME TranslationAssumption ==
    /\ IsFiniteSet(Workers) /\ IsFiniteSet(ToSet(ReaderLocales))
    /\ IsFiniteSet(Costs) /\ Costs # {} /\ Costs \subseteq Nat
    /\ \A b \in Beginnings :
          /\ \A t \in b.translation : \E i \in b.items, l \in ToSet(ReaderLocales) : t.pair = <<i.at, l>>
          /\ \A t, v \in b.translation : t.pair = v.pair => t = v

VARIABLES
    cycle,          \* each worker's cycle
    translation,    \* the translation table
    spend,          \* the translation_spend table, by month
    month,
    billed,         \* what the provider charged, by the month it belongs to
    lost            \* what was charged and never reached the ledger

translationVars == <<cycle, translation, spend, month, billed, lost>>

Nothing == [cost |-> 0, unmetered |-> 0]
Plus(a, b) == [cost |-> a.cost + b.cost, unmetered |-> a.unmetered + b.unmetered]

Resting == [st |-> "resting", todo |-> <<>>, short |-> FALSE, after |-> 0, calls |-> 0,
            month |-> 0, live |-> FALSE, tries |-> 0, answer |-> "none", spent |-> Nothing]

Months == 1..2

TranslationInit ==
    /\ cycle = [w \in Workers |-> Resting]
    /\ \E b \in Beginnings : b.items = items /\ b.budget = budget /\ translation = b.translation
    /\ spend = [m \in Months |-> [total |-> Nothing, halted |-> FALSE]]
    /\ month = 1
    /\ billed = [m \in Months |-> Nothing]
    /\ lost = [m \in Months |-> Nothing]

---------------------------------------------------------------------------------
OverCeiling(cost) == cost > PerArticle

Reached(total) == total.cost >= Monthly

ThisMonth == spend[month]
budgetStop(row) == row.halted \/ Reached(row.total)

TargetLocales(language) == ToSet(ReaderLocales) \ {language}

LocaleRank(l) == CHOOSE k \in 0..Len(ReaderLocales) : IF k = 0 THEN l \notin ToSet(ReaderLocales) ELSE ReaderLocales[k] = l

Translated(p) == \E t \in translation : t.pair = p

(* Active source, a title that can be sent, a reader's language still to do. *)
Eligible(i) ==
    /\ Exists(i.src)
    /\ source[i.src].active
    /\ i.title # 0
    /\ \E l \in TargetLocales(LanguageOf[i.src]) : ~ Translated(<<i.at, l>>)

(* A page: the newest after the cursor (0 is none). *)
eligibleItems(after) ==
    LET all == {i \in items : Eligible(i) /\ (after = 0 \/ i.at < after)}
    IN  {i \in all : Cardinality({j \in all : j.at > i.at}) < CycleLimit}

(* An item's pairs; none when it has no prose. *)
PairsOf(i) == {<<i.at, l>> : l \in IF i.body \in Prose THEN TargetLocales(LanguageOf[i.src]) ELSE {}}

(* A page's pairs: newest item first, in the order of the locales. *)
ListPairs(page) ==
    Listings(UNION {PairsOf(i) : i \in page},
             LAMBDA p, q : p[1] > q[1] \/ (p[1] = q[1] /\ LocaleRank(p[2]) < LocaleRank(q[2])))

RunOnce(w) ==
    /\ Spend("cycles")
    /\ cycle[w] = Resting
    /\ ~ budgetStop(ThisMonth)
    /\ cycle' = [cycle EXCEPT ![w].st = "list"]
    /\ UNCHANGED <<translation, spend, month, billed, lost>>

ListPage(w) ==
    /\ cycle[w].st = "list"
    /\ LET page == eligibleItems(cycle[w].after)
       IN  \/ page = {} /\ cycle' = [cycle EXCEPT ![w] = Resting]
           \/ \E last \in page, list \in ListPairs(page) :
                 /\ \A i \in page : last.at <= i.at
                 /\ cycle' = [cycle EXCEPT ![w] = [@ EXCEPT !.st = "walk", !.todo = list,
                                                           !.short = Cardinality(page) < CycleLimit,
                                                           !.after = last.at]]
    /\ UNCHANGED <<translation, spend, month, billed, lost, budget>>

PageEnds(w) ==
    /\ cycle[w].st = "walk"
    /\ cycle[w].todo = <<>>
    /\ cycle' = [cycle EXCEPT ![w] = IF @.short THEN Resting ELSE [@ EXCEPT !.st = "list"]]
    /\ UNCHANGED <<translation, spend, month, billed, lost, budget>>

---------------------------------------------------------------------------------
Pair(w) == cycle[w].todo[1]
Calling(w) == cycle[w].st \in {"call", "settle"}
Claimed(p) == \E w \in Workers : Calling(w) /\ cycle[w].live /\ Pair(w) = p

Moved(c) == [c EXCEPT !.st = "walk", !.todo = Tail(@), !.month = 0, !.live = FALSE,
                      !.tries = 0, !.answer = "none", !.spent = Nothing]

(* Mutant: the page the pair was listed on is trusted under the claim. *)
alreadyTranslated_AsListed(p) == FALSE

alreadyTranslated(p) == Translated(p)

(* The claim, the pair again, the month again, and only then the call. *)
translatePair(w) ==
    /\ cycle[w].st = "walk"
    /\ cycle[w].todo # <<>>
    /\ cycle' = [cycle EXCEPT ![w] =
           IF Claimed(Pair(w)) \/ alreadyTranslated(Pair(w)) THEN Moved(@)
           ELSE IF budgetStop(ThisMonth) THEN Resting
           ELSE [@ EXCEPT !.st = "call", !.month = month, !.live = TRUE]]
    /\ UNCHANGED <<translation, spend, month, billed, lost, budget>>

(* What an attempt may come to.  A priced answer states its cost; one that  *)
(* never came, or that states no usage, was perhaps charged and is counted. *)
Priced == {[kind |-> k, spent |-> [cost |-> c, unmetered |-> 0]] : k \in {"ok", "unusable"}, c \in Costs}
Unmetered == {[kind |-> k, spent |-> [cost |-> 0, unmetered |-> 1]] : k \in {"opaque", "timeout"}}
Free == {[kind |-> k, spent |-> Nothing] : k \in {"busy", "auth", "badRequest"}}
Answers == Priced \cup Unmetered \cup Free

retryable(k) == k \in {"timeout", "busy"}
itemFailure(k) == k \in {"unusable", "opaque", "timeout", "badRequest"}
providerFailure(k) == k \in {"busy", "auth"}

(* Mutant: a call's spend is that of its last attempt. *)
withSpend_Last(before, a) == a.spent

(* What the attempts of a call cost together. *)
withSpend(before, a) == Plus(before, a.spent)

Translate(w) ==
    /\ cycle[w].st = "call"
    /\ \E a \in Answers :
          /\ cycle' = [cycle EXCEPT ![w].spent = withSpend(@, a),
                                    ![w].tries = @ + 1,
                                    ![w].answer = a.kind,
                                    ![w].st = IF retryable(a.kind) /\ cycle[w].tries + 1 < CallAttempts
                                              THEN @ ELSE "settle"]
          /\ billed' = [billed EXCEPT ![cycle[w].month] = Plus(@, a.spent)]
    /\ UNCHANGED <<translation, spend, month, lost, budget>>

---------------------------------------------------------------------------------
(* The latch is set by the write that reaches the cap. *)
Halt(row, total) == row.halted \/ Reached(total)
settle(row, more) == LET total == Plus(row.total, more) IN [total |-> total, halted |-> Halt(row, total)]

(* A result over the ceiling, or for a pair that is taken, is not kept. *)
Refusal(w) == OverCeiling(cycle[w].spent.cost) \/ Translated(Pair(w))

RecordSpend(w) ==
    spend' = IF cycle[w].spent = Nothing THEN spend
             ELSE [spend EXCEPT ![cycle[w].month] = settle(@, cycle[w].spent)]

(* The translation with its cost, or the cost alone of a refused result or a failed call. *)
Record(w) ==
    /\ translation' = IF cycle[w].answer = "ok" /\ ~ Refusal(w)
                      THEN translation \cup {[pair |-> Pair(w), spent |-> cycle[w].spent]}
                      ELSE translation
    /\ RecordSpend(w)

NeedsWrite(w) == cycle[w].answer = "ok" \/ cycle[w].spent # Nothing

(* The call is over: the cycle goes on to the next pair, or ends because the *)
(* provider failed, the month is halted or the cycle made all its calls.     *)
Settled(w) ==
    /\ cycle[w].st = "settle"
    /\ NeedsWrite(w) => cycle[w].live
    /\ Record(w)
    /\ LET c == cycle[w]
           stop == NeedsWrite(w) /\ spend'[c.month].halted
       IN  cycle' = [cycle EXCEPT ![w] =
               IF providerFailure(c.answer) \/ stop \/ c.calls + 1 >= CycleLimit THEN Resting
               ELSE [Moved(c) EXCEPT !.calls = @ + 1]]
    /\ UNCHANGED <<month, billed, lost, budget>>

Forgone(w) == lost' = IF Calling(w) THEN [lost EXCEPT ![cycle[w].month] = Plus(@, cycle[w].spent)] ELSE lost

(* The write fails, its transaction being gone or its commit refused. *)
uncommittedSpend(w) ==
    /\ cycle[w].st = "settle"
    /\ NeedsWrite(w)
    /\ ~ cycle[w].live
    /\ Forgone(w)
    /\ cycle' = [cycle EXCEPT ![w] = Resting]
    /\ UNCHANGED <<translation, spend, month, billed, budget>>

(* The commit succeeds and its answer is lost: the cycle takes it for failed. *)
CommitUnheard(w) ==
    /\ Spend("faults")
    /\ cycle[w].st = "settle"
    /\ NeedsWrite(w)
    /\ cycle[w].live
    /\ Record(w)
    /\ cycle' = [cycle EXCEPT ![w] = Resting]
    /\ UNCHANGED <<month, billed, lost>>

(* The transaction's session dies, and the claim with it; the call goes on. *)
ClaimDies(w) ==
    /\ Spend("faults")
    /\ Calling(w)
    /\ cycle[w].live
    /\ cycle' = [cycle EXCEPT ![w].live = FALSE]
    /\ UNCHANGED <<translation, spend, month, billed, lost>>

(* The replica dies, or is told to stop and can write nothing more. *)
WorkerStops(w) ==
    /\ Spend("faults")
    /\ cycle[w] # Resting
    /\ Forgone(w)
    /\ cycle' = [cycle EXCEPT ![w] = Resting]
    /\ UNCHANGED <<translation, spend, month, billed>>

MonthTurns ==
    /\ Spend("months")
    /\ month < 2
    /\ month' = month + 1
    /\ UNCHANGED <<cycle, translation, spend, billed, lost>>

CycleStep(w) ==
    \/ RunOnce(w)
    \/ ListPage(w)
    \/ PageEnds(w)
    \/ translatePair(w)
    \/ Translate(w)
    \/ Settled(w)
    \/ uncommittedSpend(w)
    \/ CommitUnheard(w)
    \/ ClaimDies(w)
    \/ WorkerStops(w)

---------------------------------------------------------------------------------
(* The calls still open in a month, and what they cost so far. *)
OpenCalls(m) == {w \in Workers : Calling(w) /\ cycle[w].month = m}
Outstanding(m) ==
    [cost |-> SumFunctionOnSet([w \in Workers |-> cycle[w].spent.cost], OpenCalls(m)),
     unmetered |-> SumFunctionOnSet([w \in Workers |-> cycle[w].spent.unmetered], OpenCalls(m))]

(* The month's ledger is whole: what the provider charged for it is on the  *)
(* ledger, in a call that is still open, or was lost with a process or a    *)
(* session, through every retry, refusal and failed call, and in the month  *)
(* in which the call's transaction began.  A month at its cap is halted,    *)
(* and the cap is passed by no more than the calls then open: one for each  *)
(* worker, begun while the month was below it (pipeline.go, ledger.go).     *)
MonthIsWhole ==
    \A m \in Months :
        /\ Plus(Plus(spend[m].total, lost[m]), Outstanding(m)) = billed[m]
        /\ Reached(spend[m].total) => spend[m].halted
        /\ spend[m].total.cost <= Monthly - 1 + Cardinality(Workers) * Max(Costs)

(* Nobody pays for a pair that is translated or that another is paying for, *)
(* unless its own claim died with its session.                              *)
PaidOnce ==
    \A w \in Workers :
        (Calling(w) /\ cycle[w].live)
            => /\ ~ Translated(Pair(w))
               /\ \A v \in Workers \ {w} : (Calling(v) /\ cycle[v].live) => Pair(v) # Pair(w)
==============================================================================
