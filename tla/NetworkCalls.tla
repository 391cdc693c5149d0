----------------------------- MODULE NetworkCalls -----------------------------
(***************************************************************************)
(* How an adapter calls its network (internal/cashback/networks and the    *)
(* awin and linkwise clients): every Get runs RetryBackoff.Do around an    *)
(* attempt that first waits for a token of the adapter's RateLimiter.      *)
(*                                                                         *)
(* The bucket is shared by every call under way.  A call that finds it     *)
(* empty takes its token anyway and waits the debt out; a call whose       *)
(* context ends while it waits gives back what has not been refilled.      *)
(* Tokens are counted in units of which one refills per tick and Spacing   *)
(* make a whole token, so that every wait is a whole number of ticks.      *)
(* Timers fire on time: the clock does not pass one that is due.           *)
(***************************************************************************)
EXTENDS Amounts, Sequences, FiniteSets

CONSTANTS
    Calls,          \* the calls of one adapter
    Burst, Spacing, \* the declared rate: Burst tokens, one more every Spacing ticks
    BaseDelay, DelayCap, MaxAttempts, MaxElapsed,   \* RetryBackoffPolicy
    AskCeiling,     \* retryAfterAskCeiling
    Headers,        \* the Retry-After values a network sends, Unreadable among them
    StartBy,        \* calls start no later (a bound)
    MaxCancels      \* contexts that end from outside (a bound)

Unreadable == -1

(* What withDefaults accepts of a policy. *)
ValidPolicy ==
    /\ BaseDelay \in 1..DelayCap /\ DelayCap \in 1..MaxInt
    /\ MaxAttempts \in Nat \ {0}
    /\ MaxElapsed \in 1..MaxInt

ASSUME CallsAssumption ==
    /\ Burst \in Nat \ {0} /\ Spacing \in Nat \ {0}
    /\ ValidPolicy
    /\ AskCeiling \in 1..MaxInt
    /\ Headers \subseteq Nat \cup {Unreadable}

VARIABLES
    now,        \* the monotonic clock
    tokens,     \* RateLimiter.tokens: negative is the queue of those waiting
    last,       \* RateLimiter.last
    call,       \* each call: where its Do is
    grants,     \* the instants requests were let out
    cancels     \* contexts ended so far

callVars == <<now, tokens, last, call, grants, cancels>>

NotCalling == [st |-> "idle", attempt |-> 0, started |-> 0, until |-> 0, notBefore |-> 0, early |-> FALSE]

CallsInit ==
    /\ now = 0
    /\ tokens = Burst * Spacing
    /\ last = 0
    /\ call = [c \in Calls |-> NotCalling]
    /\ grants = <<>>
    /\ cancels = 0

----------------------------------------------------------------------------
(* The token bucket, at this instant. *)

refillLocked ==
    IF now > last THEN Min({Burst * Spacing, tokens + (now - last)}) ELSE tokens

(* Mutant: a caller that must wait leaves no debt for the next one to queue behind. *)
reserve_NotQueued ==
    LET level == refillLocked - Spacing
    IN  [level |-> Max({0, level}), wait |-> Max({0, -level})]

(* The level after taking a token, and how long its owner waits. *)
reserve == LET level == refillLocked - Spacing
           IN  [level |-> level, wait |-> IF level >= 0 THEN 0 ELSE -level]

(* What an abandoned wait leaves: the part of its token still to be refilled goes back. *)
restore(ready) ==
    IF ready - now <= 0 THEN refillLocked
    ELSE Min({Burst * Spacing, refillLocked + Min({Spacing, ready - now})})

----------------------------------------------------------------------------
(* The backoff. *)

(* Mutant: the ceiling is doubled first and clamped afterwards. *)
Ceiling_DoublesFirst(base, cap, attempt) ==
    LET ceiling[i \in 1..attempt] ==
            IF i = 1 THEN base ELSE IF ceiling[i - 1] >= cap THEN ceiling[i - 1] ELSE Wrap(2 * ceiling[i - 1])
    IN  Min({ceiling[attempt], cap})

(* The ceiling of the jitter: the base doubled for each attempt after the first, up to the cap. *)
Ceiling(base, cap, attempt) ==
    LET ceiling[i \in 1..attempt] ==
            IF i = 1 THEN base
            ELSE CASE ceiling[i - 1] >= cap -> ceiling[i - 1]
                   [] ceiling[i - 1] < cap /\ ceiling[i - 1] > cap \div 2 -> cap
                   [] OTHER -> Wrap(2 * ceiling[i - 1])
    IN  Min({ceiling[attempt], cap})

(* The wait for a jitter: what the network asked for is a floor under it. *)
Delay(jitter, retryAfter) ==
    LET ask == Min({retryAfter, AskCeiling})
    IN  CASE retryAfter <= 0 -> jitter
          [] retryAfter > 0 /\ jitter > Wrap(MaxInt - ask) -> MaxInt
          [] OTHER -> Wrap(ask + jitter)

RetryAfterFromHeader(value) ==
    IF value = Unreadable THEN 0 ELSE Min({value, AskCeiling})

----------------------------------------------------------------------------
(* What an attempt may come to, and how the client reads it. *)

Statuses == {"ok", "unauthorized", "forbidden", "not found", "timeout", "too many requests",
             "not implemented", "server error"}

RetryableHTTPStatus(status) == status \in {"too many requests", "timeout", "server error"}

Terminal == [kind |-> "terminal", ask |-> 0]
Retryable(ask) == [kind |-> "retryable", ask |-> ask]

(* A transport that failed, or an answer that broke off, may be tried again. *)
TransportError == Retryable(0)

refusal(status, header) ==
    IF RetryableHTTPStatus(status) THEN Retryable(RetryAfterFromHeader(header)) ELSE Terminal

----------------------------------------------------------------------------
(* One Do. *)

Deadline(started) == started + MaxElapsed

Ended(c, how) == [call EXCEPT ![c] = [NotCalling EXCEPT !.st = how]]

(* The head of the loop: the budget is looked at, then a token is waited for. *)
Attempt(c, attempt, started) ==
    IF now >= Deadline(started)
    THEN call' = Ended(c, "exhausted") /\ UNCHANGED <<tokens, last, grants>>
    ELSE /\ tokens' = reserve.level
         /\ last' = now
         /\ call' = [call EXCEPT ![c] =
                [@ EXCEPT !.st = IF reserve.wait = 0 THEN "sent" ELSE "pacing", !.attempt = attempt,
                          !.started = started, !.until = now + reserve.wait,
                          !.early = reserve.wait = 0 /\ now < call[c].notBefore]]
         /\ grants' = IF reserve.wait = 0 THEN Append(grants, now) ELSE grants

(* A wait that would carry the sequence to its budget is not begun. *)
PastBudget(started, wait) == now - started + wait >= MaxElapsed

(* What follows a failed attempt. *)
Judge(c, failure) ==
    LET one == call[c]
    IN  \/ /\ failure.kind = "terminal"
           /\ call' = Ended(c, "failed")
        \/ /\ failure.kind = "retryable" /\ one.attempt >= MaxAttempts
           /\ call' = Ended(c, "exhausted")
        \/ /\ failure.kind = "retryable" /\ one.attempt < MaxAttempts
           /\ \E jitter \in 0..(Ceiling(BaseDelay, DelayCap, one.attempt) - 1) :
                 LET wait == Delay(jitter, failure.ask)
                 IN  call' = IF PastBudget(one.started, wait)
                             THEN Ended(c, "exhausted")
                             ELSE [call EXCEPT ![c] = [@ EXCEPT !.st = "backing off", !.until = now + wait,
                                                                !.notBefore = now + failure.ask]]

Start(c) ==
    /\ call[c].st = "idle"
    /\ now <= StartBy
    /\ Attempt(c, 1, now)
    /\ UNCHANGED <<now, cancels>>

(* The debt is waited out: the request goes out. *)
PaceEnds(c) ==
    /\ call[c].st = "pacing"
    /\ now >= call[c].until
    /\ call' = [call EXCEPT ![c].st = "sent", ![c].early = now < call[c].notBefore]
    /\ grants' = Append(grants, now)
    /\ UNCHANGED <<now, tokens, last, cancels>>

(* The attempt's context ends during the wait; that failure is not retryable. *)
PaceTimesOut(c) ==
    /\ call[c].st = "pacing"
    /\ now >= Deadline(call[c].started)
    /\ tokens' = restore(call[c].until)
    /\ last' = now
    /\ call' = Ended(c, "failed")
    /\ UNCHANGED <<now, grants, cancels>>

Response(c, status, header) ==
    /\ call[c].st = "sent"
    /\ \/ status = "ok" /\ call' = Ended(c, "ok")
       \/ status # "ok" /\ Judge(c, refusal(status, header))
    /\ UNCHANGED <<now, tokens, last, grants, cancels>>

(* No answer: the transport failed, or the attempt's context ended first. *)
NoAnswer(c) ==
    /\ call[c].st = "sent"
    /\ Judge(c, TransportError)
    /\ UNCHANGED <<now, tokens, last, grants, cancels>>

WakeUp(c) ==
    /\ call[c].st = "backing off"
    /\ now >= call[c].until
    /\ Attempt(c, call[c].attempt + 1, call[c].started)
    /\ UNCHANGED <<now, cancels>>

(* The caller's own context ends: at shutdown, or its job's lock is lost. *)
Cancel(c) ==
    /\ cancels < MaxCancels
    /\ cancels' = cancels + 1
    /\ call[c].st \in {"idle", "pacing", "sent", "backing off"}
    /\ tokens' = IF call[c].st = "pacing" THEN restore(call[c].until) ELSE tokens
    /\ last' = IF call[c].st = "pacing" THEN now ELSE last
    /\ call' = Ended(c, "cancelled")
    /\ UNCHANGED <<now, grants>>

(* When a call has to take its next step at the latest. *)
DueBy(c) ==
    CASE call[c].st \in {"pacing", "backing off"} -> Min({call[c].until, Deadline(call[c].started)})
      [] call[c].st = "sent" -> Deadline(call[c].started)
      [] OTHER -> now + 1

CallsTick ==
    /\ \E c \in Calls : (call[c].st = "idle" /\ now < StartBy) \/ call[c].st \in {"pacing", "sent", "backing off"}
    /\ \A c \in Calls : DueBy(c) > now
    /\ now' = now + 1
    /\ UNCHANGED <<tokens, last, call, grants, cancels>>

CallsNext ==
    \/ CallsTick
    \/ \E c \in Calls :
          \/ Start(c)
          \/ PaceEnds(c)
          \/ PaceTimesOut(c)
          \/ \E status \in Statuses, header \in Headers : Response(c, status, header)
          \/ NoAnswer(c)
          \/ WakeUp(c)
          \/ Cancel(c)

----------------------------------------------------------------------------
(* The network is never asked more often than it declared: since the start, *)
(* Burst requests and one for every Spacing ticks, however the calls waited *)
(* and gave up; and those who gave up leave no debt behind: when nobody     *)
(* waits, the next caller waits for its own token and no more               *)
(* (ratelimiter.go:253-361).                                                *)
GrantsWithinRate ==
    /\ Spacing * Len(grants) <= Spacing * Burst + now
    /\ (\A c \in Calls : call[c].st # "pacing") => refillLocked >= 0

(* The delays, for every policy and attempt the width of a duration holds. *)
DelaysAreExact ==
    /\ \A base \in 1..MaxInt : \A cap \in base..MaxInt, attempt \in 1..8 :
          Ceiling(base, cap, attempt) = Min({base * 2^(attempt - 1), cap})
    /\ \A jitter \in 0..MaxInt, ask \in 0..MaxInt :
          Delay(jitter, ask) = Min({jitter + Min({ask, AskCeiling}), MaxInt})

(* The ceiling is the base doubled and capped, and a wait is never negative *)
(* nor shorter than the ask; so a caller has its answer within the budget,  *)
(* waits in the limiter's queue included, and no retry goes out before the  *)
(* time the network asked for has passed (backoff.go:169-178, 348-467).     *)
DelayIsBounded ==
    /\ DelaysAreExact
    /\ \A c \in Calls :
          /\ call[c].st \in {"pacing", "sent", "backing off"} => now <= Deadline(call[c].started)
          /\ call[c].st = "backing off" => call[c].until < Deadline(call[c].started)
          /\ ~call[c].early

(* Every amount of the width, every share and every rounding. *)
ArithmeticIsExact ==
    /\ \A minor \in Minor : SplitsExactly(minor)
    /\ \A units \in 0..1 : ReadsExactly(units)
    /\ \A x, y \in Minor :
          /\ addMinor(x, y) = IF x + y \in Minor THEN x + y ELSE Overflow
          /\ subMinor(x, y) = IF x - y \in Minor THEN x - y ELSE Overflow

(* Whatever a call brings in is computed with exactly: a split is the exact *)
(* share rounded as its mode says and what is left, no part of it           *)
(* overflows, the page quotes what the money path pays, the cost of         *)
(* rounding is known to the unit, and a decimal of a network is read        *)
(* exactly or refused (money.go:206-231, 427-595; share.go:79-106;          *)
(* offer.go:102-139; linkwise/amounts.go:66-111).                           *)
AmountsAreExact == (\A c \in Calls : call[c].st # "ok") \/ ArithmeticIsExact

(* In every window as many requests go out as the burst and the rate allow: *)
(* "a burst is the only thing that legitimately lets more than rate*window  *)
(* grants through it" (ratelimiter.go:141-143).                             *)
GrantsPerWindow ==
    \A i, j \in DOMAIN grants : i < j => Spacing * (j - i + 1) <= Spacing * Burst + (grants[j] - grants[i])
==============================================================================
