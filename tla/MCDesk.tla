-------------------------------- MODULE MCDesk --------------------------------
(* An instance of Desk for model checking. *)
EXTENDS Desk

Owners == [d1 |-> "a1", d2 |-> "a1", d3 |-> "a2"]

Line(tx, paid, cur) == [tx |-> tx, paid |-> paid, cur |-> cur]
Word(tx, status, commission, cur, at, ref) ==
    [tx |-> tx, status |-> status, commission |-> commission, cur |-> cur, at |-> at, ref |-> ref]

(* A statement of two payments, and one that pays a transaction twice. *)
Documents ==
    << [lines |-> <<Line(1, 10, "eur"), Line(2, 5, "eur")>>, from |-> 1, to |-> 3],
       [lines |-> <<Line(1, 10, "eur"), Line(1, 5, "eur")>>, from |-> 1, to |-> 3] >>

(* Reports that are paid in full, short, in another currency, not at all, or *)
(* not owed; the last two name no click.                                     *)
Reported ==
    { Word(1, "pending", 10, "eur", 1, TRUE), Word(1, "confirmed", 12, "usd", 1, TRUE),
      Word(1, "declined", 10, "eur", 1, TRUE), Word(3, "confirmed", 7, "eur", 2, TRUE),
      Word(2, "confirmed", 6, "eur", 4, FALSE), Word(3, "confirmed", 7, "eur", 3, FALSE) }

(* Operators, and processes that deliver the deletion, are interchangeable. *)
Interchangeable == Permutations(Operators) \cup Permutations(Handlers)

None == [requests |-> 0, decisions |-> 0, deletions |-> 0, faults |-> 0, entries |-> 0, ticks |-> 0,
         reports |-> 0, credits |-> 0, sessions |-> 0, exports |-> 0, walks |-> 0]

Empty == [request |-> <<>>, vault |-> <<>>, destination |-> <<>>, entry |-> [a \in Accounts |-> <<>>], budget |-> None]

Place(a, ref, by) == [owner |-> a, ref |-> ref, at |-> 1, verifiedBy |-> by]
Earlier == [by |-> "earlier", what |-> "checked"]
Asked(a, n) == [owner |-> a, to |-> n, state |-> "awaiting_approval", at |-> 1, early |-> TRUE]

(* Members with a verified destination each, and two withdrawals of the first. *)
Settled ==
    [Empty EXCEPT !.vault = <<"iban", "iban">>,
                  !.destination = <<Place("a1", 1, Earlier), Place("a2", 2, Earlier)>>,
                  !.request = <<Asked("a1", 1), Asked("a1", 1)>>]

Unverified ==
    [Empty EXCEPT !.vault = <<"iban", "iban">>,
                  !.destination = <<Place("a1", 1, NoOne), Place("a2", 2, NoOne)>>]

(* What is exercised together: a member's devices against a deletion; a      *)
(* deletion of a member with withdrawals in flight, delivered twice;         *)
(* destinations offered, verified and withdrawn to; statements against       *)
(* reports that are superseded; operators against each other over the queue, *)
(* the differences and the destinations; each list, read while it changes.   *)
Exercises ==
    { [Empty EXCEPT !.budget = [None EXCEPT !.requests = 3, !.ticks = 1]],
      [Empty EXCEPT !.budget = [None EXCEPT !.requests = 2, !.deletions = 1, !.ticks = 1, !.faults = 1]],
      [Settled EXCEPT !.budget = [None EXCEPT !.requests = 1, !.deletions = 1, !.faults = 1, !.decisions = 2]],
      [Empty EXCEPT !.budget = [None EXCEPT !.requests = 3, !.faults = 1, !.sessions = 1]],
      [Unverified EXCEPT !.budget = [None EXCEPT !.requests = 1, !.sessions = 2, !.faults = 1]],
      [Empty EXCEPT !.budget = [None EXCEPT !.reports = 3, !.sessions = 2]],
      [Empty EXCEPT !.budget = [None EXCEPT !.reports = 1, !.sessions = 3]],
      [Empty EXCEPT !.budget = [None EXCEPT !.reports = 2, !.credits = 1, !.sessions = 2, !.faults = 1]],
      [Empty EXCEPT !.budget = [None EXCEPT !.reports = 2, !.sessions = 1, !.credits = 1, !.ticks = 1, !.walks = 1]],
      [Empty EXCEPT !.budget = [None EXCEPT !.reports = 3, !.credits = 1, !.ticks = 1, !.walks = 1]],
      [Settled EXCEPT !.budget = [None EXCEPT !.requests = 1, !.decisions = 1, !.ticks = 1, !.walks = 2]],
      [Unverified EXCEPT !.budget = [None EXCEPT !.requests = 1, !.sessions = 1, !.ticks = 1, !.walks = 1]],
      [Empty EXCEPT !.budget = [None EXCEPT !.entries = 4, !.walks = 1]],
      [Empty EXCEPT !.budget = [None EXCEPT !.sessions = 2, !.ticks = 2, !.exports = 2]] }
==============================================================================
