------------------------------ MODULE MCMarket -------------------------------
(* An instance of Market for model checking. *)
EXTENDS Market

CONSTANTS n1, n2, c1, c2, c3, c4

Callers == Permutations(Calls)

(* Two networks carry one retailer, a second programme of the first network *)
(* has the same name, and a fourth has a name that forms no slug.           *)
Carriers == <<n1, n2, n1, n2>>
Names == <<2, 2, 2, 0>>
Fallbacks == <<5, 6, 1, 3>>

Senders == <<1, 1, 1, 2>>
Devices == <<0, 7, 7, 7>>

None == [imports |-> 0, moves |-> 0, faults |-> 0, walks |-> 0, publishes |-> 0,
         requests |-> 0, leaves |-> 0, ticks |-> 0, calls |-> 0]

Begin(up, steps) ==
    [standing |-> [p \in Programmes |-> IF p \in up THEN "active" ELSE "out"], budget |-> steps]

(* What is exercised together: imports against each other and the network's *)
(* moves; a reader paging through imports; click-outs against each other;   *)
(* a click-out against the bands, the member and the switch it has read,    *)
(* and against the import that withdraws its route; and calls to a network. *)
Exercises ==
    { Begin({1, 2}, [None EXCEPT !.imports = 3, !.moves = 2, !.faults = 1]),
      Begin({1, 3, 4}, [None EXCEPT !.imports = 2, !.moves = 2, !.walks = 1]),
      Begin({1}, [None EXCEPT !.imports = 1, !.publishes = 1, !.requests = 4, !.ticks = 2, !.faults = 1]),
      Begin({1, 2}, [None EXCEPT !.imports = 1, !.moves = 1, !.publishes = 2, !.requests = 1, !.leaves = 1]),
      Begin({1, 2}, [None EXCEPT !.imports = 2, !.moves = 1, !.publishes = 1, !.requests = 1]),
      Begin({}, [None EXCEPT !.calls = 1]) }

CallsOnly == { Begin({}, [None EXCEPT !.calls = 1]) }
==============================================================================
