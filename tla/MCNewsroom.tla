------------------------------ MODULE MCNewsroom ------------------------------
(* An instance of Editorial for model checking. *)
EXTENDS Editorial

Entry(link, guid, title, text) ==
    [link |-> link, alt |-> 0, guid |-> guid, title |-> title, content |-> text, summary |-> 0]

(* The first location states an ETag, the second Last-Modified.  Its second  *)
(* edition repeats a text and adds one entry without text, one with its guid *)
(* for a link, and one without a title.                                      *)
Feed1 == <<{Entry(1, 1, 1, 11)}, {Entry(1, 1, 1, 11), Entry(2, 2, 1, 12)}>>
Feed2 == <<{Entry(3, 3, 1, 21)}, {Entry(0, 4, 0, 22), Entry(5, 5, 1, 0)}>>
Content == <<Feed1, Feed2>>
Dates == <<<<1, 2>>, <<1, 2>>>>

Spoken == <<"en", "de">>
Readers == <<"el", "de">>

(* Pollers, workers and editors are interchangeable. *)
Interchangeable == Permutations(Replicas) \cup Permutations(Workers) \cup Permutations(Editors)

None == [editions |-> 0, polls |-> 0, faults |-> 0, patches |-> 0, cycles |-> 0, months |-> 0,
         requests |-> 0, demotions |-> 0, ticks |-> 0, walks |-> 0]

Item(at, s, text, title) == [src |-> s, body |-> text, title |-> title, terms |-> 1, at |-> at]

Begin(rows, stock, done, steps) ==
    [sources |-> rows, items |-> stock, budget |-> steps,
     translation |-> {[pair |-> p, spent |-> Nothing] : p \in done}]

Stock == {Item(1, 1, 11, 1), Item(2, 2, 21, 1)}

(* What is exercised together: two pollers and an editor of the sources;     *)
(* two cycles over a stock of items; editors against each other; a reader or *)
(* an editor paging through decisions; and a cycle over a changing stock.    *)
Exercises ==
    { Begin(<<1, 2>>, {}, {}, [None EXCEPT !.editions = 1, !.polls = 2, !.faults = 1]),
      Begin(<<2>>, {}, {}, [None EXCEPT !.editions = 1, !.polls = 2, !.faults = 2]),
      Begin(<<1>>, {}, {}, [None EXCEPT !.editions = 1, !.polls = 2, !.requests = 2, !.patches = 2]),
      Begin(<<1, 2>>, {}, {}, [None EXCEPT !.requests = 2, !.patches = 2, !.walks = 1]),
      Begin(<<1, 2>>, Stock, {}, [None EXCEPT !.cycles = 2]),
      Begin(<<1>>, {Item(1, 1, 11, 1)}, {}, [None EXCEPT !.cycles = 2, !.months = 1]),
      Begin(<<1, 2>>, Stock, {<<2, "el">>}, [None EXCEPT !.cycles = 2, !.faults = 1]),
      Begin(<<1, 2>>, Stock, {}, [None EXCEPT !.requests = 3, !.faults = 1, !.demotions = 1, !.ticks = 2]),
      Begin(<<1, 2>>, Stock, {<<1, "de">>}, [None EXCEPT !.requests = 3, !.walks = 1]),
      Begin(<<1, 2>>, Stock, {<<1, "de">>, <<2, "el">>}, [None EXCEPT !.requests = 2, !.ticks = 1, !.walks = 1]),
      Begin(<<2>>, {}, {}, [None EXCEPT !.polls = 1, !.cycles = 1, !.requests = 1]),
      Begin(<<1>>, {Item(1, 1, 11, 1)}, {}, [None EXCEPT !.cycles = 1, !.requests = 2, !.patches = 1, !.demotions = 1]) }
==============================================================================
