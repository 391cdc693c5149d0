--------------------------------- MODULE Feeds ---------------------------------
(***************************************************************************)
(* Feed ingestion (internal/ingestion) and the editors' register of        *)
(* sources (internal/editorial: sources).                                  *)
(*                                                                         *)
(* Every replica runs the poll loop and one at a time holds the poll lock. *)
(* A cycle lists the active sources that are due, asks each for what       *)
(* changed since the validators on its row, records the entries one        *)
(* transaction each, and then writes the outcome on the row.  The process  *)
(* may die between any two of these, the lock's session may die under a    *)
(* cycle that goes on, and editors change and delete rows meanwhile.       *)
(***************************************************************************)
EXTENDS Integers, FiniteSets, Sequences, SequencesExt

CONSTANTS
    Sources,        \* ids of source rows
    Urls,           \* feed locations
    Editions,       \* [Urls -> the editions, each a set of entries as the feed gives them]
    Stamp,          \* [Urls -> when each edition was published: Last-Modified]
    StatesETag,     \* the locations that state an ETag, the others Last-Modified
    Terms,          \* licence terms
    Replicas,
    MaxAttempts,
    NoOne,
    Beginnings      \* where the checked behaviours start, and how many of each event they hold

(* A location's later edition has a later Last-Modified: the publisher's part. *)
ASSUME StampsIncrease ==
    /\ Stamp \in [Urls -> Seq(Nat \ {0})]
    /\ \A u \in Urls : /\ Len(Editions[u]) = Len(Stamp[u])
                       /\ Stamp[u] # <<>>
                       /\ \A i, j \in DOMAIN Stamp[u] : i < j => Stamp[u][i] < Stamp[u][j]

(* The tables a behaviour starts with: every item has its source, and items *)
(* are numbered in the order of their retrieval.                            *)
ASSUME FeedAssumption ==
    /\ IsFiniteSet(Sources)
    /\ \A b \in Beginnings :
          /\ DOMAIN b.sources \subseteq Sources
          /\ \A s \in DOMAIN b.sources : b.sources[s] \in Urls
          /\ IsFiniteSet(b.items)
          /\ \A i \in b.items : i.src \in DOMAIN b.sources /\ i.at \in 1..Cardinality(b.items)
          /\ \A i, j \in b.items : i.at = j.at => i = j

VARIABLES
    source,     \* the source table
    items,      \* the source_item table
    edition,    \* the edition each location serves
    poll,       \* each replica's cycle
    holder,     \* the replica whose session holds the poll lock
    moved,      \* the sources whose url was patched or whose row was deleted
    said,       \* the domain events the step just taken recorded
    budget      \* how many of each event may still happen (a bound)

feedVars == <<source, items, edition, poll, holder, moved>>

NoRow == [url |-> NoOne]
NoTag == <<>>
Exists(s) == source[s] # NoRow
Row(u, terms) == [url |-> u, active |-> TRUE, terms |-> terms, etag |-> NoTag, stamp |-> 0, due |-> TRUE]

Asleep == [st |-> "asleep", todo |-> <<>>, tries |-> 0, left |-> {}, etag |-> NoTag, stamp |-> 0]

Silent == [what |-> {}, who |-> NoOne]
Says(what, who) == said' = [what |-> what, who |-> who]
Quiet == said' = Silent

Spend(what) == budget[what] > 0 /\ budget' = [budget EXCEPT ![what] = @ - 1]

FeedInit ==
    /\ \E b \in Beginnings :
          /\ source = [s \in Sources |-> IF s \in DOMAIN b.sources THEN Row(b.sources[s], 1) ELSE NoRow]
          /\ items = b.items
          /\ budget = b.budget
    /\ edition = [u \in Urls |-> 1]
    /\ poll = [r \in Replicas |-> Asleep]
    /\ holder = NoOne
    /\ moved = {}
    /\ said = Silent

---------------------------------------------------------------------------------
(* The publisher: a new edition replaces the one before, and a conditional  *)
(* request is answered from the validators it carries: If-None-Match        *)
(* before If-Modified-Since.                                                *)
FeedMoves(u) ==
    /\ Spend("editions")
    /\ edition[u] < Len(Editions[u])
    /\ edition' = [edition EXCEPT ![u] = @ + 1]
    /\ Quiet
    /\ UNCHANGED <<source, items, poll, holder, moved>>

NotModified(u, etag, stamp) ==
    IF etag # NoTag
    THEN u \in StatesETag /\ etag = <<u, edition[u]>>
    ELSE stamp # 0 /\ Stamp[u][edition[u]] <= stamp

---------------------------------------------------------------------------------
(* An entry as retrieved: its link, or another of its links, or its guid when *)
(* that is a location; its text, or the summary.  0 is blank.               *)
linkOf(x) == IF x.link # 0 THEN x.link ELSE IF x.alt # 0 THEN x.alt ELSE x.guid
normalise(x) == [link |-> linkOf(x), title |-> x.title, body |-> IF x.content # 0 THEN x.content ELSE x.summary]
ParseFeed(u) == {normalise(x) : x \in Editions[u][edition[u]]}
Validate(n) == n.link # 0 /\ n.body # 0

Waiting(s) == Exists(s) /\ source[s].active /\ source[s].due

(* The ways to list a set in an order. *)
Listings(S, precedes(_, _)) ==
    {list \in SetToSeqs(S) : \A i, j \in DOMAIN list : i < j => precedes(list[i], list[j])}

(* The due sources in the order of their location, each as its row was read. *)
ListActiveSources ==
    Listings({[id |-> s, row |-> source[s]] : s \in {x \in Sources : Waiting(x)}},
             LAMBDA a, b : a.row.url < b.row.url)

(* The lock is tried; a replica that does not get it skips its cycle. *)
PollOnce(r) ==
    /\ Spend("polls")
    /\ poll[r] = Asleep
    /\ holder = NoOne
    /\ holder' = r
    /\ \E list \in ListActiveSources :
          /\ list # <<>>
          /\ poll' = [poll EXCEPT ![r] = [Asleep EXCEPT !.st = "fetch", !.todo = list]]
    /\ Quiet
    /\ UNCHANGED <<source, items, edition, moved>>

(* What one attempt may meet: no answer in time or an unreachable host, a   *)
(* refusal as too frequent with an ask within the waiting cap or over it, a *)
(* refusal or a document that is no feed, and an answer.                    *)
Failures == {"down", "busy", "busyLong", "refused"}
retryableFetch(k) == k \in {"down", "busy", "busyLong"}
overCap(k) == k = "busyLong"
GivesUp(r, k) == poll[r].tries + 1 = MaxAttempts \/ overCap(k) \/ ~ retryableFetch(k)

Asked(r) == poll[r].todo[1]

(* Failed exchange: another attempt, or an outcome that refreshes nothing. *)
AttemptFails(r) ==
    /\ Spend("faults")
    /\ poll[r].st = "fetch"
    /\ \E k \in Failures :
          poll' = [poll EXCEPT ![r].tries = IF GivesUp(r, k) THEN 0 ELSE @ + 1,
                               ![r].st = IF GivesUp(r, k) THEN "outcome" ELSE @,
                               ![r].etag = Asked(r).row.etag,
                               ![r].stamp = Asked(r).row.stamp]
    /\ Quiet
    /\ UNCHANGED <<source, items, edition, holder, moved>>

(* A validator the answer does not state keeps the one on the row. *)
refreshedValidators(r, u) ==
    [etag |-> IF u \in StatesETag THEN <<u, edition[u]>> ELSE Asked(r).row.etag,
     stamp |-> IF u \in StatesETag THEN Asked(r).row.stamp ELSE Stamp[u][edition[u]]]

Attempt(r) ==
    /\ poll[r].st = "fetch"
    /\ LET row == Asked(r).row
           unchanged == NotModified(row.url, row.etag, row.stamp)
           next == refreshedValidators(r, row.url)
       IN  poll' = [poll EXCEPT ![r].tries = 0,
                                ![r].st = IF unchanged THEN "outcome" ELSE "record",
                                ![r].left = IF unchanged THEN {} ELSE ParseFeed(row.url),
                                ![r].etag = next.etag,
                                ![r].stamp = next.stamp]
    /\ Quiet
    /\ UNCHANGED <<source, items, edition, holder, moved, budget>>

---------------------------------------------------------------------------------
isDuplicateItem(s, n) == \E i \in items : i.src = s /\ i.body = n.body

(* One entry, one transaction: the row with the source's terms as they stand *)
(* and its event.  An unusable entry is stepped over, a known text is a     *)
(* duplicate, and a row whose source is gone is refused by its foreign key. *)
RecordRetrieval(r, n) ==
    LET s == Asked(r).id
    IN  IF ~ Validate(n) \/ isDuplicateItem(s, n)
        THEN UNCHANGED items /\ Quiet
        ELSE /\ items' = items \cup {[src |-> s, body |-> n.body, title |-> n.title,
                                       terms |-> source[s].terms, at |-> Cardinality(items) + 1]}
             /\ Says({"item.retrieved"}, r)

recordItems(r) ==
    /\ poll[r].st = "record"
    /\ \E n \in poll[r].left :
          /\ Validate(n) => Exists(Asked(r).id)
          /\ RecordRetrieval(r, n)
          /\ poll' = [poll EXCEPT ![r].left = @ \ {n}]
    /\ UNCHANGED <<source, edition, holder, moved, budget>>

(* Mutant: a failed write leaves the refreshed validators in the outcome. *)
Unrefreshed_Kept(r) == poll[r]

(* The outcome of a cycle's writes that failed: the validators stay the stored ones. *)
Unrefreshed(r) == [poll[r] EXCEPT !.etag = Asked(r).row.etag, !.stamp = Asked(r).row.stamp]

RecordingFails(r) ==
    /\ poll[r].st = "record"
    /\ \E n \in poll[r].left : Validate(n)
    /\ \/ ~ Exists(Asked(r).id) /\ UNCHANGED budget
       \/ Spend("faults")
    /\ poll' = [poll EXCEPT ![r] = [Unrefreshed(r) EXCEPT !.st = "outcome", !.left = {}]]
    /\ Quiet
    /\ UNCHANGED <<source, items, edition, holder, moved>>

Recorded(r) ==
    /\ poll[r].st = "record"
    /\ poll[r].left = {}
    /\ poll' = [poll EXCEPT ![r].st = "outcome"]
    /\ Quiet
    /\ UNCHANGED <<source, items, edition, holder, moved, budget>>

(* The next source, or the end of the cycle and of the lock if it is still held. *)
pollNext(r) ==
    IF Len(poll[r].todo) > 1
    THEN /\ poll' = [poll EXCEPT ![r] = [Asleep EXCEPT !.st = "fetch", !.todo = Tail(poll[r].todo)]]
         /\ UNCHANGED holder
    ELSE /\ poll' = [poll EXCEPT ![r] = Asleep]
         /\ holder' = IF holder = r THEN NoOne ELSE holder

(* The outcome on the row: validators, and the time before which it is not  *)
(* polled again.  A row that is gone takes no outcome.                      *)
RecordPollOutcome(r) ==
    /\ poll[r].st = "outcome"
    /\ LET s == Asked(r).id
       IN  source' = IF Exists(s)
                     THEN [source EXCEPT ![s].etag = poll[r].etag, ![s].stamp = poll[r].stamp, ![s].due = FALSE]
                     ELSE source
    /\ pollNext(r)
    /\ Quiet
    /\ UNCHANGED <<items, edition, moved, budget>>

OutcomeFails(r) ==
    /\ Spend("faults")
    /\ poll[r].st = "outcome"
    /\ pollNext(r)
    /\ Quiet
    /\ UNCHANGED <<source, items, edition, moved>>

(* The interval, or the time the source asked for, passes. *)
FallsDue(s) ==
    /\ Exists(s)
    /\ ~ source[s].due
    /\ source' = [source EXCEPT ![s].due = TRUE]
    /\ Quiet
    /\ UNCHANGED <<items, edition, poll, holder, moved, budget>>

(* The replica dies or is told to stop, and its session with it. *)
PollerStops(r) ==
    /\ Spend("faults")
    /\ poll[r] # Asleep
    /\ poll' = [poll EXCEPT ![r] = Asleep]
    /\ holder' = IF holder = r THEN NoOne ELSE holder
    /\ Quiet
    /\ UNCHANGED <<source, items, edition, moved>>

(* The session that holds the lock dies; the cycle does not notice. *)
LockDies ==
    /\ Spend("faults")
    /\ holder # NoOne
    /\ holder' = NoOne
    /\ Quiet
    /\ UNCHANGED <<source, items, edition, poll, moved>>

---------------------------------------------------------------------------------
Taken(u) == \E s \in Sources : Exists(s) /\ source[s].url = u

(* A row's id is new: it was never another row's. *)
CreateSource(s, u) ==
    /\ Spend("patches")
    /\ ~ Exists(s)
    /\ s \notin moved
    /\ ~ Taken(u)
    /\ source' = [source EXCEPT ![s] = Row(u, 1)]
    /\ Quiet
    /\ UNCHANGED <<items, edition, poll, holder, moved>>

(* One patch of one field, and its event when the row really changed. *)
UpdateSource(s, e) ==
    /\ Spend("patches")
    /\ Exists(s)
    /\ \/ /\ source' = [source EXCEPT ![s].active = ~ @]
          /\ UNCHANGED moved
       \/ \E u \in Urls : /\ ~ Taken(u)
                          /\ source' = [source EXCEPT ![s].url = u]
                          /\ moved' = moved \cup {s}
       \/ \E t \in Terms : /\ source' = [source EXCEPT ![s].terms = t]
                           /\ UNCHANGED moved
    /\ IF source' # source THEN Says({"source.updated"}, e) ELSE Quiet
    /\ UNCHANGED <<items, edition, poll, holder>>

(* Mutant: a source is deleted whatever refers to it. *)
CountSourceEvidence_None(s) == 0

CountSourceEvidence(s) == Cardinality({i \in items : i.src = s})

(* Refused while retrieved items refer to the row. *)
DeleteSource(s) ==
    /\ Spend("patches")
    /\ Exists(s)
    /\ CountSourceEvidence(s) = 0
    /\ source' = [source EXCEPT ![s] = NoRow]
    /\ moved' = moved \cup {s}
    /\ Quiet
    /\ UNCHANGED <<items, edition, poll, holder>>

PollStep(r) ==
    \/ PollOnce(r)
    \/ AttemptFails(r)
    \/ Attempt(r)
    \/ recordItems(r)
    \/ RecordingFails(r)
    \/ Recorded(r)
    \/ RecordPollOutcome(r)
    \/ OutcomeFails(r)
    \/ PollerStops(r)

---------------------------------------------------------------------------------
(* The validators on a row vouch for no more than is on record: when the    *)
(* publisher would answer them with "not modified", every usable entry of   *)
(* the edition it serves has been stored for the source, whatever failed,   *)
(* died or overlapped between the fetch and the outcome.  A source whose    *)
(* location was patched keeps the validators of the old one and is left out. *)
ValidatorsVouch ==
    \A s \in Sources \ moved :
        (Exists(s) /\ NotModified(source[s].url, source[s].etag, source[s].stamp))
            => \A n \in ParseFeed(source[s].url) : Validate(n) => isDuplicateItem(s, n)
==============================================================================
