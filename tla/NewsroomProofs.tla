---------------------------- MODULE NewsroomProofs ----------------------------
(***************************************************************************)
(* Feeds, Translations and Editorial, for every set of sources, pollers,   *)
(* translators and editors: what validators vouch for is stored, the       *)
(* month's ledger is whole and its cap holds, no pair is paid for twice,   *)
(* decisions are editors' and articles are traced to their sources.        *)
(***************************************************************************)
EXTENDS Editorial, Sums, SequenceTheorems

------------------------------------------------------------------------------
(* The inductive invariant of the feeds.                                   *)

Tags == {NoTag} \cup (Urls \X Nat)
SourceRow == [url : Urls, active : BOOLEAN, terms : Terms \cup {1}, etag : Tags, stamp : Nat, due : BOOLEAN]
RowRead == [id : Sources, row : SourceRow]
Entries == UNION {UNION {Editions[u][k] : k \in 1..Len(Editions[u])} : u \in Urls}
Notes == {normalise(x) : x \in Entries}
PollState == [st : {"asleep", "fetch", "record", "outcome"}, todo : Seq(RowRead), tries : Nat,
              left : SUBSET Notes, etag : Tags, stamp : Nat]

FeedTypes ==
    /\ source \in [Sources -> {NoRow} \cup SourceRow]
    /\ edition \in [Urls -> Nat]
    /\ \A u \in Urls : edition[u] \in 1..Len(Editions[u])
    /\ poll \in [Replicas -> PollState]
    /\ \A r \in Replicas : poll[r].st # "asleep" => poll[r].todo # <<>>

(* Items are numbered, and the source of each is there. *)
ItemsKept ==
    /\ IsFiniteSet(items)
    /\ \A i \in items : i.src \in Sources /\ Exists(i.src) /\ i.at \in 1..Cardinality(items)
    /\ \A i, j \in items : i.at = j.at => i = j

(* The validators name edition k of a location. *)
Names(u, etag, stamp, k) ==
    IF u \in StatesETag THEN etag = <<u, k>> /\ stamp = 0
                        ELSE etag = NoTag /\ stamp = Stamp[u][k]

(* The usable entries of edition k are stored, but for those in left. *)
Stored(s, u, k, left) ==
    \A x \in Editions[u][k] :
        Validate(normalise(x)) => isDuplicateItem(s, normalise(x)) \/ normalise(x) \in left

(* Validators that are blank, or name an edition that was served and stored. *)
Vouched(s, u, etag, stamp) ==
    \/ etag = NoTag /\ stamp = 0
    \/ \E k \in 1..edition[u] : Names(u, etag, stamp, k) /\ Stored(s, u, k, {})

(* A row as it was read, of a source that has not been patched or deleted since. *)
Faithful(x) ==
    x.id \notin moved =>
        /\ Exists(x.id)
        /\ source[x.id].url = x.row.url
        /\ Vouched(x.id, x.row.url, x.row.etag, x.row.stamp)

(* What a cycle that has fetched is about to write. *)
Fetched(r) ==
    /\ (poll[r].st = "outcome" /\ Asked(r).id \notin moved) =>
           Vouched(Asked(r).id, Asked(r).row.url, poll[r].etag, poll[r].stamp)
    /\ (poll[r].st = "record" /\ Asked(r).id \notin moved) =>
           \E k \in 1..edition[Asked(r).row.url] :
              /\ Names(Asked(r).row.url, poll[r].etag, poll[r].stamp, k)
              /\ Stored(Asked(r).id, Asked(r).row.url, k, poll[r].left)

VouchInv ==
    /\ \A s \in Sources \ moved : Exists(s) => Vouched(s, source[s].url, source[s].etag, source[s].stamp)
    /\ \A r \in Replicas : \A k \in 1..Len(poll[r].todo) : Faithful(poll[r].todo[k])
    /\ \A r \in Replicas : Fetched(r)

FeedInv == FeedTypes /\ ItemsKept /\ VouchInv

------------------------------------------------------------------------------
(* The inductive invariant of the translations.                            *)

PairSet == Nat \X ToSet(ReaderLocales)
Spending == [cost : Nat, unmetered : Nat]
Kinds == {"none", "ok", "unusable", "opaque", "timeout", "busy", "auth", "badRequest"}
CycleState == [st : {"resting", "list", "walk", "call", "settle"}, todo : Seq(PairSet), short : BOOLEAN,
               after : Nat, calls : Nat, month : 0..2, live : BOOLEAN, tries : Nat, answer : Kinds, spent : Spending]

CycleTypes ==
    /\ cycle \in [Workers -> CycleState]
    /\ \A w \in Workers : Calling(w) => cycle[w].todo # <<>> /\ cycle[w].month \in Months
    /\ \A w \in Workers : ~ Calling(w) => cycle[w].spent = Nothing
    /\ month \in Months
    /\ spend \in [Months -> [total : Spending, halted : BOOLEAN]]
    /\ billed \in [Months -> Spending]
    /\ lost \in [Months -> Spending]

(* Pairs are pairs of items on record, and a pair is translated once. *)
PairsKept ==
    /\ \A w \in Workers : \A k \in 1..Len(cycle[w].todo) : \E i \in items : i.at = cycle[w].todo[k][1]
    /\ \A t \in translation : t.pair \in PairSet /\ \E i \in items : i.at = t.pair[1]
    /\ \A t, v \in translation : t.pair = v.pair => t = v

(* Only the last attempt of a call is priced. *)
CostsBounded ==
    \A w \in Workers : /\ cycle[w].st = "call" => cycle[w].spent.cost = 0
                       /\ cycle[w].st = "settle" => cycle[w].spent.cost <= Max(Costs)

(* Each worker that has no call open has taken the month past its cap by one call at most. *)
CapKept ==
    \A m \in Months :
        spend[m].total.cost <= Monthly - 1 + Cardinality(Workers \ OpenCalls(m)) * Max(Costs)

LedgerKept ==
    \A m \in Months : /\ Plus(Plus(spend[m].total, lost[m]), Outstanding(m)) = billed[m]
                      /\ Reached(spend[m].total) => spend[m].halted

TranslationInv == CycleTypes /\ PairsKept /\ CostsBounded /\ CapKept /\ LedgerKept /\ PaidOnce

------------------------------------------------------------------------------
(* The inductive invariant of the desk.                                    *)

Languages == {LanguageOf[s] : s \in Sources} \cup ToSet(ReaderLocales)
ArticleRow == [origin : Nat \X Languages, approvedBy : Editors, approvedAt : Nat,
               places : SUBSET (Places \cup {NoOne}), published : Nat,
               withdrawnBy : Editors \cup {NoOne}, withdrawnAt : Nat]

EditorialTypes ==
    /\ role \in [Editors -> {"editor", "reader"}]
    /\ article \in Seq(ArticleRow)
    /\ desk = [e \in Editors |-> desk[e]]
    /\ clock \in Nat

(* What a request that has begun knows of is older than the request. *)
Begun(e) ==
    /\ desk[e].now \in Nat /\ desk[e].now <= clock
    /\ desk[e].knows \in 0..Len(article)
    /\ \A a \in 1..desk[e].knows : article[a].approvedAt <= desk[e].now

BegunKept == \A e \in Editors : desk[e].st = "begun" => Begun(e)

(* What an open decision was made on still holds. *)
Stands(e) ==
    LET d == desk[e]
    IN  /\ d.now \in Nat /\ d.now <= clock
        /\ d.what \in {"approve", "publish", "withdraw"}
        /\ d.what = "approve" => /\ d.on \in Origins
                                 /\ d.detail \in [places : SUBSET (Places \cup {NoOne}), publish : BOOLEAN]
        /\ d.what # "approve" => d.on \in Ids
        /\ d.what = "publish" => article[d.on].published = 0 /\ article[d.on].approvedAt <= d.now
        /\ d.what = "withdraw" => Visible(d.on) /\ article[d.on].published <= d.now

DecisionsKept ==
    /\ \A e \in Editors : Open(e) => role[e] = "editor" /\ Stands(e)
    /\ \A e, f \in Editors :
          (Open(e) /\ Open(f) /\ desk[e].what # "approve" /\ desk[f].what # "approve" /\ desk[e].on = desk[f].on)
              => e = f

(* An article's timeline, and what it was made of. *)
ArticlesKept ==
    \A a \in Ids : /\ article[a].origin \in Origins
                   /\ article[a].approvedAt <= clock
                   /\ article[a].published # 0 => article[a].published >= article[a].approvedAt
                   /\ ~ Active(a) => article[a].published # 0 /\ article[a].withdrawnAt >= article[a].published

EditorialInv == EditorialTypes /\ BegunKept /\ DecisionsKept /\ ArticlesKept /\ DecidedByEditors

Inv == FeedInv /\ TranslationInv /\ EditorialInv

------------------------------------------------------------------------------
(* Helpers.                                                                *)

(* A listing of a finite set is a sequence of its members. *)
LEMMA ListingOf ==
    ASSUME NEW S, IsFiniteSet(S), NEW list \in SetToSeqs(S)
    PROVE  list \in Seq(S) /\ \A k \in 1..Len(list) : list[k] \in S
<1>1. Cardinality(S) \in Nat
  BY FS_CardinalityType
<1>2. list \in [1..Cardinality(S) -> S]
  BY DEF SetToSeqs
<1> QED  BY <1>1, <1>2

(* The image of a finite set is finite. *)
LEMMA ImageFinite ==
    ASSUME NEW S, IsFiniteSet(S), NEW f
    PROVE  IsFiniteSet({f[x] : x \in S})
<1> DEFINE T == {f[x] : x \in S}
           g == [x \in S |-> f[x]]
<1>1. g \in [S -> T] /\ \A t \in T : \E x \in S : g[x] = t
  OBVIOUS
<1>2. g \in Surjection(S, T)
  BY <1>1 DEF Surjection
<1> HIDE DEF T, g
<1>3. IsFiniteSet(T)
  BY <1>2, FS_Surjection
<1> QED  BY <1>3 DEF T

(* A sequence with a length is not the empty one. *)
LEMMA NotEmpty ==
    ASSUME NEW S, NEW t \in Seq(S), Len(t) > 0
    PROVE  t # <<>>
<1>1. Len(<<>>) = 0
  OBVIOUS
<1> QED  BY <1>1

(* The members of a sequence's tail are its own. *)
LEMMA TailOf ==
    ASSUME NEW S, NEW s \in Seq(S), s # <<>>
    PROVE  /\ Tail(s) \in Seq(S)
           /\ Len(Tail(s)) = Len(s) - 1
           /\ Len(s) \in Nat \ {0}
           /\ s[1] \in S
           /\ \A k \in 1..Len(Tail(s)) : k + 1 \in 1..Len(s) /\ Tail(s)[k] = s[k + 1]
OBVIOUS

(* A step of the feeds or of the editors' register of sources. *)
RegisterStep ==
    \E s \in Sources : \/ \E e \in Editors : UpdateSource(s, e)
                       \/ DeleteSource(s)
                       \/ \E u \in Urls : CreateSource(s, u)

FeedAction ==
    \/ \E r \in Replicas : PollStep(r)
    \/ LockDies
    \/ \E u \in Urls : FeedMoves(u)
    \/ \E s \in Sources : FallsDue(s)
    \/ RegisterStep

(* What a validator the publisher states may be. *)
LEMMA EditionServed ==
    ASSUME FeedTypes, NEW u \in Urls
    PROVE  /\ Stamp[u] \in Seq(Nat \ {0}) /\ Len(Stamp[u]) \in Nat
           /\ edition[u] \in DOMAIN Stamp[u]
           /\ edition[u] \in Nat \ {0}
           /\ Stamp[u][edition[u]] \in Nat \ {0}
           /\ <<u, edition[u]>> \in Tags
           /\ ParseFeed(u) \subseteq Notes
<1>1. Stamp[u] \in Seq(Nat \ {0}) /\ Len(Editions[u]) = Len(Stamp[u])
  BY StampsIncrease
<1>2. edition[u] \in 1..Len(Editions[u]) /\ edition[u] \in Nat
  BY DEF FeedTypes
<1>3. edition[u] \in DOMAIN Stamp[u] /\ edition[u] # 0 /\ Len(Stamp[u]) \in Nat
  BY <1>1, <1>2
<1>4. Stamp[u][edition[u]] \in Nat \ {0}
  BY <1>1, <1>3
<1>5. Editions[u][edition[u]] \subseteq Entries
  BY <1>2 DEF Entries
<1>6. ParseFeed(u) \subseteq Notes
  BY <1>5 DEF ParseFeed, Notes
<1> QED  BY <1>1, <1>2, <1>3, <1>4, <1>6 DEF Tags

(* The row a cycle is at. *)
LEMMA AskedRow ==
    ASSUME FeedTypes, NEW r \in Replicas, poll[r].st # "asleep"
    PROVE  /\ poll[r] \in PollState
           /\ Asked(r) \in RowRead
           /\ Asked(r).id \in Sources
           /\ Asked(r).row \in SourceRow
           /\ Asked(r).row.url \in Urls
           /\ Asked(r).row.etag \in Tags
           /\ Asked(r).row.stamp \in Nat
           /\ Len(poll[r].todo) \in Nat \ {0}
<1>1. poll[r] \in PollState
  BY DEF FeedTypes
<1>2. poll[r].todo \in Seq(RowRead) /\ poll[r].todo # <<>>
  BY <1>1 DEF FeedTypes, PollState
<1>3. poll[r].todo[1] \in RowRead /\ Len(poll[r].todo) \in Nat \ {0}
  BY <1>2, TailOf
<1>4. Asked(r) \in RowRead
  BY <1>3 DEF Asked
<1>5. Asked(r).id \in Sources /\ Asked(r).row \in SourceRow
  BY <1>4 DEF RowRead
<1>6. Asked(r).row.url \in Urls /\ Asked(r).row.etag \in Tags /\ Asked(r).row.stamp \in Nat
  BY <1>5 DEF SourceRow
<1> QED  BY <1>1, <1>3, <1>4, <1>5, <1>6

(* A row that is there is a row. *)
LEMMA RowThere ==
    ASSUME FeedTypes, NEW s \in Sources, Exists(s)
    PROVE  source[s] \in SourceRow
BY DEF FeedTypes, Exists

(* The row of a source is not the row of none. *)
LEMMA RowIsThere ==
    ASSUME NEW x \in SourceRow
    PROVE  x # NoRow
<1>1. DOMAIN x # DOMAIN NoRow
  BY DEF SourceRow, NoRow
<1> QED  BY <1>1

(* A replica between its cycles. *)
LEMMA AsleepState == Asleep \in PollState
BY EmptySeq DEF Asleep, PollState, NoTag, Tags

------------------------------------------------------------------------------
(* Types of the feeds.                                                     *)

(* A step of a cycle keeps the cycles' types, and one that is under way has a source. *)
LEMMA PollStateKept ==
    ASSUME FeedTypes, NEW r \in Replicas, PollStep(r)
    PROVE  /\ poll' \in [Replicas -> PollState]
           /\ \A q \in Replicas : poll'[q].st # "asleep" => poll'[q].todo # <<>>
<1> USE DEF FeedTypes
<1>0. poll \in [Replicas -> PollState] /\ poll[r] \in PollState
  OBVIOUS
<1>e. \A x \in PollState : (x.st # "asleep" => x.todo # <<>>) /\ poll' = [poll EXCEPT ![r] = x]
        => /\ poll' \in [Replicas -> PollState]
           /\ \A q \in Replicas : poll'[q].st # "asleep" => poll'[q].todo # <<>>
  OBVIOUS
<1>f. \A list \in Seq(RowRead) : [Asleep EXCEPT !.st = "fetch", !.todo = list] \in PollState
  BY AsleepState DEF PollState, Asleep
<1>g. \A list : /\ [Asleep EXCEPT !.st = "fetch", !.todo = list].todo = list
                /\ Asleep.st = "asleep"
  BY DEF Asleep
<1>1. CASE PollOnce(r)
  <2> DEFINE S == {[id |-> s, row |-> source[s]] : s \in {x \in Sources : Waiting(x)}}
  <2>1. PICK list \in ListActiveSources : list # <<>> /\ poll' = [poll EXCEPT ![r] = [Asleep EXCEPT !.st = "fetch", !.todo = list]]
    BY <1>1 DEF PollOnce
  <2>2. list \in SetToSeqs(S)
    BY <2>1 DEF ListActiveSources, Listings
  <2>3. IsFiniteSet(S)
    <3>1. IsFiniteSet({x \in Sources : Waiting(x)})
      BY FeedAssumption, FS_Subset
    <3> DEFINE f == [s \in {x \in Sources : Waiting(x)} |-> [id |-> s, row |-> source[s]]]
    <3>2. S = {f[s] : s \in {x \in Sources : Waiting(x)}}
      OBVIOUS
    <3> HIDE DEF S, f
    <3> QED  BY <3>1, <3>2, ImageFinite
  <2>4. S \subseteq RowRead
    BY RowThere DEF Waiting, RowRead
  <2>5. list \in Seq(RowRead)
    <3> HIDE DEF S
    <3>1. list \in Seq(S)
      BY <2>2, <2>3, ListingOf
    <3> QED  BY <3>1, <2>4
  <2> QED  BY <2>1, <2>5, <1>e, <1>f, <1>g
<1>2. CASE AttemptFails(r)
  <2>1. poll[r].st = "fetch"
    BY <1>2 DEF AttemptFails
  <2>2. Asked(r).row.etag \in Tags /\ Asked(r).row.stamp \in Nat
    BY <2>1, AskedRow
  <2>3. PICK k \in Failures :
          poll' = [poll EXCEPT ![r].tries = IF GivesUp(r, k) THEN 0 ELSE @ + 1,
                               ![r].st = IF GivesUp(r, k) THEN "outcome" ELSE @,
                               ![r].etag = Asked(r).row.etag,
                               ![r].stamp = Asked(r).row.stamp]
    BY <1>2 DEF AttemptFails
  <2> DEFINE g == GivesUp(r, k)
             a == Asked(r)
             x == [poll[r] EXCEPT !.tries = IF g THEN 0 ELSE @ + 1,
                                  !.st = IF g THEN "outcome" ELSE @,
                                  !.etag = a.row.etag,
                                  !.stamp = a.row.stamp]
  <2>5. poll' = [poll EXCEPT ![r] = x]
    BY <2>3
  <2>4. x \in PollState /\ x.todo = poll[r].todo
    <3>1. a.row.etag \in Tags /\ a.row.stamp \in Nat
      BY <2>2
    <3>2. poll[r].tries + 1 \in Nat
      BY <1>0 DEF PollState
    <3> HIDE DEF g, a
    <3> QED  BY <1>0, <3>1, <3>2 DEF PollState
  <2> HIDE DEF x
  <2> QED  BY <1>0, <2>1, <2>4, <2>5, <1>e
<1>3. CASE Attempt(r)
  <2> DEFINE row == Asked(r).row
             same == NotModified(row.url, row.etag, row.stamp)
             next == refreshedValidators(r, row.url)
             x == [poll[r] EXCEPT !.tries = 0,
                                  !.st = IF same THEN "outcome" ELSE "record",
                                  !.left = IF same THEN {} ELSE ParseFeed(row.url),
                                  !.etag = next.etag,
                                  !.stamp = next.stamp]
  <2>1. poll[r].st = "fetch"
    BY <1>3 DEF Attempt
  <2>2. row.url \in Urls /\ row.etag \in Tags /\ row.stamp \in Nat
    BY <2>1, AskedRow
  <2>3. next.etag \in Tags /\ next.stamp \in Nat
    BY <2>2, EditionServed DEF refreshedValidators
  <2>4. ParseFeed(row.url) \subseteq Notes
    BY <2>2, EditionServed
  <2>5. poll' = [poll EXCEPT ![r] = x]
    BY <1>3 DEF Attempt
  <2> HIDE DEF row, same, next
  <2>6. x \in PollState /\ x.todo = poll[r].todo
    BY <1>0, <2>3, <2>4 DEF PollState
  <2> HIDE DEF x
  <2> QED  BY <1>0, <2>1, <2>5, <2>6, <1>e
<1>4. CASE recordItems(r)
  <2>1. PICK n \in poll[r].left : poll' = [poll EXCEPT ![r].left = @ \ {n}]
    BY <1>4 DEF recordItems
  <2>2. [poll[r] EXCEPT !.left = @ \ {n}] \in PollState
    BY <1>0 DEF PollState
  <2> QED  BY <1>0, <1>4, <2>1, <2>2, <1>e DEF recordItems, PollState
<1>5. CASE RecordingFails(r)
  <2>1. poll[r].st = "record" /\ poll' = [poll EXCEPT ![r] = [Unrefreshed(r) EXCEPT !.st = "outcome", !.left = {}]]
    BY <1>5 DEF RecordingFails
  <2>2. Asked(r).row.etag \in Tags /\ Asked(r).row.stamp \in Nat
    BY <2>1, AskedRow
  <2>3. [Unrefreshed(r) EXCEPT !.st = "outcome", !.left = {}] \in PollState
    BY <1>0, <2>2 DEF PollState, Unrefreshed
  <2>4. [Unrefreshed(r) EXCEPT !.st = "outcome", !.left = {}].todo = poll[r].todo
    BY <1>0 DEF PollState, Unrefreshed
  <2> QED  BY <1>0, <2>1, <2>3, <2>4, <1>e
<1>6. CASE Recorded(r)
  BY <1>0, <1>6 DEF Recorded, PollState
<1>7. ASSUME poll[r].st = "outcome", pollNext(r)
      PROVE  /\ poll' \in [Replicas -> PollState]
             /\ \A q \in Replicas : poll'[q].st # "asleep" => poll'[q].todo # <<>>
  <2>1. CASE Len(poll[r].todo) > 1
    <3>1. poll' = [poll EXCEPT ![r] = [Asleep EXCEPT !.st = "fetch", !.todo = Tail(poll[r].todo)]]
      BY <1>7, <2>1 DEF pollNext
    <3>2. poll[r].todo \in Seq(RowRead)
      BY <1>0 DEF PollState
    <3>3. Tail(poll[r].todo) \in Seq(RowRead) /\ Tail(poll[r].todo) # <<>>
      <4>1. poll[r].todo # <<>>
        BY <2>1, <3>2
      <4>2. Tail(poll[r].todo) \in Seq(RowRead) /\ Len(Tail(poll[r].todo)) = Len(poll[r].todo) - 1
        BY <4>1, <3>2, TailOf
      <4>3. Len(Tail(poll[r].todo)) > 0
        BY <2>1, <3>2, <4>2
      <4> QED  BY <4>2, <4>3, NotEmpty
    <3> QED  BY <3>1, <3>3, <1>e, <1>f, <1>g
  <2>2. CASE ~ (Len(poll[r].todo) > 1)
    BY <1>7, <2>2, <1>e, <1>g, AsleepState DEF pollNext
  <2> QED  BY <2>1, <2>2
<1>8. CASE RecordPollOutcome(r)
  BY <1>7, <1>8 DEF RecordPollOutcome
<1>9. CASE OutcomeFails(r)
  BY <1>7, <1>9 DEF OutcomeFails
<1>10. CASE PollerStops(r)
  BY <1>10, <1>e, <1>g, AsleepState DEF PollerStops
<1> QED  BY <1>1, <1>2, <1>3, <1>4, <1>5, <1>6, <1>8, <1>9, <1>10 DEF PollStep

(* What a step may do to the table of sources. *)
LEMMA SourceKept ==
    ASSUME FeedTypes, FeedAction
    PROVE  source' \in [Sources -> {NoRow} \cup SourceRow]
<1>0. source \in [Sources -> {NoRow} \cup SourceRow]
  BY DEF FeedTypes
<1>1. ASSUME NEW r \in Replicas, PollStep(r) PROVE source' \in [Sources -> {NoRow} \cup SourceRow]
  <2>1. CASE RecordPollOutcome(r)
    <3>1. poll[r].st = "outcome"
      BY <2>1 DEF RecordPollOutcome
    <3>2. poll[r].etag \in Tags /\ poll[r].stamp \in Nat /\ Asked(r).id \in Sources
      BY <3>1, AskedRow DEF PollState
    <3>3. ASSUME Exists(Asked(r).id) PROVE source[Asked(r).id] \in SourceRow
      BY <3>2, <3>3, RowThere
    <3> QED  BY <1>0, <2>1, <3>2, <3>3 DEF RecordPollOutcome, SourceRow
  <2>2. CASE ~ RecordPollOutcome(r)
    <3>1. source' = source
      BY <1>1, <2>2 DEF PollStep, PollOnce, AttemptFails, Attempt, recordItems, RecordingFails, Recorded, OutcomeFails, PollerStops
    <3> QED  BY <1>0, <3>1
  <2> QED  BY <2>1, <2>2
<1>2. CASE LockDies
  BY <1>0, <1>2 DEF LockDies
<1>3. ASSUME NEW u \in Urls, FeedMoves(u) PROVE source' \in [Sources -> {NoRow} \cup SourceRow]
  BY <1>0, <1>3 DEF FeedMoves
<1>4. ASSUME NEW s \in Sources, FallsDue(s) PROVE source' \in [Sources -> {NoRow} \cup SourceRow]
  <2>1. source[s] \in SourceRow
    BY <1>4, RowThere DEF FallsDue
  <2> QED  BY <1>0, <1>4, <2>1 DEF FallsDue, SourceRow
<1>5. ASSUME NEW s \in Sources, NEW e \in Editors, UpdateSource(s, e) PROVE source' \in [Sources -> {NoRow} \cup SourceRow]
  <2>1. source[s] \in SourceRow
    BY <1>5, RowThere DEF UpdateSource
  <2>2. CASE source' = [source EXCEPT ![s].active = ~ @]
    BY <1>0, <2>1, <2>2 DEF SourceRow
  <2>3. ASSUME NEW u \in Urls, source' = [source EXCEPT ![s].url = u] PROVE source' \in [Sources -> {NoRow} \cup SourceRow]
    BY <1>0, <2>1, <2>3 DEF SourceRow
  <2>4. ASSUME NEW t \in Terms, source' = [source EXCEPT ![s].terms = t] PROVE source' \in [Sources -> {NoRow} \cup SourceRow]
    BY <1>0, <2>1, <2>4 DEF SourceRow
  <2> QED  BY <1>5, <2>2, <2>3, <2>4 DEF UpdateSource
<1>6. ASSUME NEW s \in Sources, DeleteSource(s) PROVE source' \in [Sources -> {NoRow} \cup SourceRow]
  BY <1>0, <1>6 DEF DeleteSource
<1>7. ASSUME NEW s \in Sources, NEW u \in Urls, CreateSource(s, u) PROVE source' \in [Sources -> {NoRow} \cup SourceRow]
  <2>1. Row(u, 1) \in SourceRow
    BY DEF Row, SourceRow, Tags
  <2> QED  BY <1>0, <1>7, <2>1 DEF CreateSource
<1> QED  BY <1>1, <1>2, <1>3, <1>4, <1>5, <1>6, <1>7 DEF FeedAction, RegisterStep

(* Editions only move on, and only the publisher moves them. *)
LEMMA EditionKept ==
    ASSUME FeedTypes, FeedAction
    PROVE  /\ edition' \in [Urls -> Nat]
           /\ \A u \in Urls : edition'[u] \in 1..Len(Editions[u]) /\ edition[u] <= edition'[u]
<1>0. edition \in [Urls -> Nat] /\ \A u \in Urls : edition[u] \in 1..Len(Editions[u])
  BY DEF FeedTypes
<1>1. ASSUME NEW u \in Urls, FeedMoves(u)
      PROVE  /\ edition' \in [Urls -> Nat]
             /\ \A v \in Urls : edition'[v] \in 1..Len(Editions[v]) /\ edition[v] <= edition'[v]
  <2>1. edition[u] + 1 \in 1..Len(Editions[u])
    <3>1. Len(Editions[u]) \in Nat
      BY StampsIncrease
    <3> QED  BY <3>1, <1>0, <1>1 DEF FeedMoves
  <2> QED  BY <1>0, <1>1, <2>1 DEF FeedMoves
<1>2. ASSUME edition' = edition
      PROVE  /\ edition' \in [Urls -> Nat]
             /\ \A v \in Urls : edition'[v] \in 1..Len(Editions[v]) /\ edition[v] <= edition'[v]
  BY <1>0, <1>2
<1>3. ASSUME NEW r \in Replicas, PollStep(r) PROVE edition' = edition
  BY <1>3 DEF PollStep, PollOnce, AttemptFails, Attempt, recordItems, RecordingFails, Recorded, RecordPollOutcome, OutcomeFails, PollerStops
<1>4. ASSUME LockDies \/ (\E s \in Sources : FallsDue(s)) \/ RegisterStep PROVE edition' = edition
  BY <1>4 DEF LockDies, FallsDue, RegisterStep, UpdateSource, DeleteSource, CreateSource
<1> QED  BY <1>1, <1>2, <1>3, <1>4 DEF FeedAction

(* Every step keeps the types of the feeds. *)
LEMMA FeedTypesKept ==
    ASSUME FeedTypes, FeedAction
    PROVE  FeedTypes'
<1>1. CASE \E r \in Replicas : PollStep(r)
  BY <1>1, PollStateKept, SourceKept, EditionKept DEF FeedTypes
<1>2. CASE ~ \E r \in Replicas : PollStep(r)
  <2>1. poll' = poll
    BY <1>2 DEF FeedAction, LockDies, FeedMoves, FallsDue, RegisterStep, UpdateSource, DeleteSource, CreateSource
  <2> QED  BY <2>1, SourceKept, EditionKept DEF FeedTypes
<1> QED  BY <1>1, <1>2

------------------------------------------------------------------------------
(* What a step does to a source and to the items.                          *)

(* A row disappears only without items and for good, changes its location  *)
(* only under the eyes of moved, and takes its validators from an outcome. *)
RowMoves(s) ==
    /\ moved \subseteq moved'
    /\ (Exists(s) /\ ~ Exists(s)') => CountSourceEvidence(s) = 0 /\ items' = items /\ s \in moved'
    /\ (Exists(s) /\ s \notin moved') =>
           /\ Exists(s)'
           /\ source'[s].url = source[s].url
           /\ \/ source'[s].etag = source[s].etag /\ source'[s].stamp = source[s].stamp
              \/ \E r \in Replicas : /\ poll[r].st = "outcome"
                                     /\ Asked(r).id = s
                                     /\ source'[s].etag = poll[r].etag
                                     /\ source'[s].stamp = poll[r].stamp
    /\ (~ Exists(s) /\ Exists(s)') => s \notin moved /\ source'[s].etag = NoTag /\ source'[s].stamp = 0

(* Every step moves every row in one of these ways. *)
LEMMA RowStep ==
    ASSUME FeedTypes, FeedAction, NEW s \in Sources
    PROVE  RowMoves(s)
<1>0. source \in [Sources -> {NoRow} \cup SourceRow]
  BY DEF FeedTypes
<1>1. ASSUME source' = source, moved' = moved PROVE RowMoves(s)
  BY <1>1 DEF RowMoves, Exists
<1>2. ASSUME NEW r \in Replicas, PollStep(r) PROVE RowMoves(s)
  <2>1. CASE ~ RecordPollOutcome(r)
    <3>1. source' = source /\ moved' = moved
      BY <1>2, <2>1 DEF PollStep, PollOnce, AttemptFails, Attempt, recordItems, RecordingFails, Recorded, OutcomeFails, PollerStops
    <3> QED  BY <3>1, <1>1
  <2>2. CASE RecordPollOutcome(r)
    <3>1. poll[r].st = "outcome" /\ moved' = moved
      BY <2>2 DEF RecordPollOutcome
    <3> DEFINE t == Asked(r).id
    <3>2. t \in Sources
      BY <3>1, AskedRow
    <3>3. CASE ~ Exists(t)
      <4>1. source' = source
        BY <2>2, <3>3 DEF RecordPollOutcome
      <4> QED  BY <4>1, <3>1, <1>1
    <3>4. CASE Exists(t)
      <4>1. source[t] \in SourceRow
        BY <3>2, <3>4, RowThere
      <4>2. source' = [source EXCEPT ![t].etag = poll[r].etag, ![t].stamp = poll[r].stamp, ![t].due = FALSE]
        BY <2>2, <3>4 DEF RecordPollOutcome
      <4>3. CASE s # t
        <5>1. source'[s] = source[s]
          BY <1>0, <4>2, <4>3, <3>2
        <5> QED  BY <5>1, <3>1 DEF RowMoves, Exists
      <4>4. CASE s = t
        <5>1. /\ source'[s].url = source[s].url
              /\ source'[s].etag = poll[r].etag
              /\ source'[s].stamp = poll[r].stamp
              /\ "due" \in DOMAIN source'[s]
          BY <1>0, <4>1, <4>2, <4>4 DEF SourceRow
        <5>2. source'[s] # NoRow
          BY <5>1 DEF NoRow
        <5> QED  BY <5>1, <5>2, <3>1, <3>4, <4>4 DEF RowMoves, Exists
      <4> QED  BY <4>3, <4>4
    <3> QED  BY <3>3, <3>4
  <2> QED  BY <2>1, <2>2
<1>3. CASE LockDies
  BY <1>1, <1>3 DEF LockDies
<1>4. ASSUME NEW u \in Urls, FeedMoves(u) PROVE RowMoves(s)
  BY <1>1, <1>4 DEF FeedMoves
<1>5. ASSUME NEW t \in Sources, FallsDue(t) PROVE RowMoves(s)
  <2>1. source[t] \in SourceRow /\ source' = [source EXCEPT ![t].due = TRUE] /\ moved' = moved
    BY <1>5, RowThere DEF FallsDue
  <2>2. source'[s].url = source[s].url /\ source'[s].etag = source[s].etag /\ source'[s].stamp = source[s].stamp
    BY <1>0, <2>1 DEF SourceRow
  <2>3. Exists(s) <=> Exists(s)'
    <3>1. CASE s # t
      BY <1>0, <2>1, <3>1 DEF Exists
    <3>2. CASE s = t
      <4>1. "due" \in DOMAIN source'[s]
        BY <1>0, <2>1, <3>2 DEF SourceRow
      <4> QED  BY <4>1, <1>5, <3>2 DEF Exists, NoRow, FallsDue
    <3> QED  BY <3>1, <3>2
  <2> QED  BY <2>1, <2>2, <2>3 DEF RowMoves
<1>6. ASSUME NEW t \in Sources, NEW e \in Editors, UpdateSource(t, e) PROVE RowMoves(s)
  <2>0. source[t] \in SourceRow /\ Exists(t)
    BY <1>6, RowThere DEF UpdateSource
  <2>1. source' \in [Sources -> {NoRow} \cup SourceRow]
    BY SourceKept
  <2>2. ASSUME NEW x \in SourceRow, source' = [source EXCEPT ![t] = x], moved \subseteq moved',
               t \notin moved' => x.url = source[t].url, x.etag = source[t].etag, x.stamp = source[t].stamp
        PROVE  RowMoves(s)
    <3>1. CASE s # t
      BY <1>0, <2>2, <3>1 DEF RowMoves, Exists
    <3>2. CASE s = t
      <4>1. source'[s] = x /\ x # NoRow
        BY <1>0, <2>2, <3>2, RowIsThere
      <4> QED  BY <4>1, <2>0, <2>2, <3>2 DEF RowMoves, Exists
    <3> QED  BY <3>1, <3>2
  <2>3. CASE source' = [source EXCEPT ![t].active = ~ @] /\ moved' = moved
    <3> DEFINE x == [source[t] EXCEPT !.active = ~ @]
    <3>1. x \in SourceRow /\ x.url = source[t].url /\ x.etag = source[t].etag /\ x.stamp = source[t].stamp
      BY <2>0 DEF SourceRow
    <3>2. source' = [source EXCEPT ![t] = x]
      BY <2>3
    <3> HIDE DEF x
    <3> QED  BY <3>1, <3>2, <2>2, <2>3
  <2>4. ASSUME NEW u \in Urls, source' = [source EXCEPT ![t].url = u], moved' = moved \cup {t} PROVE RowMoves(s)
    <3> DEFINE x == [source[t] EXCEPT !.url = u]
    <3>1. x \in SourceRow /\ x.etag = source[t].etag /\ x.stamp = source[t].stamp
      BY <2>0 DEF SourceRow
    <3>2. source' = [source EXCEPT ![t] = x]
      BY <2>4
    <3> HIDE DEF x
    <3> QED  BY <3>1, <3>2, <2>2, <2>4
  <2>5. ASSUME NEW y \in Terms, source' = [source EXCEPT ![t].terms = y], moved' = moved PROVE RowMoves(s)
    <3> DEFINE x == [source[t] EXCEPT !.terms = y]
    <3>1. x \in SourceRow /\ x.url = source[t].url /\ x.etag = source[t].etag /\ x.stamp = source[t].stamp
      BY <2>0 DEF SourceRow
    <3>2. source' = [source EXCEPT ![t] = x]
      BY <2>5
    <3> HIDE DEF x
    <3> QED  BY <3>1, <3>2, <2>2, <2>5
  <2> QED  BY <1>6, <2>3, <2>4, <2>5 DEF UpdateSource
<1>7. ASSUME NEW t \in Sources, DeleteSource(t) PROVE RowMoves(s)
  <2>1. source' = [source EXCEPT ![t] = NoRow] /\ moved' = moved \cup {t} /\ items' = items /\ CountSourceEvidence(t) = 0
    BY <1>7 DEF DeleteSource
  <2>2. CASE s # t
    BY <1>0, <2>1, <2>2 DEF RowMoves, Exists
  <2>3. CASE s = t
    BY <1>0, <2>1, <2>3 DEF RowMoves, Exists
  <2> QED  BY <2>2, <2>3
<1>8. ASSUME NEW t \in Sources, NEW u \in Urls, CreateSource(t, u) PROVE RowMoves(s)
  <2>1. source' = [source EXCEPT ![t] = Row(u, 1)] /\ moved' = moved /\ ~ Exists(t) /\ t \notin moved
    BY <1>8 DEF CreateSource
  <2>2. CASE s # t
    BY <1>0, <2>1, <2>2 DEF RowMoves, Exists
  <2>3. CASE s = t
    <3>1. source'[s] = Row(u, 1)
      BY <1>0, <2>1, <2>3
    <3> QED  BY <3>1, <2>1, <2>3 DEF RowMoves, Row
  <2> QED  BY <2>2, <2>3
<1> QED  BY <1>2, <1>3, <1>4, <1>5, <1>6, <1>7, <1>8 DEF FeedAction, RegisterStep

(* Items are only added, and only by a cycle that records. *)
LEMMA ItemsStep ==
    ASSUME FeedTypes, FeedAction
    PROVE  \/ items' = items
           \/ \E r \in Replicas, n \in Notes :
                 /\ recordItems(r)
                 /\ poll[r].st = "record"
                 /\ Exists(Asked(r).id)
                 /\ items' = items \cup {[src |-> Asked(r).id, body |-> n.body, title |-> n.title,
                                          terms |-> source[Asked(r).id].terms, at |-> Cardinality(items) + 1]}
<1>1. ASSUME NEW r \in Replicas, recordItems(r), items' # items
      PROVE  \E n \in Notes :
                 /\ poll[r].st = "record"
                 /\ Exists(Asked(r).id)
                 /\ items' = items \cup {[src |-> Asked(r).id, body |-> n.body, title |-> n.title,
                                          terms |-> source[Asked(r).id].terms, at |-> Cardinality(items) + 1]}
  <2>1. poll[r].st = "record" /\ poll[r].left \subseteq Notes
    BY <1>1 DEF recordItems, FeedTypes, PollState
  <2>2. PICK n \in poll[r].left : (Validate(n) => Exists(Asked(r).id)) /\ RecordRetrieval(r, n)
    BY <1>1 DEF recordItems
  <2> QED  BY <1>1, <2>1, <2>2 DEF RecordRetrieval
<1>2. ASSUME NEW r \in Replicas, PollStep(r), ~ recordItems(r) PROVE items' = items
  BY <1>2 DEF PollStep, PollOnce, AttemptFails, Attempt, RecordPollOutcome, RecordingFails, Recorded, OutcomeFails, PollerStops
<1>3. ASSUME ~ \E r \in Replicas : PollStep(r) PROVE items' = items
  BY <1>3 DEF FeedAction, LockDies, FeedMoves, FallsDue, RegisterStep, UpdateSource, DeleteSource, CreateSource
<1> QED  BY <1>1, <1>2, <1>3 DEF FeedAction

(* No item is lost. *)
LEMMA ItemsStay ==
    ASSUME FeedTypes, FeedAction
    PROVE  items \subseteq items'
BY ItemsStep

(* A source with items is not counted as without. *)
LEMMA EvidenceCounts ==
    ASSUME ItemsKept, NEW i \in items
    PROVE  CountSourceEvidence(i.src) # 0
<1> DEFINE S == {j \in items : j.src = i.src}
<1>1. IsFiniteSet(S) /\ i \in S
  BY FS_Subset DEF ItemsKept
<1>2. Cardinality(S) # 0
  BY <1>1, FS_EmptySet
<1> QED  BY <1>2 DEF CountSourceEvidence

(* Items stay numbered, and no source is deleted from under one. *)
LEMMA ItemsKeptStep ==
    ASSUME FeedTypes, ItemsKept, FeedAction
    PROVE  ItemsKept'
<1>0. /\ IsFiniteSet(items) /\ Cardinality(items) \in Nat
      /\ \A i \in items : i.src \in Sources /\ Exists(i.src) /\ i.at \in 1..Cardinality(items)
      /\ \A i, j \in items : i.at = j.at => i = j
  BY FS_CardinalityType DEF ItemsKept
<1>1. CASE items' = items
  <2>1. ASSUME NEW i \in items PROVE Exists(i.src)'
    BY <1>0, <2>1, RowStep, EvidenceCounts DEF RowMoves
  <2> QED  BY <1>0, <1>1, <2>1 DEF ItemsKept
<1>2. CASE items' # items
  <2>1. PICK r \in Replicas, n \in Notes :
                 /\ recordItems(r)
                 /\ poll[r].st = "record"
                 /\ Exists(Asked(r).id)
                 /\ items' = items \cup {[src |-> Asked(r).id, body |-> n.body, title |-> n.title,
                                          terms |-> source[Asked(r).id].terms, at |-> Cardinality(items) + 1]}
    BY <1>2, ItemsStep
  <2> DEFINE x == [src |-> Asked(r).id, body |-> n.body, title |-> n.title,
                   terms |-> source[Asked(r).id].terms, at |-> Cardinality(items) + 1]
  <2>2. x.src = Asked(r).id /\ x.at = Cardinality(items) + 1 /\ items' = items \cup {x}
    BY <2>1
  <2> HIDE DEF x
  <2>3. Asked(r).id \in Sources
    BY <2>1, AskedRow
  <2>4. x \notin items
    BY <1>0, <2>2
  <2>5. IsFiniteSet(items') /\ Cardinality(items') = Cardinality(items) + 1
    BY <1>0, <2>2, <2>4, FS_AddElement
  <2>6. source' = source
    BY <2>1 DEF recordItems
  <2>7. \A i \in items' : i.src \in Sources /\ Exists(i.src)' /\ i.at \in 1..Cardinality(items')
    BY <1>0, <2>1, <2>2, <2>3, <2>5, <2>6 DEF Exists
  <2>8. \A i, j \in items' : i.at = j.at => i = j
    BY <1>0, <2>2
  <2> QED  BY <2>5, <2>7, <2>8 DEF ItemsKept
<1> QED  BY <1>1, <1>2

------------------------------------------------------------------------------
(* What validators vouch for.                                              *)

(* Nothing stored is lost. *)
LEMMA StoredStays ==
    ASSUME items \subseteq items', NEW s, NEW u, NEW k, NEW left, Stored(s, u, k, left)
    PROVE  Stored(s, u, k, left)'
BY DEF Stored, isDuplicateItem

(* What is vouched for stays so, while editions move on and items are added. *)
LEMMA VouchedStays ==
    ASSUME FeedTypes, FeedAction, NEW s, NEW u \in Urls, NEW etag, NEW stamp, Vouched(s, u, etag, stamp)
    PROVE  Vouched(s, u, etag, stamp)'
<1>1. items \subseteq items'
  BY ItemsStay
<1>2. edition[u] \in Nat /\ edition'[u] \in Nat /\ edition[u] <= edition'[u]
  BY EditionKept DEF FeedTypes
<1>3. ASSUME NEW k \in 1..edition[u], Names(u, etag, stamp, k), Stored(s, u, k, {})
      PROVE  k \in 1..edition'[u] /\ Names(u, etag, stamp, k)' /\ Stored(s, u, k, {})'
  BY <1>1, <1>2, <1>3, StoredStays DEF Names
<1>4. CASE etag = NoTag /\ stamp = 0
  BY <1>4 DEF Vouched
<1>5. CASE ~ (etag = NoTag /\ stamp = 0)
  <2>1. PICK k \in 1..edition[u] : Names(u, etag, stamp, k) /\ Stored(s, u, k, {})
    BY <1>5 DEF Vouched
  <2>2. k \in 1..edition'[u] /\ Names(u, etag, stamp, k)' /\ Stored(s, u, k, {})'
    BY <2>1, <1>3
  <2> QED  BY <2>2 DEF Vouched
<1> QED  BY <1>4, <1>5

(* A row that was read stays faithful until it is patched or deleted. *)
LEMMA FaithfulStays ==
    ASSUME FeedTypes, FeedAction, NEW x \in RowRead, Faithful(x)
    PROVE  Faithful(x)'
<1>1. x.id \in Sources /\ x.row.url \in Urls
  BY DEF RowRead, SourceRow
<1>2. SUFFICES ASSUME x.id \notin moved'
               PROVE  /\ Exists(x.id)'
                      /\ source'[x.id].url = x.row.url
                      /\ Vouched(x.id, x.row.url, x.row.etag, x.row.stamp)'
  BY DEF Faithful
<1>3. RowMoves(x.id)
  BY <1>1, RowStep
<1>4. x.id \notin moved
  BY <1>2, <1>3 DEF RowMoves
<1>5. Exists(x.id) /\ source[x.id].url = x.row.url /\ Vouched(x.id, x.row.url, x.row.etag, x.row.stamp)
  BY <1>4 DEF Faithful
<1>6. Exists(x.id)' /\ source'[x.id].url = source[x.id].url
  BY <1>2, <1>3, <1>5 DEF RowMoves
<1>7. Vouched(x.id, x.row.url, x.row.etag, x.row.stamp)'
  BY <1>1, <1>5, VouchedStays
<1> QED  BY <1>5, <1>6, <1>7

(* A row read now is faithful. *)
LEMMA FreshRead ==
    ASSUME FeedTypes, VouchInv, NEW s \in Sources, Exists(s)
    PROVE  [id |-> s, row |-> source[s]] \in RowRead /\ Faithful([id |-> s, row |-> source[s]])
<1>1. source[s] \in SourceRow
  BY RowThere
<1> QED  BY <1>1 DEF RowRead, Faithful, VouchInv

(* The row a cycle is at was faithfully read. *)
LEMMA AskedFaithful ==
    ASSUME FeedTypes, VouchInv, NEW r \in Replicas, poll[r].st # "asleep"
    PROVE  Faithful(Asked(r))
<1>1. Len(poll[r].todo) \in Nat \ {0}
  BY AskedRow
<1>2. 1 \in 1..Len(poll[r].todo)
  BY <1>1
<1> QED  BY <1>2 DEF VouchInv, Asked

(* Part one: the rows. *)
LEMMA RowsVouched ==
    ASSUME FeedTypes, VouchInv, FeedAction, NEW s \in Sources, s \notin moved', Exists(s)'
    PROVE  Vouched(s, source[s].url, source[s].etag, source[s].stamp)'
<1>0. RowMoves(s)
  BY RowStep
<1>1. CASE ~ Exists(s)
  <2>1. source'[s].etag = NoTag /\ source'[s].stamp = 0
    BY <1>0, <1>1 DEF RowMoves
  <2> QED  BY <2>1 DEF Vouched
<1>2. CASE Exists(s)
  <2>1. s \notin moved /\ source[s] \in SourceRow
    BY <1>0, <1>2, RowThere DEF RowMoves
  <2>2. source[s].url \in Urls /\ source'[s].url = source[s].url
    BY <1>0, <1>2, <2>1 DEF RowMoves, SourceRow
  <2>3. CASE source'[s].etag = source[s].etag /\ source'[s].stamp = source[s].stamp
    <3>1. Vouched(s, source[s].url, source[s].etag, source[s].stamp)
      BY <1>2, <2>1 DEF VouchInv
    <3>2. \A u \in Urls : \A a, b : Vouched(s, u, a, b) => Vouched(s, u, a, b)'
      BY VouchedStays
    <3> QED  BY <3>1, <3>2, <2>2, <2>3
  <2>4. CASE ~ (source'[s].etag = source[s].etag /\ source'[s].stamp = source[s].stamp)
    <3>1. PICK r \in Replicas : /\ poll[r].st = "outcome"
                                /\ Asked(r).id = s
                                /\ source'[s].etag = poll[r].etag
                                /\ source'[s].stamp = poll[r].stamp
      BY <1>0, <1>2, <2>4 DEF RowMoves
    <3>2. Faithful(Asked(r)) /\ Fetched(r)
      BY <3>1, AskedFaithful DEF VouchInv
    <3>3. source[s].url = Asked(r).row.url /\ Vouched(s, Asked(r).row.url, poll[r].etag, poll[r].stamp)
      BY <2>1, <3>1, <3>2 DEF Faithful, Fetched
    <3>4. \A u \in Urls : \A a, b : Vouched(s, u, a, b) => Vouched(s, u, a, b)'
      BY VouchedStays
    <3> QED  BY <3>1, <3>3, <3>4, <2>2
  <2> QED  BY <2>3, <2>4
<1> QED  BY <1>1, <1>2

(* Part two: the rows as they were read. *)
LEMMA TodoStep ==
    ASSUME FeedTypes, FeedAction, NEW q \in Replicas, NEW k \in 1..Len(poll'[q].todo)
    PROVE  \/ \E j \in 1..Len(poll[q].todo) : poll'[q].todo[k] = poll[q].todo[j]
           \/ \E s \in Sources : Exists(s) /\ poll'[q].todo[k] = [id |-> s, row |-> source[s]]
<1>0. poll \in [Replicas -> PollState]
  BY DEF FeedTypes
<1>1. CASE poll'[q].todo = poll[q].todo
  BY <1>1
<1>2. ASSUME NEW r \in Replicas, PollStep(r), poll'[q].todo # poll[q].todo
      PROVE  \/ \E j \in 1..Len(poll[q].todo) : poll'[q].todo[k] = poll[q].todo[j]
             \/ \E s \in Sources : Exists(s) /\ poll'[q].todo[k] = [id |-> s, row |-> source[s]]
  <2>1. CASE PollOnce(r)
    <3> DEFINE S == {[id |-> s, row |-> source[s]] : s \in {x \in Sources : Waiting(x)}}
    <3>1. PICK list \in ListActiveSources : poll' = [poll EXCEPT ![r] = [Asleep EXCEPT !.st = "fetch", !.todo = list]]
      BY <2>1 DEF PollOnce
    <3>2. q = r /\ poll'[q].todo = list
      BY <1>0, <1>2, <3>1 DEF Asleep
    <3>3. list \in SetToSeqs(S)
      BY <3>1 DEF ListActiveSources, Listings
    <3>4. IsFiniteSet(S)
      <4>1. IsFiniteSet({x \in Sources : Waiting(x)})
        BY FeedAssumption, FS_Subset
      <4> DEFINE f == [s \in {x \in Sources : Waiting(x)} |-> [id |-> s, row |-> source[s]]]
      <4>2. S = {f[s] : s \in {x \in Sources : Waiting(x)}}
        OBVIOUS
      <4> HIDE DEF S, f
      <4> QED  BY <4>1, <4>2, ImageFinite
    <3>5. list[k] \in S
      <4> HIDE DEF S
      <4> QED  BY <3>2, <3>3, <3>4, ListingOf
    <3> QED  BY <3>2, <3>5 DEF Waiting
  <2>2. CASE ~ PollOnce(r) /\ q = r /\ poll'[q].todo = Tail(poll[q].todo) /\ Len(poll[q].todo) > 1
    <3>1. poll[q].todo \in Seq(RowRead) /\ poll[q].todo # <<>>
      BY <1>0, <2>2 DEF PollState
    <3>2. k + 1 \in 1..Len(poll[q].todo) /\ Tail(poll[q].todo)[k] = poll[q].todo[k + 1]
      BY <2>2, <3>1, TailOf
    <3> QED  BY <2>2, <3>2
  <2>3. CASE poll'[q] = Asleep
    <3>1. Len(poll'[q].todo) = 0
      BY <2>3 DEF Asleep
    <3> QED  BY <3>1
  <2>4. q = r /\ (PollOnce(r) \/ RecordPollOutcome(r) \/ OutcomeFails(r) \/ PollerStops(r))
    <3>1. ASSUME q # r PROVE FALSE
      <4>1. poll'[q] = poll[q]
        BY <1>0, <1>2, <3>1 DEF PollStep, PollOnce, AttemptFails, Attempt, recordItems, RecordingFails, Recorded,
                                RecordPollOutcome, OutcomeFails, pollNext, PollerStops
      <4> QED  BY <4>1, <1>2
    <3>2. ASSUME AttemptFails(r) PROVE FALSE
      BY <1>0, <1>2, <3>1, <3>2 DEF AttemptFails, PollState
    <3>5. ASSUME Attempt(r) PROVE FALSE
      BY <1>0, <1>2, <3>1, <3>5 DEF Attempt, PollState
    <3>3. ASSUME recordItems(r) \/ Recorded(r) PROVE FALSE
      BY <1>0, <1>2, <3>1, <3>3 DEF recordItems, Recorded, PollState
    <3>4. ASSUME RecordingFails(r) PROVE FALSE
      BY <1>0, <1>2, <3>1, <3>4 DEF RecordingFails, Unrefreshed, PollState
    <3> QED  BY <1>2, <3>1, <3>2, <3>3, <3>4, <3>5 DEF PollStep
  <2>5. ASSUME pollNext(r), ~ PollOnce(r)
        PROVE  \/ q = r /\ poll'[q].todo = Tail(poll[q].todo) /\ Len(poll[q].todo) > 1
               \/ poll'[q] = Asleep
    BY <1>0, <2>4, <2>5 DEF pollNext, Asleep
  <2>6. ASSUME PollerStops(r) PROVE poll'[q] = Asleep
    BY <1>0, <2>4, <2>6 DEF PollerStops
  <2> QED  BY <2>1, <2>2, <2>3, <2>4, <2>5, <2>6 DEF RecordPollOutcome, OutcomeFails
<1>3. ASSUME ~ \E r \in Replicas : PollStep(r) PROVE poll' = poll
  BY <1>3 DEF FeedAction, LockDies, FeedMoves, FallsDue, RegisterStep, UpdateSource, DeleteSource, CreateSource
<1> QED  BY <1>1, <1>2, <1>3

(* The rows cycles have read stay faithful. *)
LEMMA ReadsFaithful ==
    ASSUME FeedTypes, VouchInv, FeedAction, NEW q \in Replicas, NEW k \in 1..Len(poll'[q].todo)
    PROVE  Faithful(poll[q].todo[k])'
<1>1. \A x \in RowRead : Faithful(x) => Faithful(x)'
  BY FaithfulStays
<1>2. CASE \E j \in 1..Len(poll[q].todo) : poll'[q].todo[k] = poll[q].todo[j]
  <2>1. PICK j \in 1..Len(poll[q].todo) : poll'[q].todo[k] = poll[q].todo[j]
    BY <1>2
  <2>2. poll[q].todo \in Seq(RowRead)
    BY DEF FeedTypes, PollState
  <2>3. poll[q].todo[j] \in RowRead /\ Faithful(poll[q].todo[j])
    BY <2>1, <2>2 DEF VouchInv
  <2> QED  BY <2>1, <2>3, <1>1
<1>3. CASE \E s \in Sources : Exists(s) /\ poll'[q].todo[k] = [id |-> s, row |-> source[s]]
  <2>1. PICK s \in Sources : Exists(s) /\ poll'[q].todo[k] = [id |-> s, row |-> source[s]]
    BY <1>3
  <2>2. [id |-> s, row |-> source[s]] \in RowRead /\ Faithful([id |-> s, row |-> source[s]])
    BY <2>1, FreshRead
  <2> QED  BY <2>1, <2>2, <1>1
<1> QED  BY <1>2, <1>3, TodoStep

(* Part three: what cycles have fetched. *)
LEMMA FetchedStays ==
    ASSUME FeedTypes, VouchInv, FeedAction, NEW q \in Replicas, poll'[q] = poll[q]
    PROVE  Fetched(q)'
<1>0. Asked(q)' = Asked(q)
  BY DEF Asked
<1>1. CASE poll[q].st \notin {"record", "outcome"}
  BY <1>1 DEF Fetched
<1>2. CASE poll[q].st \in {"record", "outcome"}
  <2> DEFINE x == Asked(q)
  <2>1. x.id \in Sources /\ x.row.url \in Urls
    BY <1>2, AskedRow
  <2>2. moved \subseteq moved'
    BY <2>1, RowStep DEF RowMoves
  <2>3. Fetched(q)
    BY DEF VouchInv
  <2>4. \A s : \A u \in Urls : \A a, b : Vouched(s, u, a, b) => Vouched(s, u, a, b)'
    BY VouchedStays
  <2>5. \A s, u, k, left : Stored(s, u, k, left) => Stored(s, u, k, left)'
    BY ItemsStay, StoredStays
  <2>6. edition[x.row.url] \in Nat /\ edition'[x.row.url] \in Nat /\ edition[x.row.url] <= edition'[x.row.url]
    BY <2>1, EditionKept DEF FeedTypes
  <2>7. ASSUME poll[q].st = "outcome", x.id \notin moved'
        PROVE  Vouched(Asked(q).id, Asked(q).row.url, poll[q].etag, poll[q].stamp)'
    <3>1. Vouched(x.id, x.row.url, poll[q].etag, poll[q].stamp)
      BY <2>2, <2>3, <2>7 DEF Fetched
    <3> QED  BY <3>1, <2>1, <2>4, <1>0
  <2>8. ASSUME poll[q].st = "record", x.id \notin moved'
        PROVE  \E k \in 1..edition'[x.row.url] : /\ Names(x.row.url, poll[q].etag, poll[q].stamp, k)
                                                 /\ Stored(Asked(q).id, Asked(q).row.url, k, poll[q].left)'
    <3>1. PICK k \in 1..edition[x.row.url] : /\ Names(x.row.url, poll[q].etag, poll[q].stamp, k)
                                             /\ Stored(x.id, x.row.url, k, poll[q].left)
      BY <2>2, <2>3, <2>8 DEF Fetched
    <3>2. k \in 1..edition'[x.row.url]
      BY <2>6
    <3> QED  BY <3>1, <3>2, <2>5, <1>0
  <2> QED  BY <1>0, <2>7, <2>8 DEF Fetched, Names
<1> QED  BY <1>1, <1>2

(* The answer of a publisher, changed or not. *)
LEMMA AttemptFetched ==
    ASSUME FeedTypes, VouchInv, NEW r \in Replicas, Attempt(r)
    PROVE  Fetched(r)'
<1> DEFINE x == Asked(r)
           u == x.row.url
           same == NotModified(u, x.row.etag, x.row.stamp)
           next == refreshedValidators(r, u)
<1>0. poll[r].st = "fetch" /\ poll[r] \in PollState /\ poll \in [Replicas -> PollState]
  BY DEF Attempt, FeedTypes
<1>1. /\ poll'[r].st = IF same THEN "outcome" ELSE "record"
      /\ poll'[r].left = IF same THEN {} ELSE ParseFeed(u)
      /\ poll'[r].etag = next.etag
      /\ poll'[r].stamp = next.stamp
      /\ poll'[r].todo = poll[r].todo
      /\ UNCHANGED <<source, items, edition, moved>>
  BY <1>0 DEF Attempt, PollState
<1>2. Asked(r)' = x
  BY <1>1 DEF Asked
<1>3. x.id \in Sources /\ u \in Urls /\ Faithful(x)
  BY <1>0, AskedRow, AskedFaithful
<1>4. /\ edition[u] \in 1..edition[u]
      /\ edition[u] \in DOMAIN Stamp[u]
      /\ Stamp[u][edition[u]] \in Nat \ {0}
      /\ Len(Stamp[u]) \in Nat
  <2> HIDE DEF u
  <2>1. edition[u] \in Nat \ {0} /\ edition[u] \in DOMAIN Stamp[u] /\ Stamp[u][edition[u]] \in Nat \ {0} /\ Len(Stamp[u]) \in Nat
    BY <1>3, EditionServed
  <2> QED  BY <2>1
<1>5. ASSUME x.id \notin moved PROVE Names(u, next.etag, next.stamp, edition[u])
  <2>1. Vouched(x.id, u, x.row.etag, x.row.stamp)
    BY <1>3, <1>5 DEF Faithful
  <2>2. (u \in StatesETag => x.row.stamp = 0) /\ (u \notin StatesETag => x.row.etag = NoTag)
    BY <2>1 DEF Vouched, Names
  <2> QED  BY <2>2 DEF refreshedValidators, Names
<1>6. ASSUME x.id \notin moved, same PROVE Stored(x.id, u, edition[u], {})
  <2>1. Vouched(x.id, u, x.row.etag, x.row.stamp)
    BY <1>3, <1>6 DEF Faithful
  <2>2. ~ (x.row.etag = NoTag /\ x.row.stamp = 0)
    BY <1>6 DEF NotModified
  <2>3. PICK k \in 1..edition[u] : Names(u, x.row.etag, x.row.stamp, k) /\ Stored(x.id, u, k, {})
    BY <2>1, <2>2 DEF Vouched
  <2>4. k = edition[u]
    <3>1. CASE u \in StatesETag
      <4>1. x.row.etag = <<u, k>> /\ x.row.etag # NoTag
        BY <2>2, <2>3, <3>1 DEF Names
      <4>2. x.row.etag = <<u, edition[u]>>
        BY <1>6, <4>1 DEF NotModified
      <4> QED  BY <4>1, <4>2
    <3>2. CASE u \notin StatesETag
      <4>1. x.row.etag = NoTag /\ x.row.stamp = Stamp[u][k]
        BY <2>3, <3>2 DEF Names
      <4>2. Stamp[u][edition[u]] <= Stamp[u][k]
        BY <1>6, <4>1 DEF NotModified
      <4>3. k \in DOMAIN Stamp[u] /\ Stamp[u][k] \in Nat
        <5>1. Stamp[u] \in Seq(Nat \ {0})
          BY <1>3, StampsIncrease
        <5>2. k \in 1..Len(Stamp[u])
          BY <5>1, <1>4
        <5> QED  BY <5>1, <5>2
      <4>4. k < edition[u] => Stamp[u][k] < Stamp[u][edition[u]]
        BY <1>3, <1>4, <4>3, StampsIncrease
      <4> QED  BY <1>4, <4>2, <4>3, <4>4
    <3> QED  BY <3>1, <3>2
  <2> QED  BY <2>3, <2>4
<1>7. Stored(x.id, u, edition[u], ParseFeed(u))
  BY DEF Stored, ParseFeed
<1>8. ASSUME x.id \notin moved, same PROVE Vouched(x.id, u, next.etag, next.stamp)
  BY <1>4, <1>5, <1>6, <1>8 DEF Vouched
<1>9. ASSUME x.id \notin moved', poll'[r].st = "outcome"
      PROVE  Vouched(Asked(r).id, Asked(r).row.url, poll[r].etag, poll[r].stamp)'
  <2>1. same
    BY <1>1, <1>9
  <2>2. Vouched(x.id, u, next.etag, next.stamp)
    BY <1>1, <1>8, <1>9, <2>1
  <2> HIDE DEF x, u, same, next
  <2> QED  BY <1>1, <1>2, <2>2 DEF Vouched, Names, Stored, isDuplicateItem, u
<1>10. ASSUME x.id \notin moved', poll'[r].st = "record"
       PROVE  (\E k \in 1..edition[Asked(r).row.url] :
                 /\ Names(Asked(r).row.url, poll[r].etag, poll[r].stamp, k)
                 /\ Stored(Asked(r).id, Asked(r).row.url, k, poll[r].left))'
  <2>1. ~ same
    BY <1>1, <1>10
  <2>2. Names(u, next.etag, next.stamp, edition[u]) /\ Stored(x.id, u, edition[u], ParseFeed(u))
    BY <1>1, <1>5, <1>7, <1>10
  <2>3. poll'[r].left = ParseFeed(u) /\ poll'[r].etag = next.etag /\ poll'[r].stamp = next.stamp
    BY <1>1, <2>1
  <2>4. \A s, v, k, left : Stored(s, v, k, left) => Stored(s, v, k, left)'
    BY <1>1, StoredStays
  <2>5. \A v, a, b, k : Names(v, a, b, k) => Names(v, a, b, k)'
    BY DEF Names
  <2>6. Asked(r)'.row.url = u /\ Asked(r)'.id = x.id /\ edition' = edition
    BY <1>1, <1>2
  <2> HIDE DEF x, u, same, next
  <2> QED  BY <1>4, <2>2, <2>3, <2>4, <2>5, <2>6
<1> HIDE DEF same, next
<1> QED  BY <1>2, <1>9, <1>10 DEF Fetched

(* An outcome that refreshes nothing writes the validators that were read. *)
LEMMA UnrefreshedFetched ==
    ASSUME FeedTypes, VouchInv, NEW r \in Replicas, poll[r].st # "asleep",
           UNCHANGED <<source, items, edition, moved>>,
           poll'[r].todo = poll[r].todo, poll'[r].st # "record",
           poll'[r].etag = Asked(r).row.etag, poll'[r].stamp = Asked(r).row.stamp
    PROVE  Fetched(r)'
<1>1. Asked(r)' = Asked(r)
  BY DEF Asked
<1>2. ASSUME Asked(r).id \notin moved
      PROVE  Vouched(Asked(r).id, Asked(r).row.url, Asked(r).row.etag, Asked(r).row.stamp)
  BY <1>2, AskedFaithful DEF Faithful
<1>3. \A s, u, a, b : Vouched(s, u, a, b) => Vouched(s, u, a, b)'
  BY DEF Vouched, Names, Stored, isDuplicateItem
<1>4. ASSUME Asked(r)'.id \notin moved'
      PROVE  Vouched(Asked(r).id, Asked(r).row.url, poll[r].etag, poll[r].stamp)'
  BY <1>1, <1>2, <1>3, <1>4
<1> QED  BY <1>4 DEF Fetched

(* One entry recorded, or stepped over, is one fewer that is left. *)
LEMMA RecordFetched ==
    ASSUME FeedTypes, VouchInv, NEW r \in Replicas, recordItems(r)
    PROVE  Fetched(r)'
<1>0. poll[r].st = "record" /\ poll[r] \in PollState /\ poll \in [Replicas -> PollState]
  BY DEF recordItems, FeedTypes
<1>1. PICK n \in poll[r].left : /\ RecordRetrieval(r, n)
                                /\ poll' = [poll EXCEPT ![r].left = @ \ {n}]
  BY DEF recordItems
<1>p. PICK s, u, left : s = Asked(r).id /\ u = Asked(r).row.url /\ left = poll[r].left
  OBVIOUS
<1>2. /\ poll'[r].st = "record" /\ poll'[r].todo = poll[r].todo
      /\ poll'[r].etag = poll[r].etag /\ poll'[r].stamp = poll[r].stamp
      /\ poll'[r].left = left \ {n}
  BY <1>0, <1>1, <1>p DEF PollState
<1>3. Asked(r)' = Asked(r) /\ edition' = edition /\ moved' = moved
  BY <1>2 DEF Asked, recordItems
<1>4. Validate(n) => isDuplicateItem(s, n)'
  <2>1. CASE ~ Validate(n) \/ isDuplicateItem(s, n)
    <3>1. items' = items
      BY <1>1, <1>p, <2>1 DEF RecordRetrieval
    <3> QED  BY <2>1, <3>1 DEF isDuplicateItem
  <2>2. CASE Validate(n) /\ ~ isDuplicateItem(s, n)
    <3> DEFINE i == [src |-> s, body |-> n.body, title |-> n.title,
                     terms |-> source[s].terms, at |-> Cardinality(items) + 1]
    <3>1. i \in items'
      BY <1>1, <1>p, <2>2 DEF RecordRetrieval
    <3>2. i.src = s /\ i.body = n.body
      OBVIOUS
    <3> HIDE DEF i
    <3> QED  BY <3>1, <3>2 DEF isDuplicateItem
  <2> QED  BY <2>1, <2>2
<1>5. \A m : isDuplicateItem(s, m) => isDuplicateItem(s, m)'
  <2>1. items \subseteq items'
    BY <1>1 DEF RecordRetrieval
  <2> QED  BY <2>1 DEF isDuplicateItem
<1>6. ASSUME NEW k, Stored(s, u, k, left)
      PROVE  Stored(s, u, k, left \ {n})'
  <2>1. ASSUME NEW y \in Editions[u][k], Validate(normalise(y))
        PROVE  isDuplicateItem(s, normalise(y))' \/ normalise(y) \in left \ {n}
    <3>1. CASE normalise(y) = n
      <4>1. Validate(n)
        BY <2>1, <3>1
      <4>2. isDuplicateItem(s, n)'
        BY <1>4, <4>1
      <4> QED  BY <4>2, <3>1
    <3>2. CASE normalise(y) # n
      <4>1. isDuplicateItem(s, normalise(y)) \/ normalise(y) \in left
        BY <1>6, <2>1 DEF Stored
      <4> QED  BY <4>1, <1>5, <3>2
    <3> QED  BY <3>1, <3>2
  <2> QED  BY <2>1 DEF Stored
<1>7. ASSUME s \notin moved
      PROVE  \E k \in 1..edition[u] : Names(u, poll[r].etag, poll[r].stamp, k) /\ Stored(s, u, k, left)
  BY <1>0, <1>p, <1>7 DEF VouchInv, Fetched
<1>8. ASSUME s \notin moved
      PROVE  (\E k \in 1..edition[Asked(r).row.url] :
                 /\ Names(Asked(r).row.url, poll[r].etag, poll[r].stamp, k)
                 /\ Stored(Asked(r).id, Asked(r).row.url, k, poll[r].left))'
  <2>1. PICK k \in 1..edition[u] : Names(u, poll[r].etag, poll[r].stamp, k) /\ Stored(s, u, k, left)
    BY <1>7, <1>8
  <2>2. Asked(r)'.id = s /\ Asked(r)'.row.url = u /\ poll'[r].left = left \ {n}
    BY <1>p, <1>2, <1>3
  <2>3. Stored(Asked(r).id, Asked(r).row.url, k, poll[r].left)'
    BY <1>6, <2>1, <2>2
  <2>4. Names(Asked(r).row.url, poll[r].etag, poll[r].stamp, k)'
    BY <1>2, <2>1, <2>2 DEF Names
  <2> QED  BY <1>3, <2>1, <2>2, <2>3, <2>4
<1> QED  BY <1>p, <1>2, <1>3, <1>8 DEF Fetched

(* When nothing is left, the edition is stored. *)
LEMMA RecordedFetched ==
    ASSUME FeedTypes, VouchInv, NEW r \in Replicas, Recorded(r)
    PROVE  Fetched(r)'
<1> DEFINE x == Asked(r)
           u == x.row.url
<1>0. poll[r].st = "record" /\ poll[r].left = {} /\ poll[r] \in PollState /\ poll \in [Replicas -> PollState]
  BY DEF Recorded, FeedTypes
<1>1. /\ poll'[r].st = "outcome" /\ poll'[r].todo = poll[r].todo
      /\ poll'[r].etag = poll[r].etag /\ poll'[r].stamp = poll[r].stamp
      /\ UNCHANGED <<source, items, edition, moved>>
  BY <1>0 DEF Recorded, PollState
<1>2. Asked(r)' = x
  BY <1>1 DEF Asked
<1>3. ASSUME x.id \notin moved PROVE Vouched(x.id, u, poll[r].etag, poll[r].stamp)
  <2>1. \E k \in 1..edition[u] : Names(u, poll[r].etag, poll[r].stamp, k) /\ Stored(x.id, u, k, poll[r].left)
    BY <1>0, <1>3 DEF VouchInv, Fetched
  <2> QED  BY <1>0, <2>1 DEF Vouched
<1>4. \A s, v, a, b : Vouched(s, v, a, b) => Vouched(s, v, a, b)'
  BY <1>1 DEF Vouched, Names, Stored, isDuplicateItem
<1>5. ASSUME x.id \notin moved
      PROVE  Vouched(Asked(r).id, Asked(r).row.url, poll[r].etag, poll[r].stamp)'
  BY <1>1, <1>2, <1>3, <1>4, <1>5
<1> QED  BY <1>1, <1>2, <1>5 DEF Fetched

(* The step of a cycle, on what the cycle itself has fetched. *)
LEMMA OwnFetched ==
    ASSUME FeedTypes, VouchInv, NEW r \in Replicas, PollStep(r)
    PROVE  Fetched(r)'
<1>0. poll \in [Replicas -> PollState] /\ poll[r] \in PollState
  BY DEF FeedTypes
<1>a. ASSUME poll'[r].st \in {"fetch", "asleep"} PROVE Fetched(r)'
  BY <1>a DEF Fetched
<1>b. Asleep.st = "asleep" /\ \A list : [Asleep EXCEPT !.st = "fetch", !.todo = list].st = "fetch"
  BY DEF Asleep
<1>1. CASE PollOnce(r)
  <2>1. PICK list \in ListActiveSources : poll' = [poll EXCEPT ![r] = [Asleep EXCEPT !.st = "fetch", !.todo = list]]
    BY <1>1 DEF PollOnce
  <2> QED  BY <1>0, <1>a, <1>b, <2>1
<1>2. CASE AttemptFails(r)
  <2>1. /\ poll[r].st = "fetch" /\ UNCHANGED <<source, items, edition, moved>>
        /\ poll'[r].todo = poll[r].todo /\ poll'[r].st # "record"
        /\ poll'[r].etag = Asked(r).row.etag /\ poll'[r].stamp = Asked(r).row.stamp
    BY <1>0, <1>2 DEF AttemptFails, PollState
  <2> QED  BY <2>1, UnrefreshedFetched
<1>3. CASE Attempt(r)
  BY <1>3, AttemptFetched
<1>4. CASE recordItems(r)
  BY <1>4, RecordFetched
<1>5. CASE RecordingFails(r)
  <2>1. /\ poll[r].st = "record" /\ UNCHANGED <<source, items, edition, moved>>
        /\ poll'[r].todo = poll[r].todo /\ poll'[r].st # "record"
        /\ poll'[r].etag = Asked(r).row.etag /\ poll'[r].stamp = Asked(r).row.stamp
    BY <1>0, <1>5 DEF RecordingFails, Unrefreshed, PollState
  <2> QED  BY <2>1, UnrefreshedFetched
<1>6. CASE Recorded(r)
  BY <1>6, RecordedFetched
<1>7. ASSUME pollNext(r) PROVE Fetched(r)'
  <2>1. CASE Len(poll[r].todo) > 1
    <3>1. poll'[r] = [Asleep EXCEPT !.st = "fetch", !.todo = Tail(poll[r].todo)]
      BY <1>0, <1>7, <2>1 DEF pollNext
    <3>2. poll'[r].st = "fetch"
      BY <3>1, <1>b
    <3> QED  BY <3>2, <1>a
  <2>2. CASE ~ (Len(poll[r].todo) > 1)
    <3>1. poll'[r] = Asleep
      BY <1>0, <1>7, <2>2 DEF pollNext
    <3> QED  BY <3>1, <1>a, <1>b
  <2> QED  BY <2>1, <2>2
<1>8. CASE RecordPollOutcome(r) \/ OutcomeFails(r)
  BY <1>7, <1>8 DEF RecordPollOutcome, OutcomeFails
<1>9. CASE PollerStops(r)
  BY <1>0, <1>9, <1>a, <1>b DEF PollerStops
<1> QED  BY <1>1, <1>2, <1>3, <1>4, <1>5, <1>6, <1>8, <1>9 DEF PollStep

(* A step of one cycle is not a step of another. *)
LEMMA OthersFetched ==
    ASSUME FeedTypes, FeedAction, NEW q \in Replicas, ~ PollStep(q)
    PROVE  poll'[q] = poll[q]
<1>0. poll \in [Replicas -> PollState]
  BY DEF FeedTypes
<1>1. ASSUME NEW r \in Replicas, PollStep(r), q # r PROVE poll'[q] = poll[q]
  BY <1>0, <1>1 DEF PollStep, PollOnce, AttemptFails, Attempt, recordItems, RecordingFails, Recorded,
                    RecordPollOutcome, OutcomeFails, pollNext, PollerStops
<1>2. ASSUME ~ \E r \in Replicas : PollStep(r) PROVE poll' = poll
  BY <1>2 DEF FeedAction, LockDies, FeedMoves, FallsDue, RegisterStep, UpdateSource, DeleteSource, CreateSource
<1> QED  BY <1>1, <1>2

(* Every step of the feeds and of their register keeps the feeds' invariant. *)
LEMMA FeedInvKept ==
    ASSUME FeedInv, FeedAction
    PROVE  FeedInv'
<1>0. FeedTypes /\ ItemsKept /\ VouchInv
  BY DEF FeedInv
<1>1. FeedTypes' /\ ItemsKept'
  BY <1>0, FeedTypesKept, ItemsKeptStep
<1>2. \A q \in Replicas : Fetched(q)'
  <2>1. ASSUME NEW q \in Replicas PROVE Fetched(q)'
    <3>1. CASE PollStep(q)
      BY <1>0, <3>1, OwnFetched
    <3>2. CASE ~ PollStep(q)
      BY <1>0, <3>2, OthersFetched, FetchedStays
    <3> QED  BY <3>1, <3>2
  <2> QED  BY <2>1
<1>3. \A s \in Sources : (s \notin moved' /\ Exists(s)') => Vouched(s, source[s].url, source[s].etag, source[s].stamp)'
  BY <1>0, RowsVouched
<1>4. \A q \in Replicas : \A k \in 1..Len(poll'[q].todo) : Faithful(poll[q].todo[k])'
  BY <1>0, ReadsFaithful
<1>5. VouchInv'
  BY <1>2, <1>3, <1>4 DEF VouchInv
<1> QED  BY <1>1, <1>5 DEF FeedInv

(* A step of the others leaves the feeds alone. *)
LEMMA FeedInvStays ==
    ASSUME FeedInv, UNCHANGED feedVars
    PROVE  FeedInv'
<1>1. UNCHANGED <<source, items, edition, poll, moved>>
  BY DEF feedVars
<1>2. FeedTypes' /\ ItemsKept'
  BY <1>1 DEF FeedInv, FeedTypes, ItemsKept, Exists
<1>3. \A s, u, a, b : Vouched(s, u, a, b)' <=> Vouched(s, u, a, b)
  BY <1>1 DEF Vouched, Names, Stored, isDuplicateItem
<1>4. \A s, u, k, left : Stored(s, u, k, left)' <=> Stored(s, u, k, left)
  BY <1>1 DEF Stored, isDuplicateItem
<1>5. \A x : Faithful(x)' <=> Faithful(x)
  BY <1>1, <1>3 DEF Faithful, Exists
<1>6. \A r : Fetched(r)' <=> Fetched(r)
  BY <1>1, <1>3, <1>4 DEF Fetched, Asked, Names
<1>7. VouchInv'
  BY <1>1, <1>3, <1>5, <1>6 DEF VouchInv, FeedInv, Exists
<1> QED  BY <1>2, <1>7 DEF FeedInv

(* The tables a behaviour starts with. *)
LEMMA FeedInitInv ==
    ASSUME FeedInit
    PROVE  FeedInv
<1>1. PICK b \in Beginnings :
          /\ source = [s \in Sources |-> IF s \in DOMAIN b.sources THEN Row(b.sources[s], 1) ELSE NoRow]
          /\ items = b.items
  BY DEF FeedInit
<1>2. /\ \A s \in DOMAIN b.sources : b.sources[s] \in Urls /\ s \in Sources
      /\ IsFiniteSet(b.items)
      /\ \A i \in b.items : i.src \in DOMAIN b.sources /\ i.at \in 1..Cardinality(b.items)
      /\ \A i, j \in b.items : i.at = j.at => i = j
  BY FeedAssumption
<1>3. \A u \in Urls : Row(u, 1) \in SourceRow
  BY DEF Row, SourceRow, Tags
<1>4. source \in [Sources -> {NoRow} \cup SourceRow]
  BY <1>1, <1>2, <1>3
<1>5. \A u \in Urls : Len(Editions[u]) \in Nat /\ 1 \in 1..Len(Editions[u])
  <2>1. ASSUME NEW u \in Urls PROVE Len(Editions[u]) \in Nat \ {0}
    BY StampsIncrease, TailOf
  <2> QED  BY <2>1
<1>6. /\ edition = [u \in Urls |-> 1] /\ poll = [r \in Replicas |-> Asleep] /\ moved = {}
  BY DEF FeedInit
<1>7. Asleep.st = "asleep" /\ Asleep.todo = <<>> /\ Len(<<>>) = 0
  BY DEF Asleep
<1>8. FeedTypes
  BY <1>4, <1>5, <1>6, <1>7, AsleepState DEF FeedTypes
<1>9. ItemsKept
  <2>1. ASSUME NEW i \in items PROVE Exists(i.src)
    <3>1. source[i.src] = Row(b.sources[i.src], 1) /\ Row(b.sources[i.src], 1) \in SourceRow
      BY <1>1, <1>2, <1>3, <2>1
    <3> QED  BY <3>1, RowIsThere DEF Exists
  <2> QED  BY <1>1, <1>2, <2>1 DEF ItemsKept
<1>10. \A s \in Sources : Exists(s) => source[s].etag = NoTag /\ source[s].stamp = 0
  BY <1>1 DEF Exists, Row
<1>11. VouchInv
  BY <1>6, <1>7, <1>10 DEF VouchInv, Vouched, Fetched
<1> QED  BY <1>8, <1>9, <1>11 DEF FeedInv

(* What the invariant says of the validators the publisher would answer. *)
LEMMA VouchedMeans ==
    ASSUME FeedInv
    PROVE  ValidatorsVouch
<1>0. FeedTypes
  BY DEF FeedInv
<1>1. SUFFICES ASSUME NEW s \in Sources, s \notin moved, Exists(s),
                      NotModified(source[s].url, source[s].etag, source[s].stamp)
               PROVE  Stored(s, source[s].url, edition[source[s].url], {})
  BY DEF ValidatorsVouch, ParseFeed, Stored
<1> DEFINE u == source[s].url
           e == source[s].etag
           t == source[s].stamp
<1>2. u \in Urls
  BY <1>0, <1>1, RowThere DEF SourceRow
<1>3. Vouched(s, u, e, t)
  BY <1>1 DEF FeedInv, VouchInv
<1>n. NotModified(u, e, t)
  BY <1>1
<1> HIDE DEF u, e, t
<1>4. /\ Stamp[u] \in Seq(Nat \ {0}) /\ Len(Stamp[u]) \in Nat
      /\ edition[u] \in DOMAIN Stamp[u] /\ edition[u] \in Nat
      /\ Stamp[u][edition[u]] \in Nat
  BY <1>0, <1>2, EditionServed
<1>5. ~ (e = NoTag /\ t = 0)
  BY <1>n DEF NotModified
<1>6. PICK k \in 1..edition[u] : Names(u, e, t, k) /\ Stored(s, u, k, {})
  BY <1>3, <1>5 DEF Vouched
<1>7. CASE u \in StatesETag
  <2>1. e = <<u, k>> /\ e # NoTag
    BY <1>5, <1>6, <1>7 DEF Names
  <2>2. e = <<u, edition[u]>>
    BY <1>n, <2>1 DEF NotModified
  <2>3. k = edition[u]
    BY <2>1, <2>2
  <2> QED  BY <1>6, <2>3 DEF u
<1>8. CASE u \notin StatesETag
  <2>1. e = NoTag /\ t = Stamp[u][k]
    BY <1>6, <1>8 DEF Names
  <2>2. Stamp[u][edition[u]] <= Stamp[u][k]
    BY <1>n, <2>1 DEF NotModified
  <2>3. k \in DOMAIN Stamp[u] /\ Stamp[u][k] \in Nat
    BY <1>4
  <2>4. k < edition[u] => Stamp[u][k] < Stamp[u][edition[u]]
    BY <1>2, <1>4, <2>3, StampsIncrease
  <2>5. k = edition[u]
    BY <1>4, <2>2, <2>3, <2>4
  <2> QED  BY <1>6, <2>5 DEF u
<1> QED  BY <1>7, <1>8

------------------------------------------------------------------------------
(* What a worker's step does.                                              *)

(* A finite set of costs has a dearest. *)
LEMMA MaxCost == Max(Costs) \in Nat /\ \A c \in Costs : c <= Max(Costs)
<1>0. IsFiniteSet(Costs) /\ Costs # {} /\ Costs \subseteq Nat
  BY TranslationAssumption
<1> DEFINE Above(U) == U # {} /\ \A c \in Costs : \E u \in U : c <= u
           F == {U \in SUBSET Costs : Above(U)}
<1>1. Costs \in F
  BY <1>0
<1>2. PICK U \in F : \A V \in F : V \subseteq U => V = U
  <2> HIDE DEF F
  <2>1. F \subseteq SUBSET Costs
    BY DEF F
  <2>2. F # {} /\ IsFiniteSet(Costs)
    BY <1>0, <1>1
  <2>3. \E W \in F : \A V \in F : V \subseteq W => V = W
    BY <2>1, <2>2, Smallest
  <2> QED  BY <2>3
<1>3. U \in SUBSET Costs /\ U # {} /\ \A c \in Costs : \E u \in U : c <= u
  BY <1>2
<1>4. PICK x \in U : TRUE
  BY <1>3
<1>5. ASSUME NEW a \in U, NEW b \in U, a # b, a <= b PROVE FALSE
  <2> DEFINE V == U \ {a}
  <2>1. V \in SUBSET Costs /\ V # {} /\ V # U
    BY <1>3, <1>5
  <2>2. ASSUME NEW c \in Costs PROVE \E u \in V : c <= u
    <3>1. PICK u \in U : c <= u
      BY <1>3
    <3>2. CASE u # a
      BY <3>1, <3>2
    <3>3. CASE u = a
      <4>1. c \in Nat /\ a \in Nat /\ b \in Nat
        BY <1>0, <1>3, <1>5
      <4>2. c <= b /\ b \in V
        BY <3>1, <3>3, <1>5, <4>1
      <4> QED  BY <4>2
    <3> QED  BY <3>2, <3>3
  <2>3. V \in F
    BY <2>1, <2>2
  <2> QED  BY <1>2, <2>1, <2>3
<1>6. \A c \in Costs : c <= x
  <2>1. ASSUME NEW c \in Costs PROVE c <= x
    <3>1. PICK u \in U : c <= u
      BY <1>3
    <3>2. u \in Nat /\ x \in Nat
      BY <1>0, <1>3
    <3>3. u = x
      BY <3>2, <1>5
    <3> QED  BY <3>1, <3>3
  <2> QED  BY <2>1
<1>7. x \in Costs /\ \A y \in Costs : x >= y
  BY <1>0, <1>3, <1>6
<1>8. Max(Costs) \in Costs /\ \A y \in Costs : Max(Costs) >= y
  BY <1>7 DEF Max
<1> QED  BY <1>0, <1>8

(* A page's pairs are pairs of items on record. *)
LEMMA PagePairs ==
    ASSUME ItemsKept, NEW page, page \subseteq items, NEW list \in ListPairs(page)
    PROVE  /\ list \in Seq(PairSet)
           /\ \A k \in 1..Len(list) : \E i \in items : i.at = list[k][1]
<1> DEFINE S == UNION {PairsOf(i) : i \in page}
           At == {i.at : i \in items}
           P == At \X ToSet(ReaderLocales)
<1>1. list \in SetToSeqs(S)
  BY DEF ListPairs, Listings
<1>2. At \subseteq Nat /\ IsFiniteSet(At)
  <2>1. IsFiniteSet(items) /\ \A i \in items : i.at \in 1..Cardinality(items)
    BY DEF ItemsKept
  <2>2. Cardinality(items) \in Nat
    BY <2>1, FS_CardinalityType
  <2> DEFINE f == [i \in items |-> i.at]
  <2>3. At = {f[i] : i \in items}
    OBVIOUS
  <2>4. At \subseteq Nat
    BY <2>1, <2>2
  <2> HIDE DEF At, f
  <2>5. IsFiniteSet(At)
    BY <2>1, <2>3, ImageFinite
  <2> QED  BY <2>4, <2>5
<1>3. S \subseteq P
  BY DEF PairsOf, TargetLocales
<1>4. IsFiniteSet(S)
  <2> HIDE DEF S, At
  <2>1. IsFiniteSet(P)
    BY <1>2, TranslationAssumption, FS_Product
  <2> QED  BY <1>3, <2>1, FS_Subset
<1>5. list \in Seq(S) /\ \A k \in 1..Len(list) : list[k] \in S
  <2> HIDE DEF S
  <2> QED  BY <1>1, <1>4, ListingOf
<1>6. P \subseteq PairSet
  BY <1>2 DEF PairSet
<1>7. list \in Seq(PairSet)
  <2> HIDE DEF S, P
  <2> QED  BY <1>3, <1>5, <1>6
<1>8. ASSUME NEW k \in 1..Len(list) PROVE \E i \in items : i.at = list[k][1]
  <2>1. list[k] \in P
    BY <1>3, <1>5
  <2> QED  BY <2>1
<1> QED  BY <1>7, <1>8

(* What the invariant says of one worker's cycle. *)
InCall(c) == c.st \in {"call", "settle"}

Sound(c) ==
    /\ c \in CycleState
    /\ InCall(c) => c.todo # <<>> /\ c.month \in Months
    /\ ~ InCall(c) => c.spent = Nothing
    /\ \A k \in 1..Len(c.todo) : \E i \in items : i.at = c.todo[k][1]
    /\ c.st = "call" => c.spent.cost = 0
    /\ c.st = "settle" => c.spent.cost <= Max(Costs)

(* The ways in which it may move to c, with the ledger. *)
Untouched == UNCHANGED <<translation, spend, billed, lost>>

Idles(w, c) == ~ Calling(w) /\ ~ InCall(c) /\ Untouched

Begins(w, c) ==
    /\ ~ Calling(w) /\ c.st = "call" /\ c.month = month /\ c.todo = cycle[w].todo /\ c.spent = Nothing
    /\ ~ Claimed(Pair(w)) /\ ~ Translated(Pair(w)) /\ ~ Reached(spend[month].total)
    /\ Untouched

Same(w, c) == c.month = cycle[w].month /\ c.todo = cycle[w].todo

Asks(w, c) ==
    /\ Calling(w) /\ InCall(c) /\ Same(w, c) /\ c.live = cycle[w].live
    /\ \E a \in Answers : /\ c.spent = Plus(cycle[w].spent, a.spent)
                          /\ billed' = [billed EXCEPT ![cycle[w].month] = Plus(@, a.spent)]
    /\ UNCHANGED <<translation, spend, lost>>

Unclaims(w, c) ==
    /\ Calling(w) /\ InCall(c) /\ Same(w, c) /\ c.live = FALSE /\ c.spent = cycle[w].spent
    /\ Untouched

Closes(w, c) ==
    /\ cycle[w].st = "settle" /\ ~ InCall(c)
    /\ NeedsWrite(w) => cycle[w].live
    /\ Record(w)
    /\ UNCHANGED <<billed, lost>>

Drops(w, c) ==
    /\ Calling(w) /\ ~ InCall(c)
    /\ lost' = [lost EXCEPT ![cycle[w].month] = Plus(@, cycle[w].spent)]
    /\ UNCHANGED <<translation, spend, billed>>

CycleMoves(w, c) ==
    \/ Idles(w, c) \/ Begins(w, c) \/ Asks(w, c) \/ Unclaims(w, c) \/ Closes(w, c) \/ Drops(w, c)

(* A worker's cycle is sound. *)
LEMMA CycleSound ==
    ASSUME TranslationInv, NEW w \in Workers
    PROVE  Sound(cycle[w])
BY DEF TranslationInv, CycleTypes, PairsKept, CostsBounded, Sound, InCall, Calling

(* A cycle at rest is sound. *)
LEMMA RestingSound == Sound(Resting) /\ ~ InCall(Resting)
<1>1. Resting \in CycleState
  BY EmptySeq DEF Resting, CycleState, Nothing, Spending, Kinds
<1>2. Resting.st = "resting" /\ Resting.todo = <<>> /\ Len(<<>>) = 0 /\ Resting.spent = Nothing
  BY DEF Resting
<1> QED  BY <1>1, <1>2 DEF Sound, InCall

(* So is one that moves to its next pair. *)
LEMMA MovedSound ==
    ASSUME NEW c, Sound(c), c.todo # <<>>
    PROVE  /\ Sound(Moved(c)) /\ ~ InCall(Moved(c))
           /\ Sound([Moved(c) EXCEPT !.calls = @ + 1]) /\ ~ InCall([Moved(c) EXCEPT !.calls = @ + 1])
<1>1. c \in CycleState /\ c.todo \in Seq(PairSet) /\ c.calls \in Nat
  BY DEF Sound, CycleState
<1>2. /\ Tail(c.todo) \in Seq(PairSet)
      /\ \A k \in 1..Len(Tail(c.todo)) : k + 1 \in 1..Len(c.todo) /\ Tail(c.todo)[k] = c.todo[k + 1]
  BY <1>1, TailOf
<1>3. \A k \in 1..Len(Tail(c.todo)) : \E i \in items : i.at = Tail(c.todo)[k][1]
  BY <1>2 DEF Sound
<1>4. Moved(c) \in CycleState /\ [Moved(c) EXCEPT !.calls = @ + 1] \in CycleState
  <2>1. Nothing \in Spending /\ "none" \in Kinds /\ 0 \in 0..2
    BY DEF Nothing, Spending, Kinds
  <2>2. Moved(c) \in CycleState
    BY <1>1, <1>2, <2>1 DEF Moved, CycleState
  <2>3. Moved(c).calls + 1 \in Nat
    BY <2>2 DEF CycleState
  <2> DEFINE x == Moved(c)
  <2> HIDE DEF x
  <2>4. [x EXCEPT !.calls = @ + 1] \in CycleState
    BY <2>2, <2>3 DEF x, CycleState
  <2> QED  BY <2>2, <2>4 DEF x
<1>5. /\ Moved(c).st = "walk" /\ Moved(c).todo = Tail(c.todo) /\ Moved(c).spent = Nothing
      /\ [Moved(c) EXCEPT !.calls = @ + 1].st = "walk"
      /\ [Moved(c) EXCEPT !.calls = @ + 1].todo = Tail(c.todo)
      /\ [Moved(c) EXCEPT !.calls = @ + 1].spent = Nothing
  BY <1>1 DEF Moved, CycleState
<1> DEFINE x == Moved(c)
           y == [Moved(c) EXCEPT !.calls = @ + 1]
<1> HIDE DEF x, y
<1> QED  BY <1>3, <1>4, <1>5 DEF Sound, InCall

(* What an attempt may come to. *)
LEMMA AnswerSound ==
    ASSUME NEW a \in Answers
    PROVE  /\ a.kind \in Kinds /\ a.spent \in Spending
           /\ a.spent.cost <= Max(Costs) /\ a.spent.cost \in Nat
           /\ retryable(a.kind) => a.spent.cost = 0
<1>0. Max(Costs) \in Nat /\ Costs \subseteq Nat
  BY MaxCost, TranslationAssumption
<1>1. CASE a \in Priced
  <2>1. PICK k \in {"ok", "unusable"}, c \in Costs : a = [kind |-> k, spent |-> [cost |-> c, unmetered |-> 0]]
    BY <1>1 DEF Priced
  <2> QED  BY <1>0, <2>1, MaxCost DEF Kinds, Spending, retryable
<1>2. CASE a \in Unmetered
  BY <1>0, <1>2 DEF Unmetered, Kinds, Spending, retryable
<1>3. CASE a \in Free
  BY <1>0, <1>3 DEF Free, Kinds, Spending, retryable, Nothing
<1> QED  BY <1>1, <1>2, <1>3 DEF Answers

(* Spending adds up. *)
LEMMA PlusType ==
    ASSUME NEW a \in Spending, NEW b \in Spending
    PROVE  Plus(a, b) \in Spending
BY DEF Plus, Spending

(* Every step of a worker is one of the moves, and leaves its cycle sound. *)
LEMMA CycleStepMoves ==
    ASSUME ItemsKept, TranslationInv, NEW w \in Workers, CycleStep(w)
    PROVE  /\ month' = month
           /\ \E c : Sound(c) /\ cycle' = [cycle EXCEPT ![w] = c] /\ CycleMoves(w, c)
<1> DEFINE d == cycle[w]
<1>0. Sound(d) /\ d \in CycleState
  BY CycleSound DEF Sound
<1>a. month' = month
  BY DEF CycleStep, RunOnce, ListPage, PageEnds, translatePair, Translate, Settled, uncommittedSpend,
         CommitUnheard, ClaimDies, WorkerStops
<1>b. Calling(w) <=> InCall(d)
  BY DEF Calling, InCall
<1> HIDE DEF d
<1>c. ASSUME NEW x, Sound(x), cycle' = [cycle EXCEPT ![w] = x], CycleMoves(w, x)
      PROVE  \E c : Sound(c) /\ cycle' = [cycle EXCEPT ![w] = c] /\ CycleMoves(w, c)
  BY <1>c
<1>d. \A x : Idles(w, x) \/ Begins(w, x) \/ Asks(w, x) \/ Unclaims(w, x) \/ Closes(w, x) \/ Drops(w, x)
                => CycleMoves(w, x)
  BY DEF CycleMoves
<1>1. CASE RunOnce(w)
  <2> DEFINE x == [d EXCEPT !.st = "list"]
  <2>1. cycle' = [cycle EXCEPT ![w] = x] /\ d = Resting /\ Untouched
    BY <1>1 DEF RunOnce, Untouched, d
  <2>2. x \in CycleState /\ x.st = "list" /\ x.todo = d.todo /\ x.spent = d.spent
    BY <1>0 DEF CycleState
  <2>3. d.spent = Nothing /\ ~ InCall(d)
    BY <2>1, RestingSound DEF Sound
  <2> HIDE DEF x
  <2>4. Sound(x) /\ ~ InCall(x)
    BY <1>0, <2>2, <2>3 DEF Sound, InCall
  <2>5. Idles(w, x)
    BY <1>b, <2>1, <2>3, <2>4 DEF Idles
  <2> QED  BY <1>a, <1>c, <1>d, <2>1, <2>4, <2>5
<1>2. CASE ListPage(w)
  <2>0. d.st = "list" /\ Untouched /\ ~ InCall(d) /\ d.spent = Nothing
    <3>1. d.st = "list" /\ Untouched
      BY <1>2 DEF ListPage, Untouched, d
    <3> QED  BY <3>1, <1>0 DEF InCall, Sound
  <2>1. CASE cycle' = [cycle EXCEPT ![w] = Resting]
    <3>1. Idles(w, Resting)
      BY <1>b, <2>0, RestingSound DEF Idles
    <3> QED  BY <1>a, <1>c, <1>d, <2>1, <3>1, RestingSound
  <2>2. CASE cycle' # [cycle EXCEPT ![w] = Resting]
    <3> DEFINE page == eligibleItems(cycle[w].after)
    <3>1. page \subseteq items
      BY DEF eligibleItems
    <3>2. PICK last \in page, list \in ListPairs(page) :
              cycle' = [cycle EXCEPT ![w] = [@ EXCEPT !.st = "walk", !.todo = list,
                                                      !.short = Cardinality(page) < CycleLimit,
                                                      !.after = last.at]]
      BY <1>2, <2>2 DEF ListPage
    <3>3. list \in Seq(PairSet) /\ \A k \in 1..Len(list) : \E i \in items : i.at = list[k][1]
      <4> HIDE DEF page
      <4> QED  BY <3>1, PagePairs
    <3>4. last.at \in Nat
      <4>1. last \in items /\ Cardinality(items) \in Nat
        BY <3>1, FS_CardinalityType DEF ItemsKept
      <4> QED  BY <4>1 DEF ItemsKept
    <3> DEFINE y == Cardinality(page) < CycleLimit
               z == last.at
               x == [d EXCEPT !.st = "walk", !.todo = list, !.short = y, !.after = z]
    <3>5. cycle' = [cycle EXCEPT ![w] = x]
      BY <3>2 DEF d
    <3>6. y \in BOOLEAN /\ z \in Nat
      BY <3>4
    <3> HIDE DEF y, z
    <3>7. x \in CycleState /\ x.st = "walk" /\ x.todo = list /\ x.spent = d.spent
      BY <1>0, <3>3, <3>6 DEF CycleState
    <3> HIDE DEF x
    <3>8. Sound(x) /\ ~ InCall(x)
      BY <2>0, <3>3, <3>7 DEF Sound, InCall
    <3>9. Idles(w, x)
      BY <1>b, <2>0, <3>8 DEF Idles
    <3> QED  BY <1>a, <1>c, <1>d, <3>5, <3>8, <3>9
  <2> QED  BY <2>1, <2>2
<1>3. CASE PageEnds(w)
  <2>0. d.st = "walk" /\ Untouched /\ ~ InCall(d) /\ d.spent = Nothing
    <3>1. d.st = "walk" /\ Untouched
      BY <1>3 DEF PageEnds, Untouched, d
    <3> QED  BY <3>1, <1>0 DEF InCall, Sound
  <2> DEFINE y == [d EXCEPT !.st = "list"]
             x == IF d.short THEN Resting ELSE y
  <2>1. cycle' = [cycle EXCEPT ![w] = x]
    BY <1>3 DEF PageEnds, d
  <2>2. y \in CycleState /\ y.st = "list" /\ y.todo = d.todo /\ y.spent = d.spent
    BY <1>0 DEF CycleState
  <2> HIDE DEF y
  <2>3. Sound(y) /\ ~ InCall(y)
    BY <1>0, <2>0, <2>2 DEF Sound, InCall
  <2>4. Sound(x) /\ ~ InCall(x)
    BY <2>3, RestingSound
  <2> HIDE DEF x
  <2>5. Idles(w, x)
    BY <1>b, <2>0, <2>4 DEF Idles
  <2> QED  BY <1>a, <1>c, <1>d, <2>1, <2>4, <2>5
<1>4. CASE translatePair(w)
  <2>0. d.st = "walk" /\ d.todo # <<>> /\ Untouched /\ ~ InCall(d) /\ d.spent = Nothing
    <3>1. d.st = "walk" /\ d.todo # <<>> /\ Untouched
      BY <1>4 DEF translatePair, Untouched, d
    <3> QED  BY <3>1, <1>0 DEF InCall, Sound
  <2>1. CASE Claimed(Pair(w)) \/ alreadyTranslated(Pair(w))
    <3>1. cycle' = [cycle EXCEPT ![w] = Moved(d)]
      BY <1>4, <2>1 DEF translatePair, d
    <3>2. Sound(Moved(d)) /\ ~ InCall(Moved(d))
      BY <1>0, <2>0, MovedSound
    <3>3. Idles(w, Moved(d))
      BY <1>b, <2>0, <3>2 DEF Idles
    <3> QED  BY <1>a, <1>c, <1>d, <3>1, <3>2, <3>3
  <2>2. CASE ~ (Claimed(Pair(w)) \/ alreadyTranslated(Pair(w))) /\ budgetStop(ThisMonth)
    <3>1. cycle' = [cycle EXCEPT ![w] = Resting]
      BY <1>4, <2>2 DEF translatePair
    <3>2. Idles(w, Resting)
      BY <1>b, <2>0, RestingSound DEF Idles
    <3> QED  BY <1>a, <1>c, <1>d, <3>1, <3>2, RestingSound
  <2>3. CASE ~ (Claimed(Pair(w)) \/ alreadyTranslated(Pair(w))) /\ ~ budgetStop(ThisMonth)
    <3> DEFINE x == [d EXCEPT !.st = "call", !.month = month, !.live = TRUE]
    <3>1. cycle' = [cycle EXCEPT ![w] = x]
      BY <1>4, <2>3 DEF translatePair, d
    <3>2. month \in Months /\ month \in 0..2
      BY DEF TranslationInv, CycleTypes, Months
    <3>3. x \in CycleState /\ x.st = "call" /\ x.todo = d.todo /\ x.spent = d.spent /\ x.month = month
      BY <1>0, <3>2 DEF CycleState
    <3> HIDE DEF x
    <3>4. Nothing.cost = 0
      BY DEF Nothing
    <3>5. Sound(x) /\ InCall(x)
      BY <1>0, <2>0, <3>2, <3>3, <3>4 DEF Sound, InCall
    <3>6. Begins(w, x)
      BY <1>b, <2>0, <2>3, <3>3 DEF Begins, alreadyTranslated, budgetStop, ThisMonth, d
    <3> QED  BY <1>a, <1>c, <1>d, <3>1, <3>5, <3>6
  <2> QED  BY <2>1, <2>2, <2>3
<1>5. CASE Translate(w)
  <2>0. d.st = "call" /\ InCall(d) /\ UNCHANGED <<translation, spend, lost>>
    BY <1>5 DEF Translate, InCall, d
  <2>1. PICK a \in Answers :
          /\ cycle' = [cycle EXCEPT ![w].spent = withSpend(@, a),
                                    ![w].tries = @ + 1,
                                    ![w].answer = a.kind,
                                    ![w].st = IF retryable(a.kind) /\ cycle[w].tries + 1 < CallAttempts
                                              THEN @ ELSE "settle"]
          /\ billed' = [billed EXCEPT ![cycle[w].month] = Plus(@, a.spent)]
    BY <1>5 DEF Translate
  <2> DEFINE s == Plus(d.spent, a.spent)
             again == retryable(a.kind) /\ d.tries + 1 < CallAttempts
             x == [d EXCEPT !.spent = s, !.tries = @ + 1, !.answer = a.kind, !.st = IF again THEN @ ELSE "settle"]
  <2>2. cycle' = [cycle EXCEPT ![w] = x]
    BY <2>1 DEF withSpend, d
  <2>3. /\ a.kind \in Kinds /\ a.spent \in Spending /\ a.spent.cost <= Max(Costs)
        /\ a.spent.cost \in Nat /\ (again => a.spent.cost = 0)
    BY AnswerSound
  <2>4. d.spent \in Spending /\ d.tries + 1 \in Nat /\ d.spent.cost = 0
    BY <1>0, <2>0 DEF CycleState, Sound
  <2>5. s \in Spending /\ s.cost = a.spent.cost
    <3>1. s \in Spending
      BY <2>3, <2>4, PlusType
    <3>2. s.cost = d.spent.cost + a.spent.cost
      BY DEF Plus
    <3> QED  BY <2>3, <2>4, <3>1, <3>2
  <2>6. again \in BOOLEAN
    BY DEF retryable
  <2>s. s = Plus(d.spent, a.spent)
    OBVIOUS
  <2> HIDE DEF s, again
  <2>7. /\ x \in CycleState /\ x.st = (IF again THEN "call" ELSE "settle")
        /\ x.todo = d.todo /\ x.spent = s /\ x.month = d.month /\ x.live = d.live
    BY <1>0, <2>0, <2>3, <2>4, <2>5, <2>6 DEF CycleState
  <2> HIDE DEF x
  <2>8. Sound(x) /\ InCall(x)
    BY <1>0, <2>0, <2>3, <2>5, <2>6, <2>7 DEF Sound, InCall
  <2>9. Asks(w, x)
    BY <1>b, <2>0, <2>1, <2>7, <2>8, <2>s DEF Asks, Same, d
  <2> QED  BY <1>a, <1>c, <1>d, <2>2, <2>8, <2>9
<1>6. CASE Settled(w)
  <2>0. /\ d.st = "settle" /\ InCall(d) /\ d.todo # <<>> /\ (NeedsWrite(w) => cycle[w].live)
        /\ Record(w) /\ UNCHANGED <<billed, lost>>
    BY <1>0, <1>6 DEF Settled, InCall, Sound, d
  <2> DEFINE stop == NeedsWrite(w) /\ spend'[d.month].halted
             y == [Moved(d) EXCEPT !.calls = @ + 1]
             over == providerFailure(d.answer) \/ stop \/ d.calls + 1 >= CycleLimit
             x == IF over THEN Resting ELSE y
  <2>1. cycle' = [cycle EXCEPT ![w] = x]
    BY <1>6 DEF Settled, d
  <2>2. Sound(y) /\ ~ InCall(y)
    BY <1>0, <2>0, MovedSound
  <2> HIDE DEF y, over
  <2>3. Sound(x) /\ ~ InCall(x)
    BY <2>2, RestingSound
  <2> HIDE DEF x
  <2>4. Closes(w, x)
    BY <2>0, <2>3 DEF Closes, d
  <2> QED  BY <1>a, <1>c, <1>d, <2>1, <2>3, <2>4
<1>7. CASE uncommittedSpend(w)
  <2>1. Drops(w, Resting)
    BY <1>7, RestingSound DEF uncommittedSpend, Forgone, Drops, Calling
  <2> QED  BY <1>7, <1>a, <1>c, <1>d, <2>1, RestingSound DEF uncommittedSpend
<1>8. CASE CommitUnheard(w)
  <2>1. Closes(w, Resting)
    BY <1>8, RestingSound DEF CommitUnheard, Closes
  <2> QED  BY <1>8, <1>a, <1>c, <1>d, <2>1, RestingSound DEF CommitUnheard
<1>9. CASE ClaimDies(w)
  <2> DEFINE x == [d EXCEPT !.live = FALSE]
  <2>1. cycle' = [cycle EXCEPT ![w] = x] /\ InCall(d) /\ Untouched
    BY <1>9, <1>b DEF ClaimDies, Untouched, d
  <2>2. /\ x \in CycleState /\ x.st = d.st /\ x.todo = d.todo /\ x.spent = d.spent /\ x.month = d.month
        /\ x.live = FALSE
    BY <1>0 DEF CycleState
  <2> HIDE DEF x
  <2>3. Sound(x) /\ InCall(x)
    BY <1>0, <2>1, <2>2 DEF Sound, InCall
  <2>4. Unclaims(w, x)
    BY <1>b, <2>1, <2>2, <2>3 DEF Unclaims, Same, d
  <2> QED  BY <1>a, <1>c, <1>d, <2>1, <2>3, <2>4
<1>10. CASE WorkerStops(w)
  <2>1. cycle' = [cycle EXCEPT ![w] = Resting]
    BY <1>10 DEF WorkerStops
  <2>2. CASE Calling(w)
    <3>1. Drops(w, Resting)
      BY <1>10, <2>2, RestingSound DEF WorkerStops, Forgone, Drops
    <3> QED  BY <1>a, <1>c, <1>d, <2>1, <3>1, RestingSound
  <2>3. CASE ~ Calling(w)
    <3>1. Idles(w, Resting)
      BY <1>10, <2>3, RestingSound DEF WorkerStops, Forgone, Idles, Untouched
    <3> QED  BY <1>a, <1>c, <1>d, <2>1, <3>1, RestingSound
  <2> QED  BY <2>2, <2>3
<1> QED  BY <1>a, <1>1, <1>2, <1>3, <1>4, <1>5, <1>6, <1>7, <1>8, <1>9, <1>10 DEF CycleStep

------------------------------------------------------------------------------
(* The month's ledger.                                                     *)

(* What a worker's open call adds to what is outstanding in a month. *)
Part(w, m) == IF w \in OpenCalls(m) THEN cycle[w].spent ELSE Nothing

(* What is outstanding is typed. *)
LEMMA OutstandingType ==
    ASSUME CycleTypes, NEW m
    PROVE  Outstanding(m) \in Spending
<1> DEFINE f == [w \in Workers |-> cycle[w].spent.cost]
           g == [w \in Workers |-> cycle[w].spent.unmetered]
<1>1. IsFiniteSet(OpenCalls(m)) /\ OpenCalls(m) \subseteq Workers
  BY TranslationAssumption, FS_Subset DEF OpenCalls
<1>2. \A w \in Workers : f[w] \in Nat /\ g[w] \in Nat
  BY DEF CycleTypes, CycleState, Spending
<1>3. Outstanding(m) = [cost |-> Sum(f, OpenCalls(m)), unmetered |-> Sum(g, OpenCalls(m))]
  BY DEF Outstanding, Sum
<1> HIDE DEF f, g
<1>4. Sum(f, OpenCalls(m)) \in Nat /\ Sum(g, OpenCalls(m)) \in Nat
  BY <1>1, <1>2, SumNat
<1> QED  BY <1>3, <1>4 DEF Spending

(* A step of one worker changes what is outstanding by that worker's part. *)
LEMMA OutstandingStep ==
    ASSUME CycleTypes, CycleTypes', NEW w \in Workers, NEW m \in Months,
           \A v \in Workers : v # w => cycle'[v] = cycle[v]
    PROVE  /\ Outstanding(m)' \in Spending
           /\ Outstanding(m)'.cost = Outstanding(m).cost + (Part(w, m)'.cost - Part(w, m).cost)
           /\ Outstanding(m)'.unmetered = Outstanding(m).unmetered + (Part(w, m)'.unmetered - Part(w, m).unmetered)
<1> DEFINE f == [v \in Workers |-> cycle[v].spent.cost]
           g == [v \in Workers |-> cycle[v].spent.unmetered]
           F == [v \in Workers |-> cycle'[v].spent.cost]
           G == [v \in Workers |-> cycle'[v].spent.unmetered]
           T == OpenCalls(m)
           U == OpenCalls(m)'
<1>0. IsFiniteSet(Workers) /\ T \in SUBSET Workers /\ U \in SUBSET Workers
  BY TranslationAssumption DEF OpenCalls
<1>1. \A v \in Workers : f[v] \in Nat /\ g[v] \in Nat /\ F[v] \in Nat /\ G[v] \in Nat
  BY DEF CycleTypes, CycleState, Spending
<1>2. Outstanding(m).cost = Sum(f, T) /\ Outstanding(m).unmetered = Sum(g, T)
  BY DEF Outstanding, Sum
<1>3. Outstanding(m)'.cost = Sum(F, U) /\ Outstanding(m)'.unmetered = Sum(G, U)
  BY DEF Outstanding, Sum
<1>4. \A v \in Workers : v # w => (v \in T <=> v \in U) /\ f[v] = F[v] /\ g[v] = G[v]
  BY DEF OpenCalls, Calling
<1>5. /\ Part(w, m).cost = (IF w \in T THEN f[w] ELSE 0) /\ Part(w, m).unmetered = (IF w \in T THEN g[w] ELSE 0)
      /\ Part(w, m)'.cost = (IF w \in U THEN F[w] ELSE 0) /\ Part(w, m)'.unmetered = (IF w \in U THEN G[w] ELSE 0)
  BY DEF Part, Nothing
<1> HIDE DEF f, g, F, G, T, U
<1>6. ASSUME NEW a, NEW b, \A v \in Workers : a[v] \in Nat /\ b[v] \in Nat,
             \A v \in Workers : v # w => a[v] = b[v]
      PROVE  Sum(b, U) = Sum(a, T) + ((IF w \in U THEN b[w] ELSE 0) - (IF w \in T THEN a[w] ELSE 0))
  <2> DEFINE x == [v \in Workers |-> IF v \in T THEN a[v] ELSE 0]
             y == [v \in Workers |-> IF v \in U THEN b[v] ELSE 0]
  <2>1. Sum(x, Workers) = Sum(a, T) /\ Sum(y, Workers) = Sum(b, U)
    BY <1>0, <1>6, SumWhere
  <2>2. \A v \in Workers : x[v] \in Int /\ y[v] \in Int
    BY <1>6
  <2>3. \A v \in Workers : v # w => x[v] = y[v]
    BY <1>4, <1>6
  <2>4. x[w] = (IF w \in T THEN a[w] ELSE 0) /\ y[w] = (IF w \in U THEN b[w] ELSE 0)
    OBVIOUS
  <2> HIDE DEF x, y
  <2>5. Sum(y, Workers) = Sum(x, Workers) + (y[w] - x[w])
    BY <1>0, <2>2, <2>3, SumChange
  <2> QED  BY <2>1, <2>4, <2>5
<1>7. Sum(F, U) = Sum(f, T) + ((IF w \in U THEN F[w] ELSE 0) - (IF w \in T THEN f[w] ELSE 0))
  BY <1>1, <1>4, <1>6
<1>8. Sum(G, U) = Sum(g, T) + ((IF w \in U THEN G[w] ELSE 0) - (IF w \in T THEN g[w] ELSE 0))
  BY <1>1, <1>4, <1>6
<1>9. Sum(F, U) \in Nat /\ Sum(G, U) \in Nat
  <2>1. IsFiniteSet(U) /\ \A v \in U : F[v] \in Nat /\ G[v] \in Nat
    BY <1>0, <1>1, FS_Subset
  <2> QED  BY <2>1, SumNat
<1>10. Outstanding(m)' = [cost |-> Outstanding(m)'.cost, unmetered |-> Outstanding(m)'.unmetered]
  BY DEF Outstanding
<1>11. Outstanding(m)' \in Spending
  BY <1>3, <1>9, <1>10 DEF Spending
<1> QED  BY <1>2, <1>3, <1>5, <1>7, <1>8, <1>11

(* What a recorded call makes of the table of spending. *)
LEMMA RecordSpendType ==
    ASSUME CycleTypes, NEW w \in Workers, cycle[w].month \in Months, RecordSpend(w)
    PROVE  /\ spend' \in [Months -> [total : Spending, halted : BOOLEAN]]
           /\ \A m \in Months : m # cycle[w].month => spend'[m] = spend[m]
           /\ spend'[cycle[w].month].total = Plus(spend[cycle[w].month].total, cycle[w].spent)
           /\ \/ spend'[cycle[w].month] = spend[cycle[w].month]
              \/ spend'[cycle[w].month].halted =
                    (spend[cycle[w].month].halted \/ Reached(spend'[cycle[w].month].total))
<1> DEFINE k == cycle[w].month
           s == cycle[w].spent
<1>0. spend \in [Months -> [total : Spending, halted : BOOLEAN]] /\ s \in Spending
  BY DEF CycleTypes, CycleState
<1>1. spend[k].total \in Spending /\ Plus(spend[k].total, s) \in Spending /\ spend[k].halted \in BOOLEAN
  BY <1>0, PlusType
<1>r. RecordSpend(w) <=> spend' = IF s = Nothing THEN spend ELSE [spend EXCEPT ![k] = settle(@, s)]
  BY DEF RecordSpend
<1>k. k \in Months
  OBVIOUS
<1> HIDE DEF k, s
<1>2. CASE s = Nothing
  <2>1. Plus(spend[k].total, s) = spend[k].total
    BY <1>1, <1>2 DEF Plus, Nothing, Spending
  <2>2. spend' = spend
    BY <1>r, <1>2
  <2> QED  BY <1>0, <2>1, <2>2 DEF k, s
<1>3. CASE s # Nothing
  <2> DEFINE x == settle(spend[k], s)
  <2>1. spend' = [spend EXCEPT ![k] = x]
    BY <1>r, <1>3
  <2>2. /\ x.total = Plus(spend[k].total, s) /\ x.halted = (spend[k].halted \/ Reached(x.total))
        /\ x \in [total : Spending, halted : BOOLEAN]
    <3>1. x = [total |-> Plus(spend[k].total, s), halted |-> spend[k].halted \/ Reached(Plus(spend[k].total, s))]
      BY DEF settle, Halt
    <3> QED  BY <3>1, <1>1
  <2> HIDE DEF x
  <2>3. spend' \in [Months -> [total : Spending, halted : BOOLEAN]]
    BY <1>0, <1>k, <2>1, <2>2
  <2>4. spend'[k] = x /\ \A m \in Months : m # k => spend'[m] = spend[m]
    BY <1>0, <1>k, <2>1
  <2> QED  BY <2>2, <2>3, <2>4 DEF k, s
<1> QED  BY <1>2, <1>3

(* The types of a worker's step. *)
LEMMA CycleTypesKept ==
    ASSUME TranslationInv, NEW w \in Workers, NEW c, Sound(c), cycle' = [cycle EXCEPT ![w] = c],
           CycleMoves(w, c), month' = month
    PROVE  /\ CycleTypes' /\ CostsBounded'
           /\ cycle'[w] = c /\ \A v \in Workers : v # w => cycle'[v] = cycle[v]
           /\ \A v \in Workers : Sound(cycle'[v])
<1>0. CycleTypes /\ cycle \in [Workers -> CycleState]
  BY DEF TranslationInv, CycleTypes
<1>1. cycle'[w] = c /\ \A v \in Workers : v # w => cycle'[v] = cycle[v]
  BY <1>0
<1>2. \A v \in Workers : Sound(cycle'[v])
  BY <1>1, CycleSound
<1>3. cycle' \in [Workers -> CycleState]
  BY <1>0 DEF Sound
<1>4. Calling(w) => cycle[w].month \in Months
  BY <1>0 DEF CycleTypes
<1>5. spend' \in [Months -> [total : Spending, halted : BOOLEAN]]
  <2>1. CASE Closes(w, c)
    <3>1. RecordSpend(w) /\ Calling(w)
      BY <2>1 DEF Closes, Record, Calling
    <3> QED  BY <1>0, <1>4, <3>1, RecordSpendType
  <2>2. CASE ~ Closes(w, c)
    <3>1. spend' = spend
      BY <2>2 DEF CycleMoves, Idles, Begins, Asks, Unclaims, Drops, Untouched
    <3> QED  BY <3>1, <1>0 DEF CycleTypes
  <2> QED  BY <2>1, <2>2
<1>6. billed' \in [Months -> Spending]
  <2>1. CASE Asks(w, c)
    <3>1. PICK a \in Answers : billed' = [billed EXCEPT ![cycle[w].month] = Plus(@, a.spent)]
      BY <2>1 DEF Asks
    <3>2. cycle[w].month \in Months
      BY <1>4, <2>1 DEF Asks
    <3>3. a.spent \in Spending
      BY AnswerSound
    <3>4. Plus(billed[cycle[w].month], a.spent) \in Spending
      BY <1>0, <3>2, <3>3, PlusType DEF CycleTypes
    <3> QED  BY <1>0, <3>1, <3>4 DEF CycleTypes
  <2>2. CASE ~ Asks(w, c)
    <3>1. billed' = billed
      BY <2>2 DEF CycleMoves, Idles, Begins, Closes, Unclaims, Drops, Untouched
    <3> QED  BY <3>1, <1>0 DEF CycleTypes
  <2> QED  BY <2>1, <2>2
<1>7. lost' \in [Months -> Spending]
  <2>1. CASE Drops(w, c)
    <3>1. lost' = [lost EXCEPT ![cycle[w].month] = Plus(@, cycle[w].spent)] /\ cycle[w].month \in Months
      BY <1>4, <2>1 DEF Drops
    <3>2. cycle[w].spent \in Spending
      BY <1>0 DEF CycleState
    <3>3. Plus(lost[cycle[w].month], cycle[w].spent) \in Spending
      BY <1>0, <3>1, <3>2, PlusType DEF CycleTypes
    <3> QED  BY <1>0, <3>1, <3>3 DEF CycleTypes
  <2>2. CASE ~ Drops(w, c)
    <3>1. lost' = lost
      BY <2>2 DEF CycleMoves, Idles, Begins, Closes, Unclaims, Asks, Untouched
    <3> QED  BY <3>1, <1>0 DEF CycleTypes
  <2> QED  BY <2>1, <2>2
<1>8. CycleTypes'
  BY <1>0, <1>2, <1>3, <1>5, <1>6, <1>7 DEF CycleTypes, Sound, InCall, Calling
<1>9. CostsBounded'
  BY <1>2 DEF CostsBounded, Sound
<1> QED  BY <1>1, <1>2, <1>8, <1>9

(* Amounts that agree are the same. *)
LEMMA SameSpending ==
    ASSUME NEW a \in Spending, NEW b \in Spending, a.cost = b.cost, a.unmetered = b.unmetered
    PROVE  a = b
BY DEF Spending

(* What was charged stays accounted for. *)
LEMMA LedgerStep ==
    ASSUME TranslationInv, NEW w \in Workers, NEW c, Sound(c), cycle' = [cycle EXCEPT ![w] = c],
           CycleMoves(w, c), month' = month
    PROVE  LedgerKept'
<1>0. /\ CycleTypes /\ CycleTypes' /\ cycle'[w] = c
      /\ \A v \in Workers : v # w => cycle'[v] = cycle[v]
  BY CycleTypesKept DEF TranslationInv
<1> SUFFICES ASSUME NEW m \in Months
             PROVE  /\ Plus(Plus(spend'[m].total, lost'[m]), Outstanding(m)') = billed'[m]
                    /\ Reached(spend'[m].total) => spend'[m].halted
  BY DEF LedgerKept, Reached, Plus
<1> DEFINE k == cycle[w].month
           d == cycle[w]
           O == Outstanding(m)
           P == Outstanding(m)'
           R == Part(w, m)
           Q == Part(w, m)'
<1>1. /\ spend[m].total \in Spending /\ lost[m] \in Spending /\ billed[m] \in Spending
      /\ spend'[m].total \in Spending /\ lost'[m] \in Spending /\ billed'[m] \in Spending
      /\ d.spent \in Spending /\ c.spent \in Spending
  BY <1>0 DEF CycleTypes, CycleState, Sound
<1>2. O \in Spending /\ P \in Spending
  BY <1>0, OutstandingType, OutstandingStep
<1>3. P.cost = O.cost + (Q.cost - R.cost) /\ P.unmetered = O.unmetered + (Q.unmetered - R.unmetered)
  BY <1>0, OutstandingStep
<1>4. /\ R = (IF InCall(d) /\ k = m THEN d.spent ELSE Nothing)
      /\ Q = (IF InCall(c) /\ c.month = m THEN c.spent ELSE Nothing)
      /\ InCall(d) => k \in Months
      /\ Calling(w) <=> InCall(d)
  BY <1>0 DEF Part, OpenCalls, Calling, InCall, CycleTypes
<1>5. Nothing \in Spending /\ Nothing.cost = 0 /\ Nothing.unmetered = 0
  BY DEF Nothing, Spending
<1>6. /\ Plus(Plus(spend[m].total, lost[m]), O) = billed[m]
      /\ Reached(spend[m].total) => spend[m].halted
  BY DEF TranslationInv, LedgerKept
<1>7. /\ spend[m].total.cost + lost[m].cost + O.cost = billed[m].cost
      /\ spend[m].total.unmetered + lost[m].unmetered + O.unmetered = billed[m].unmetered
  <2> HIDE DEF O
  <2> QED  BY <1>1, <1>2, <1>6 DEF Plus, Spending
<1> HIDE DEF O, P, R, Q
<1>8. ASSUME spend'[m].total.cost + lost'[m].cost + P.cost = billed'[m].cost,
             spend'[m].total.unmetered + lost'[m].unmetered + P.unmetered = billed'[m].unmetered
      PROVE  Plus(Plus(spend'[m].total, lost'[m]), P) = billed'[m]
  <2> DEFINE x == Plus(Plus(spend'[m].total, lost'[m]), P)
  <2>1. x \in Spending
    BY <1>1, <1>2, PlusType
  <2>2. /\ x.cost = spend'[m].total.cost + lost'[m].cost + P.cost
        /\ x.unmetered = spend'[m].total.unmetered + lost'[m].unmetered + P.unmetered
    BY DEF Plus
  <2> HIDE DEF x
  <2>3. x = billed'[m]
    BY <1>1, <1>8, <2>1, <2>2, SameSpending
  <2> QED  BY <2>3 DEF x
<1>n. /\ \A x \in Spending : x.cost \in Nat /\ x.unmetered \in Nat
      /\ \A x, y : Plus(x, y).cost = x.cost + y.cost /\ Plus(x, y).unmetered = x.unmetered + y.unmetered
  BY DEF Spending, Plus
<1>9. CASE Idles(w, c) \/ Begins(w, c) \/ Unclaims(w, c)
  <2>1. spend' = spend /\ lost' = lost /\ billed' = billed
    BY <1>9 DEF Idles, Begins, Unclaims, Untouched
  <2>2. Q = R
    BY <1>4, <1>9 DEF Idles, Begins, Unclaims, Same, InCall
  <2>3. R \in Spending
    BY <1>1, <1>4, <1>5
  <2>4. P.cost = O.cost /\ P.unmetered = O.unmetered
    BY <1>2, <1>3, <1>n, <2>2, <2>3
  <2>5. Plus(Plus(spend'[m].total, lost'[m]), P) = billed'[m]
    BY <1>7, <1>8, <2>1, <2>4
  <2> QED  BY <1>6, <2>1, <2>5 DEF P
<1>10. CASE Asks(w, c)
  <2>1. PICK a \in Answers : /\ c.spent = Plus(d.spent, a.spent)
                             /\ billed' = [billed EXCEPT ![k] = Plus(@, a.spent)]
    BY <1>10 DEF Asks
  <2>2. a.spent \in Spending
    BY AnswerSound
  <2>3. spend' = spend /\ lost' = lost /\ InCall(d) /\ InCall(c) /\ c.month = k /\ k \in Months
    BY <1>4, <1>10 DEF Asks, Same
  <2>4. billed \in [Months -> Spending]
    BY <1>0 DEF CycleTypes
  <2>5. CASE k # m
    <3>1. Q = R /\ R = Nothing /\ billed'[m] = billed[m]
      BY <1>4, <2>1, <2>3, <2>4, <2>5
    <3>2. P.cost = O.cost /\ P.unmetered = O.unmetered
      BY <1>2, <1>3, <1>5, <1>n, <3>1
    <3>3. Plus(Plus(spend'[m].total, lost'[m]), P) = billed'[m]
      BY <1>7, <1>8, <2>3, <3>1, <3>2
    <3> QED  BY <1>6, <2>3, <3>3 DEF P
  <2>6. CASE k = m
    <3>1. R = d.spent /\ Q = Plus(d.spent, a.spent) /\ billed'[m] = Plus(billed[m], a.spent)
      BY <1>4, <2>1, <2>3, <2>4, <2>6
    <3>2. P.cost = O.cost + a.spent.cost /\ P.unmetered = O.unmetered + a.spent.unmetered
      BY <1>1, <1>2, <1>3, <1>n, <2>2, <3>1
    <3>4. billed'[m].cost = billed[m].cost + a.spent.cost /\ billed'[m].unmetered = billed[m].unmetered + a.spent.unmetered
      BY <1>n, <3>1
    <3>3. Plus(Plus(spend'[m].total, lost'[m]), P) = billed'[m]
      <4>1. spend'[m].total.cost + lost'[m].cost + P.cost = billed'[m].cost
        BY <1>1, <1>2, <1>7, <1>n, <2>2, <2>3, <3>2, <3>4
      <4>2. spend'[m].total.unmetered + lost'[m].unmetered + P.unmetered = billed'[m].unmetered
        BY <1>1, <1>2, <1>7, <1>n, <2>2, <2>3, <3>2, <3>4
      <4> QED  BY <1>8, <4>1, <4>2
    <3> QED  BY <1>6, <2>3, <3>3 DEF P
  <2> QED  BY <2>5, <2>6
<1>11. CASE Closes(w, c)
  <2>1. InCall(d) /\ ~ InCall(c) /\ k \in Months /\ billed' = billed /\ lost' = lost /\ RecordSpend(w)
    BY <1>4, <1>11 DEF Closes, InCall, Record
  <2>2. /\ \A n \in Months : n # k => spend'[n] = spend[n]
        /\ spend'[k].total = Plus(spend[k].total, d.spent)
        /\ \/ spend'[k] = spend[k]
           \/ spend'[k].halted = (spend[k].halted \/ Reached(spend'[k].total))
    BY <1>0, <2>1, RecordSpendType
  <2>3. CASE k # m
    <3>1. Q = R /\ R = Nothing /\ spend'[m] = spend[m]
      BY <1>4, <2>1, <2>2, <2>3
    <3>2. P.cost = O.cost /\ P.unmetered = O.unmetered
      BY <1>2, <1>3, <1>5, <1>n, <3>1
    <3>3. Plus(Plus(spend'[m].total, lost'[m]), P) = billed'[m]
      BY <1>7, <1>8, <2>1, <3>1, <3>2
    <3> QED  BY <1>6, <3>1, <3>3 DEF P
  <2>4. CASE k = m
    <3>1. R = d.spent /\ Q = Nothing /\ spend'[m].total = Plus(spend[m].total, d.spent)
      BY <1>4, <2>1, <2>2, <2>4
    <3>2. P.cost = O.cost - d.spent.cost /\ P.unmetered = O.unmetered - d.spent.unmetered
      BY <1>1, <1>2, <1>3, <1>5, <1>n, <3>1
    <3>3. /\ spend'[m].total.cost = spend[m].total.cost + d.spent.cost
          /\ spend'[m].total.unmetered = spend[m].total.unmetered + d.spent.unmetered
      BY <1>n, <3>1
    <3>4. Plus(Plus(spend'[m].total, lost'[m]), P) = billed'[m]
      <4>1. spend'[m].total.cost + lost'[m].cost + P.cost = billed'[m].cost
        BY <1>1, <1>2, <1>7, <1>n, <2>1, <3>2, <3>3
      <4>2. spend'[m].total.unmetered + lost'[m].unmetered + P.unmetered = billed'[m].unmetered
        BY <1>1, <1>2, <1>7, <1>n, <2>1, <3>2, <3>3
      <4> QED  BY <1>8, <4>1, <4>2
    <3>5. Reached(spend'[m].total) => spend'[m].halted
      BY <1>6, <2>2, <2>4
    <3> QED  BY <3>4, <3>5 DEF P
  <2> QED  BY <2>3, <2>4
<1>12. CASE Drops(w, c)
  <2>1. /\ InCall(d) /\ ~ InCall(c) /\ k \in Months /\ billed' = billed /\ spend' = spend
        /\ lost' = [lost EXCEPT ![k] = Plus(@, d.spent)] /\ lost \in [Months -> Spending]
    BY <1>0, <1>4, <1>12 DEF Drops, CycleTypes
  <2>3. CASE k # m
    <3>1. Q = R /\ R = Nothing /\ lost'[m] = lost[m]
      BY <1>4, <2>1, <2>3
    <3>2. P.cost = O.cost /\ P.unmetered = O.unmetered
      BY <1>2, <1>3, <1>5, <1>n, <3>1
    <3>3. Plus(Plus(spend'[m].total, lost'[m]), P) = billed'[m]
      BY <1>7, <1>8, <2>1, <3>1, <3>2
    <3> QED  BY <1>6, <2>1, <3>3 DEF P
  <2>4. CASE k = m
    <3>1. R = d.spent /\ Q = Nothing /\ lost'[m] = Plus(lost[m], d.spent)
      BY <1>4, <2>1, <2>4
    <3>2. P.cost = O.cost - d.spent.cost /\ P.unmetered = O.unmetered - d.spent.unmetered
      BY <1>1, <1>2, <1>3, <1>5, <1>n, <3>1
    <3>3. lost'[m].cost = lost[m].cost + d.spent.cost /\ lost'[m].unmetered = lost[m].unmetered + d.spent.unmetered
      BY <1>n, <3>1
    <3>4. Plus(Plus(spend'[m].total, lost'[m]), P) = billed'[m]
      <4>1. spend'[m].total.cost + lost'[m].cost + P.cost = billed'[m].cost
        BY <1>1, <1>2, <1>7, <1>n, <2>1, <3>2, <3>3
      <4>2. spend'[m].total.unmetered + lost'[m].unmetered + P.unmetered = billed'[m].unmetered
        BY <1>1, <1>2, <1>7, <1>n, <2>1, <3>2, <3>3
      <4> QED  BY <1>8, <4>1, <4>2
    <3> QED  BY <1>6, <2>1, <3>4 DEF P
  <2> QED  BY <2>3, <2>4
<1> QED  BY <1>9, <1>10, <1>11, <1>12 DEF CycleMoves

(* One more, times. *)
LEMMA TimesNext ==
    ASSUME NEW n \in Nat, NEW x \in Nat
    PROVE  (n + 1) * x = n * x + x /\ n * x \in Nat
OBVIOUS

(* The cap is passed by one call at most for each worker without a call open. *)
LEMMA CapStep ==
    ASSUME TranslationInv, NEW w \in Workers, NEW c, Sound(c), cycle' = [cycle EXCEPT ![w] = c],
           CycleMoves(w, c), month' = month
    PROVE  CapKept'
<1>0. /\ CycleTypes /\ CycleTypes' /\ cycle'[w] = c
      /\ \A v \in Workers : v # w => cycle'[v] = cycle[v]
  BY CycleTypesKept DEF TranslationInv
<1> DEFINE M == Max(Costs)
           d == cycle[w]
           k == d.month
<1> SUFFICES ASSUME NEW m \in Months
             PROVE  spend'[m].total.cost <= Monthly - 1 + Cardinality(Workers \ OpenCalls(m)') * Max(Costs)
  BY DEF CapKept
<1> DEFINE S == Workers \ OpenCalls(m)
           T == Workers \ OpenCalls(m)'
<1>1. M \in Nat /\ Monthly \in Nat
  BY MaxCost, CapsValid
<1>2. /\ IsFiniteSet(S) /\ IsFiniteSet(T) /\ Cardinality(S) \in Nat /\ Cardinality(T) \in Nat
  <2>1. IsFiniteSet(S) /\ IsFiniteSet(T)
    BY TranslationAssumption, FS_Subset
  <2> QED  BY <2>1, FS_CardinalityType
<1>3. /\ \A v \in Workers : v # w => (v \in S <=> v \in T)
      /\ w \in S <=> ~ (InCall(d) /\ k = m)
      /\ w \in T <=> ~ (InCall(c) /\ c.month = m)
      /\ S \subseteq Workers /\ T \subseteq Workers
  BY <1>0 DEF OpenCalls, Calling, InCall
<1>4. /\ spend[m].total.cost \in Nat /\ spend'[m].total.cost \in Nat
      /\ Calling(w) <=> InCall(d)
      /\ InCall(d) => k \in Months
      /\ d.spent.cost \in Nat
  BY <1>0 DEF CycleTypes, CycleState, Spending, Calling, InCall
<1>5. spend[m].total.cost <= Monthly - 1 + Cardinality(S) * M
  BY DEF TranslationInv, CapKept
<1> HIDE DEF S
<1>6. Cardinality(S) * M \in Nat /\ Cardinality(T) * M \in Nat
  <2> HIDE DEF M, T
  <2> QED  BY <1>1, <1>2, TimesNext
<1>7. ASSUME T = S, spend'[m] = spend[m]
      PROVE  spend'[m].total.cost <= Monthly - 1 + Cardinality(T) * M
  BY <1>5, <1>7
<1>8. ASSUME w \notin S, w \in T, spend'[m].total.cost <= spend[m].total.cost + M
      PROVE  spend'[m].total.cost <= Monthly - 1 + Cardinality(T) * M
  <2> HIDE DEF T, M
  <2>1. T = S \cup {w}
    BY <1>3, <1>8
  <2>2. Cardinality(T) = Cardinality(S) + 1
    BY <1>2, <1>8, <2>1, FS_AddElement
  <2>3. Cardinality(T) * M = Cardinality(S) * M + M
    BY <1>1, <1>2, <2>2, TimesNext
  <2> QED  BY <1>1, <1>4, <1>5, <1>6, <1>8, <2>3
<1>9. CASE Idles(w, c) \/ Unclaims(w, c) \/ Asks(w, c)
  <2>1. spend' = spend /\ (w \in S <=> w \in T)
    BY <1>3, <1>4, <1>9 DEF Idles, Unclaims, Asks, Untouched, Same
  <2>2. T = S
    <3> HIDE DEF T
    <3> QED  BY <1>3, <2>1
  <2> QED  BY <1>7, <2>1, <2>2
<1>10. CASE Begins(w, c)
  <2>1. spend' = spend /\ c.month = month /\ ~ InCall(d) /\ ~ Reached(spend[month].total)
    BY <1>4, <1>10 DEF Begins, Untouched
  <2>2. CASE m = month
    <3>1. spend'[m].total.cost < Monthly
      BY <1>1, <1>4, <2>1, <2>2 DEF Reached
    <3> HIDE DEF T, M
    <3> QED  BY <1>1, <1>4, <1>6, <3>1 DEF T, M
  <2>3. CASE m # month
    <3>1. T = S
      <4> HIDE DEF T
      <4> QED  BY <1>3, <2>1, <2>3
    <3> QED  BY <1>7, <2>1, <3>1
  <2> QED  BY <2>2, <2>3
<1>11. CASE Closes(w, c)
  <2>1. d.st = "settle" /\ InCall(d) /\ ~ InCall(c) /\ k \in Months /\ RecordSpend(w) /\ d.spent.cost <= M
    BY <1>4, <1>11 DEF Closes, InCall, Record, TranslationInv, CostsBounded
  <2>2. /\ \A n \in Months : n # k => spend'[n] = spend[n]
        /\ spend'[k].total = Plus(spend[k].total, d.spent)
    BY <1>0, <2>1, RecordSpendType
  <2>3. CASE k # m
    <3>1. T = S
      <4> HIDE DEF T
      <4> QED  BY <1>3, <2>1, <2>3
    <3> QED  BY <1>7, <2>2, <2>3, <3>1
  <2>4. CASE k = m
    <3>1. w \notin S /\ w \in T
      BY <1>3, <2>1, <2>4
    <3>2. spend'[m].total.cost = spend[m].total.cost + d.spent.cost
      BY <2>2, <2>4 DEF Plus
    <3>3. spend'[m].total.cost <= spend[m].total.cost + M
      <4> HIDE DEF M
      <4> QED  BY <1>1, <1>4, <2>1, <3>2
    <3> QED  BY <1>8, <3>1, <3>3
  <2> QED  BY <2>3, <2>4
<1>12. CASE Drops(w, c)
  <2>1. spend' = spend /\ InCall(d) /\ ~ InCall(c)
    BY <1>4, <1>12 DEF Drops
  <2>2. CASE k # m
    <3>1. T = S
      <4> HIDE DEF T
      <4> QED  BY <1>3, <2>1, <2>2
    <3> QED  BY <1>7, <2>1, <3>1
  <2>3. CASE k = m
    <3>1. w \notin S /\ w \in T
      BY <1>3, <2>1, <2>3
    <3>2. spend'[m].total.cost <= spend[m].total.cost + M
      <4> HIDE DEF M
      <4> QED  BY <1>1, <1>4, <2>1
    <3> QED  BY <1>8, <3>1, <3>2
  <2> QED  BY <2>2, <2>3
<1> QED  BY <1>9, <1>10, <1>11, <1>12 DEF CycleMoves

(* A pair that is recorded was claimed and had no translation. *)
LEMMA RecordPair ==
    ASSUME NEW w \in Workers, Record(w), NeedsWrite(w) => cycle[w].live
    PROVE  \/ translation' = translation
           \/ /\ translation' = translation \cup {[pair |-> Pair(w), spent |-> cycle[w].spent]}
              /\ cycle[w].live
              /\ ~ Translated(Pair(w))
BY DEF Record, NeedsWrite, Refusal

(* What a step adds to the translations: a pair of the worker's own, at most. *)
LEMMA TranslationStepAdds ==
    ASSUME NEW w \in Workers, NEW c, CycleMoves(w, c)
    PROVE  \/ translation' = translation
           \/ /\ translation' = translation \cup {[pair |-> Pair(w), spent |-> cycle[w].spent]}
              /\ cycle[w].live /\ cycle[w].st = "settle" /\ ~ InCall(c)
              /\ ~ Translated(Pair(w))
<1>1. CASE Closes(w, c)
  BY <1>1, RecordPair DEF Closes
<1>2. CASE ~ Closes(w, c)
  BY <1>2 DEF CycleMoves, Idles, Begins, Asks, Unclaims, Drops, Untouched
<1> QED  BY <1>1, <1>2

(* The pair of a cycle in a call. *)
LEMMA PairIs ==
    ASSUME TranslationInv, NEW w \in Workers, Calling(w)
    PROVE  Pair(w) \in PairSet /\ \E i \in items : i.at = Pair(w)[1]
<1>1. cycle[w].todo \in Seq(PairSet) /\ cycle[w].todo # <<>>
  BY DEF TranslationInv, CycleTypes, CycleState
<1>2. 1 \in 1..Len(cycle[w].todo) /\ cycle[w].todo[1] \in PairSet
  BY <1>1, TailOf
<1> QED  BY <1>2 DEF TranslationInv, PairsKept, Pair

(* Pairs stay pairs of items on record, each translated once. *)
LEMMA PairsStep ==
    ASSUME TranslationInv, NEW w \in Workers, NEW c, Sound(c), cycle' = [cycle EXCEPT ![w] = c],
           CycleMoves(w, c), month' = month, items' = items
    PROVE  PairsKept'
<1>1. \A v \in Workers : Sound(cycle'[v])
  BY CycleTypesKept
<1>2. \A v \in Workers : \A k \in 1..Len(cycle'[v].todo) : \E i \in items' : i.at = cycle'[v].todo[k][1]
  BY <1>1 DEF Sound
<1>3. /\ \A t \in translation : t.pair \in PairSet /\ \E i \in items : i.at = t.pair[1]
      /\ \A t, v \in translation : t.pair = v.pair => t = v
  BY DEF TranslationInv, PairsKept
<1>4. CASE translation' = translation
  BY <1>2, <1>3, <1>4 DEF PairsKept
<1>5. CASE translation' # translation
  <2> DEFINE x == [pair |-> Pair(w), spent |-> cycle[w].spent]
  <2>1. translation' = translation \cup {x} /\ x.pair = Pair(w) /\ Calling(w) /\ ~ Translated(Pair(w))
    BY <1>5, TranslationStepAdds DEF Calling
  <2> HIDE DEF x
  <2>2. x.pair \in PairSet /\ \E i \in items : i.at = x.pair[1]
    BY <2>1, PairIs
  <2>3. \A t \in translation : t.pair # x.pair
    BY <2>1 DEF Translated
  <2>4. \A t \in translation' : t.pair \in PairSet /\ \E i \in items' : i.at = t.pair[1]
    BY <1>3, <2>1, <2>2
  <2>5. \A t, v \in translation' : t.pair = v.pair => t = v
    BY <1>3, <2>1, <2>3
  <2> QED  BY <1>2, <2>4, <2>5 DEF PairsKept
<1> QED  BY <1>4, <1>5

(* Nobody pays for a pair that is translated or being paid for. *)
LEMMA PaidStep ==
    ASSUME TranslationInv, NEW w \in Workers, NEW c, Sound(c), cycle' = [cycle EXCEPT ![w] = c],
           CycleMoves(w, c), month' = month
    PROVE  PaidOnce'
<1>0. cycle'[w] = c /\ \A v \in Workers : v # w => cycle'[v] = cycle[v]
  BY CycleTypesKept
<1>1. \A v \in Workers : v # w => (Calling(v)' <=> Calling(v)) /\ Pair(v)' = Pair(v)
  BY <1>0 DEF Calling, Pair
<1>2. Calling(w)' <=> InCall(c)
  BY <1>0 DEF Calling, InCall
<1>p. PaidOnce
  BY DEF TranslationInv
(* A claim that lives was there before, or is the one just taken. *)
<1>3. ASSUME NEW v \in Workers, Calling(v)', cycle'[v].live
      PROVE  /\ ~ Translated(Pair(v)')
             /\ \/ Calling(v) /\ cycle[v].live /\ Pair(v)' = Pair(v)
                \/ v = w /\ Begins(w, c) /\ Pair(w)' = Pair(w)
  <2>1. CASE v # w
    BY <1>0, <1>1, <1>3, <1>p, <2>1 DEF PaidOnce
  <2>2. CASE v = w /\ ~ Begins(w, c)
    <3>1. InCall(c) /\ c.live
      BY <1>0, <1>2, <1>3, <2>2
    <3>2. Calling(w) /\ cycle[w].live /\ c.todo = cycle[w].todo
      BY <2>2, <3>1 DEF CycleMoves, Idles, Asks, Unclaims, Closes, Drops, Same
    <3>3. Pair(w)' = Pair(w)
      BY <1>0, <3>2 DEF Pair
    <3> QED  BY <1>p, <2>2, <3>2, <3>3 DEF PaidOnce
  <2>3. CASE v = w /\ Begins(w, c)
    <3>1. Pair(w)' = Pair(w)
      BY <1>0, <2>3 DEF Begins, Pair
    <3> QED  BY <2>3, <3>1 DEF Begins
  <2> QED  BY <2>1, <2>2, <2>3
<1>4. ASSUME NEW v \in Workers, Calling(v)', cycle'[v].live
      PROVE  ~ Translated(Pair(v))'
  <2>1. CASE translation' = translation
    BY <1>3, <1>4, <2>1 DEF Translated
  <2>2. CASE translation' # translation
    <3>1. /\ translation' = translation \cup {[pair |-> Pair(w), spent |-> cycle[w].spent]}
          /\ Calling(w) /\ cycle[w].live /\ ~ InCall(c)
      BY <2>2, TranslationStepAdds DEF Calling
    <3>2. v # w
      BY <1>2, <1>4, <3>1
    <3>3. Calling(v) /\ cycle[v].live /\ Pair(v)' = Pair(v)
      BY <1>0, <1>1, <1>4, <3>2
    <3>4. Pair(v) # Pair(w) /\ ~ Translated(Pair(v))
      BY <1>p, <3>1, <3>2, <3>3 DEF PaidOnce
    <3> QED  BY <3>1, <3>3, <3>4 DEF Translated
  <2> QED  BY <2>1, <2>2
<1>5. ASSUME NEW u \in Workers, NEW v \in Workers, u # v,
             Calling(u)', cycle'[u].live, Calling(v)', cycle'[v].live
      PROVE  Pair(v)' # Pair(u)'
  <2>1. CASE Begins(w, c) /\ w \in {u, v}
    <3>1. ~ Claimed(Pair(w)) /\ Pair(w)' = Pair(w)
      BY <1>0, <2>1 DEF Begins, Pair
    <3>2. ASSUME NEW x \in Workers, x # w, Calling(x)', cycle'[x].live PROVE Pair(x)' # Pair(w)'
      BY <1>0, <1>1, <3>1, <3>2 DEF Claimed
    <3> QED  BY <1>5, <2>1, <3>2
  <2>2. CASE ~ (Begins(w, c) /\ w \in {u, v})
    <3>1. /\ Calling(u) /\ cycle[u].live /\ Pair(u)' = Pair(u)
          /\ Calling(v) /\ cycle[v].live /\ Pair(v)' = Pair(v)
      BY <1>3, <1>5, <2>2
    <3> QED  BY <1>p, <1>5, <3>1 DEF PaidOnce
  <2> QED  BY <2>1, <2>2
<1> QED  BY <1>4, <1>5 DEF PaidOnce

(* Every step of a worker keeps the translations' invariant. *)
LEMMA TranslationInvKept ==
    ASSUME ItemsKept, TranslationInv, NEW w \in Workers, CycleStep(w), items' = items
    PROVE  TranslationInv'
<1>1. month' = month
  BY CycleStepMoves
<1>2. PICK c : Sound(c) /\ cycle' = [cycle EXCEPT ![w] = c] /\ CycleMoves(w, c)
  BY CycleStepMoves
<1>3. CycleTypes' /\ CostsBounded'
  BY <1>1, <1>2, CycleTypesKept
<1>4. LedgerKept'
  BY <1>1, <1>2, LedgerStep
<1>5. CapKept'
  BY <1>1, <1>2, CapStep
<1>6. PairsKept'
  BY <1>1, <1>2, PairsStep
<1>7. PaidOnce'
  BY <1>1, <1>2, PaidStep
<1> QED  BY <1>3, <1>4, <1>5, <1>6, <1>7 DEF TranslationInv

(* So does a step that leaves the cycles and the ledger alone and loses no item. *)
LEMMA TranslationInvStays ==
    ASSUME TranslationInv, UNCHANGED <<cycle, translation, spend, billed, lost>>,
           month' \in Months, items \subseteq items'
    PROVE  TranslationInv'
<1>1. CycleTypes' /\ CostsBounded'
  BY DEF TranslationInv, CycleTypes, CostsBounded, Calling
<1>2. PairsKept'
  BY DEF TranslationInv, PairsKept
<1>3. \A m : OpenCalls(m)' = OpenCalls(m) /\ Outstanding(m)' = Outstanding(m)
  BY DEF OpenCalls, Outstanding, Calling
<1>4. LedgerKept' /\ CapKept'
  BY <1>3 DEF TranslationInv, LedgerKept, CapKept, Reached, Plus
<1>5. PaidOnce'
  BY DEF TranslationInv, PaidOnce, Calling, Pair, Translated
<1> QED  BY <1>1, <1>2, <1>4, <1>5 DEF TranslationInv

(* The tables a behaviour starts with. *)
LEMMA TranslationInitInv ==
    ASSUME TranslationInit
    PROVE  TranslationInv
<1>1. PICK b \in Beginnings : b.items = items /\ translation = b.translation
  BY DEF TranslationInit
<1>2. /\ cycle = [w \in Workers |-> Resting]
      /\ spend = [m \in Months |-> [total |-> Nothing, halted |-> FALSE]]
      /\ month = 1
      /\ billed = [m \in Months |-> Nothing]
      /\ lost = [m \in Months |-> Nothing]
  BY DEF TranslationInit
<1>3. Nothing \in Spending /\ Nothing.cost = 0
  BY DEF Nothing, Spending
<1>4. Sound(Resting) /\ ~ InCall(Resting) /\ Resting.todo = <<>> /\ Len(<<>>) = 0
  BY RestingSound DEF Resting
<1>5. \A w \in Workers : ~ Calling(w) /\ cycle[w] = Resting
  BY <1>2, <1>4 DEF Calling, InCall
<1>6. 1 \in Months
  BY DEF Months
<1>7. CycleTypes
  BY <1>2, <1>3, <1>4, <1>5, <1>6 DEF CycleTypes, Sound
<1>8. CostsBounded /\ PaidOnce
  BY <1>5 DEF CostsBounded, PaidOnce, Calling
<1>9. PairsKept
  <2>1. ASSUME NEW t \in translation PROVE t.pair \in PairSet /\ \E i \in items : i.at = t.pair[1]
    <3>1. PICK i \in b.items, l \in ToSet(ReaderLocales) : t.pair = <<i.at, l>>
      BY <1>1, TranslationAssumption
    <3>2. i.at \in 1..Cardinality(b.items) /\ Cardinality(b.items) \in Nat
      BY FeedAssumption, FS_CardinalityType
    <3> QED  BY <1>1, <3>1, <3>2 DEF PairSet
  <2>2. \A t, v \in translation : t.pair = v.pair => t = v
    BY <1>1, TranslationAssumption
  <2> QED  BY <1>4, <1>5, <2>1, <2>2 DEF PairsKept
<1>10. \A m : OpenCalls(m) = {}
  BY <1>5 DEF OpenCalls
<1>11. \A m : Outstanding(m) = Nothing
  BY <1>10, SumEmpty DEF Outstanding, Sum, Nothing
<1>12. ASSUME NEW m \in Months
       PROVE  /\ Plus(Plus(spend[m].total, lost[m]), Outstanding(m)) = billed[m]
              /\ ~ Reached(spend[m].total)
              /\ spend[m].total.cost <= Monthly - 1 + Cardinality(Workers \ OpenCalls(m)) * Max(Costs)
  <2>1. spend[m].total = Nothing /\ lost[m] = Nothing /\ billed[m] = Nothing /\ Outstanding(m) = Nothing
    BY <1>2, <1>11
  <2>2. Plus(Plus(Nothing, Nothing), Nothing) = Nothing
    BY DEF Plus, Nothing
  <2>3. Monthly \in Nat \ {0}
    BY CapsValid
  <2>4. Cardinality(Workers \ OpenCalls(m)) \in Nat
    BY <1>10, TranslationAssumption, FS_CardinalityType, FS_Subset
  <2>5. Cardinality(Workers \ OpenCalls(m)) * Max(Costs) \in Nat
    BY <2>4, MaxCost, TimesNext
  <2>6. ~ Reached(Nothing)
    BY <1>3, <2>3 DEF Reached
  <2> QED  BY <1>3, <2>1, <2>2, <2>3, <2>5, <2>6
<1>13. LedgerKept /\ CapKept
  BY <1>12 DEF LedgerKept, CapKept
<1> QED  BY <1>7, <1>8, <1>9, <1>13 DEF TranslationInv

(* What the invariant says of a month. *)
LEMMA MonthMeans ==
    ASSUME TranslationInv
    PROVE  MonthIsWhole /\ PaidOnce
<1>1. ASSUME NEW m \in Months PROVE spend[m].total.cost <= Monthly - 1 + Cardinality(Workers) * Max(Costs)
  <2> DEFINE S == Workers \ OpenCalls(m)
             a == Cardinality(S)
             b == Cardinality(Workers)
             M == Max(Costs)
  <2>1. a \in Nat /\ b \in Nat /\ a <= b /\ M \in Nat
    <3>1. IsFiniteSet(Workers) /\ S \in SUBSET Workers
      BY TranslationAssumption
    <3>2. IsFiniteSet(S) /\ Cardinality(S) <= Cardinality(Workers)
      <4> HIDE DEF S
      <4> QED  BY <3>1, FS_Subset
    <3> QED  BY <3>1, <3>2, FS_CardinalityType, MaxCost
  <2>2. spend[m].total.cost <= Monthly - 1 + a * M
    BY DEF TranslationInv, CapKept
  <2>3. spend[m].total.cost \in Nat /\ Monthly \in Nat
    BY CapsValid DEF TranslationInv, CycleTypes, Spending
  <2> HIDE DEF a, b, M
  <2>4. a * M <= b * M /\ a * M \in Nat /\ b * M \in Nat
    <3>1. PICK n \in Nat : b = a + n
      <4>1. b - a \in Nat /\ b = a + (b - a)
        BY <2>1
      <4> QED  BY <4>1
    <3>2. (a + n) * M = a * M + n * M /\ n * M \in Nat /\ a * M \in Nat
      BY <2>1
    <3> QED  BY <2>1, <3>1, <3>2
  <2>5. spend[m].total.cost <= Monthly - 1 + b * M
    BY <2>2, <2>3, <2>4
  <2> QED  BY <2>5 DEF b, M
<1> QED  BY <1>1 DEF TranslationInv, LedgerKept, MonthIsWhole

------------------------------------------------------------------------------
(* Decisions.                                                              *)

(* The events that record a decision. *)
Decisions == {"article.approved", "article.published", "article.withdrawn"}

(* One editor's request moves on, the others' stay. *)
LEMMA DeskSet ==
    ASSUME EditorialTypes, NEW e \in Editors, NEW x, desk' = [desk EXCEPT ![e] = x]
    PROVE  /\ desk'[e] = x
           /\ \A f \in Editors : f # e => desk'[f] = desk[f]
           /\ desk' = [f \in Editors |-> desk'[f]]
<1>1. desk = [f \in Editors |-> desk[f]]
  BY DEF EditorialTypes
<1>2. desk' = [f \in Editors |-> IF f = e THEN x ELSE desk[f]]
  BY <1>1
<1> QED  BY <1>2

(* Origins are not lost. *)
LEMMA OriginsGrow ==
    ASSUME items \subseteq items', translation \subseteq translation'
    PROVE  Origins \subseteq Origins'
BY DEF Origins

(* What a request knows of stays as old as it was. *)
LEMMA BegunStays ==
    ASSUME EditorialTypes, NEW f \in Editors, Begun(f), desk'[f] = desk[f],
           clock' \in Nat, clock <= clock', Len(article') \in Nat, Len(article) <= Len(article'),
           \A a \in Ids : article'[a].approvedAt = article[a].approvedAt
    PROVE  Begun(f)'
<1>1. Len(article) \in Nat /\ clock \in Nat
  BY DEF EditorialTypes
<1>2. desk[f].now \in Nat /\ desk[f].now <= clock' /\ desk[f].knows \in 0..Len(article')
  BY <1>1 DEF Begun
<1>3. ASSUME NEW a \in 1..desk[f].knows PROVE article'[a].approvedAt <= desk[f].now
  <2>1. a \in Ids
    BY <1>1 DEF Begun, Ids
  <2> QED  BY <2>1 DEF Begun
<1> QED  BY <1>2, <1>3 DEF Begun

(* An open decision stands while its article's row is not changed. *)
LEMMA StandsStays ==
    ASSUME EditorialTypes, NEW f \in Editors, Stands(f), desk'[f] = desk[f],
           clock' \in Nat, clock <= clock', Origins \subseteq Origins',
           desk[f].what # "approve" => desk[f].on \in Ids' /\ article'[desk[f].on] = article[desk[f].on]
    PROVE  Stands(f)'
<1>1. clock \in Nat
  BY DEF EditorialTypes
<1>2. desk[f].now \in Nat /\ desk[f].now <= clock'
  BY <1>1 DEF Stands
<1>3. CASE desk[f].what = "approve"
  BY <1>2, <1>3 DEF Stands
<1>4. CASE desk[f].what # "approve"
  BY <1>2, <1>4 DEF Stands, Visible, Active
<1> QED  BY <1>3, <1>4

(* The articles' invariant, while only time passes and origins are added. *)
LEMMA ArticlesStay ==
    ASSUME EditorialTypes, ArticlesKept, article' = article, clock' \in Nat, clock <= clock',
           Origins \subseteq Origins'
    PROVE  ArticlesKept'
<1>1. ASSUME NEW a \in Ids PROVE article[a].approvedAt \in Nat /\ clock \in Nat
  <2>1. article \in Seq(ArticleRow) /\ clock \in Nat
    BY DEF EditorialTypes
  <2>2. article[a] \in ArticleRow
    BY <2>1 DEF Ids
  <2> QED  BY <2>1, <2>2 DEF ArticleRow
<1> QED  BY <1>1 DEF ArticlesKept, Ids, Active

(* A step that decides nothing: requests stay or end. *)
LEMMA EditorialStays ==
    ASSUME EditorialInv, UNCHANGED <<role, article>>, clock' \in Nat, clock <= clock',
           Origins \subseteq Origins', desk' = [e \in Editors |-> desk'[e]],
           \A e \in Editors : desk'[e] \in {desk[e], Away},
           said'.what \cap Decisions = {}
    PROVE  EditorialInv'
<1>0. EditorialTypes /\ BegunKept /\ DecisionsKept /\ ArticlesKept /\ DecidedByEditors
  BY DEF EditorialInv
<1>1. EditorialTypes'
  BY <1>0 DEF EditorialTypes
<1>2. \A e \in Editors : desk'[e].st \in {"begun", "open"} => desk'[e] = desk[e]
  BY DEF Away
<1>3. Len(article) \in Nat
  BY <1>0 DEF EditorialTypes
<1>4. BegunKept'
  <2>1. ASSUME NEW e \in Editors, desk'[e].st = "begun" PROVE Begun(e)'
    <3>1. desk'[e] = desk[e] /\ Begun(e)
      BY <1>0, <1>2, <2>1 DEF BegunKept
    <3> QED  BY <1>0, <1>3, <3>1, BegunStays
  <2> QED  BY <2>1 DEF BegunKept
<1>5. \A e \in Editors : Open(e)' => Open(e) /\ desk'[e] = desk[e]
  BY <1>2 DEF Open
<1>6. \A e \in Editors : Open(e)' => role'[e] = "editor" /\ Stands(e)'
  <2>1. ASSUME NEW e \in Editors, Open(e)' PROVE role'[e] = "editor" /\ Stands(e)'
    <3>1. Open(e) /\ desk'[e] = desk[e] /\ role[e] = "editor" /\ Stands(e)
      BY <1>0, <1>5, <2>1 DEF DecisionsKept
    <3>2. desk[e].what # "approve" => desk[e].on \in Ids' /\ article'[desk[e].on] = article[desk[e].on]
      BY <3>1 DEF Stands, Ids
    <3> QED  BY <1>0, <3>1, <3>2, StandsStays
  <2> QED  BY <2>1
<1>7. DecisionsKept'
  BY <1>0, <1>5, <1>6 DEF DecisionsKept
<1>8. ArticlesKept'
  BY <1>0, ArticlesStay
<1>9. DecidedByEditors'
  BY <1>0 DEF DecidedByEditors, Decisions, Ids, Active
<1> QED  BY <1>1, <1>4, <1>7, <1>8, <1>9 DEF EditorialInv

(* A step that begins a request, or opens a decision that stands. *)
LEMMA EditorialOpens ==
    ASSUME EditorialInv, NEW e \in Editors, NEW x, desk' = [desk EXCEPT ![e] = x],
           UNCHANGED <<role, article, clock, items, translation>>, said'.what \cap Decisions = {},
           x.st = "begun" => Begun(e)',
           x.st = "open" => /\ role[e] = "editor" /\ Stands(e)'
                            /\ x.what # "approve" => ~ RowLocked(x.on)
    PROVE  EditorialInv'
<1>0. EditorialTypes /\ BegunKept /\ DecisionsKept /\ ArticlesKept /\ DecidedByEditors
  BY DEF EditorialInv
<1>1. /\ desk'[e] = x
      /\ \A f \in Editors : f # e => desk'[f] = desk[f]
      /\ desk' = [f \in Editors |-> desk'[f]]
  BY <1>0, DeskSet
<1>2. EditorialTypes'
  BY <1>0, <1>1 DEF EditorialTypes
<1>3. Len(article) \in Nat /\ clock \in Nat /\ Origins \subseteq Origins'
  BY <1>0, OriginsGrow DEF EditorialTypes
<1>4. BegunKept'
  <2>1. ASSUME NEW f \in Editors, desk'[f].st = "begun", f # e PROVE Begun(f)'
    <3>1. desk'[f] = desk[f] /\ Begun(f)
      BY <1>0, <1>1, <2>1 DEF BegunKept
    <3> QED  BY <1>0, <1>3, <3>1, BegunStays
  <2> QED  BY <1>1, <2>1 DEF BegunKept
<1>5. \A f \in Editors : f # e => (Open(f)' <=> Open(f)) /\ desk'[f] = desk[f]
  BY <1>1 DEF Open
<1>6. \A f \in Editors : Open(f)' => role'[f] = "editor" /\ Stands(f)'
  <2>1. ASSUME NEW f \in Editors, Open(f)', f # e PROVE role'[f] = "editor" /\ Stands(f)'
    <3>1. desk'[f] = desk[f] /\ role[f] = "editor" /\ Stands(f)
      BY <1>0, <1>5, <2>1 DEF DecisionsKept
    <3>2. desk[f].what # "approve" => desk[f].on \in Ids' /\ article'[desk[f].on] = article[desk[f].on]
      BY <3>1 DEF Stands, Ids
    <3> QED  BY <1>0, <1>3, <3>1, <3>2, StandsStays
  <2>2. Open(e)' => x.st = "open"
    BY <1>1 DEF Open
  <2> QED  BY <2>1, <2>2
<1>7. ASSUME NEW f \in Editors, NEW g \in Editors, Open(f)', Open(g)', desk'[f].what # "approve",
             desk'[g].what # "approve", desk'[f].on = desk'[g].on
      PROVE  f = g
  <2>1. CASE f # e /\ g # e
    BY <1>0, <1>5, <1>7, <2>1 DEF DecisionsKept
  <2>2. ASSUME NEW h \in Editors, h # e, Open(e)', Open(h)', desk'[e].what # "approve",
               desk'[h].what # "approve", desk'[h].on = desk'[e].on
        PROVE  FALSE
    <3>1. x.st = "open" /\ x.what # "approve" /\ Open(h) /\ desk[h].what # "approve" /\ desk[h].on = x.on
      BY <1>1, <1>5, <2>2 DEF Open
    <3> QED  BY <3>1 DEF RowLocked
  <2> QED  BY <1>7, <2>1, <2>2
<1>8. DecisionsKept'
  BY <1>6, <1>7 DEF DecisionsKept
<1>9. ArticlesKept'
  BY <1>0, <1>3, ArticlesStay
<1>10. DecidedByEditors'
  BY <1>0 DEF DecidedByEditors, Decisions, Ids, Active
<1> QED  BY <1>2, <1>4, <1>8, <1>9, <1>10 DEF EditorialInv

(* A request that is let in. *)
LEMMA BeginsKept ==
    ASSUME EditorialInv, NEW e \in Editors, requireEditor(e), Quiet, UNCHANGED <<items, translation>>
    PROVE  EditorialInv'
<1> DEFINE x == [st |-> "begun", now |-> clock, knows |-> Len(article)]
<1>0. EditorialTypes /\ ArticlesKept
  BY DEF EditorialInv
<1>1. desk' = [desk EXCEPT ![e] = x] /\ UNCHANGED <<role, article, clock>> /\ said'.what = {}
  BY DEF requireEditor, Quiet, Silent
<1>2. x.st = "begun" /\ x.now = clock /\ x.knows = Len(article)
  OBVIOUS
<1> HIDE DEF x
<1>3. desk'[e] = x
  BY <1>0, <1>1, DeskSet
<1>4. Len(article) \in Nat /\ clock \in Nat
  BY <1>0 DEF EditorialTypes
<1>5. \A a \in 1..Len(article) : article[a].approvedAt <= clock
  BY <1>0 DEF ArticlesKept, Ids
<1>6. Begun(e)'
  BY <1>1, <1>2, <1>3, <1>4, <1>5 DEF Begun
<1> QED  BY <1>1, <1>2, <1>6, EditorialOpens

(* A decision that is refused ends its request. *)
LEMMA RefusedKept ==
    ASSUME EditorialInv, NEW e \in Editors, desk' = [desk EXCEPT ![e] = Away], UNCHANGED <<role, article>>,
           clock' \in Nat, clock <= clock', said'.what \cap Decisions = {}, Origins \subseteq Origins'
    PROVE  EditorialInv'
<1>1. EditorialTypes
  BY DEF EditorialInv
<1>2. /\ desk'[e] = Away
      /\ \A f \in Editors : f # e => desk'[f] = desk[f]
      /\ desk' = [f \in Editors |-> desk'[f]]
  BY <1>1, DeskSet
<1>3. \A f \in Editors : desk'[f] \in {desk[f], Away}
  BY <1>2
<1> QED  BY <1>2, <1>3, EditorialStays

(* A decision that stands when it is made. *)
LEMMA DecidedKept ==
    ASSUME EditorialInv, NEW e \in Editors, desk[e].st = "begun", IsEditor(e),
           NEW what \in {"approve", "publish", "withdraw"}, NEW on, NEW detail, Decided(e, what, on, detail),
           Quiet, UNCHANGED <<items, translation>>,
           what = "approve" =>
               on \in Origins /\ detail \in [places : SUBSET (Places \cup {NoOne}), publish : BOOLEAN],
           what # "approve" => on \in Ids /\ ~ RowLocked(on),
           what = "publish" => article[on].published = 0 /\ article[on].approvedAt <= desk[e].now,
           what = "withdraw" => Visible(on) /\ article[on].published <= desk[e].now
    PROVE  EditorialInv'
<1> DEFINE x == [st |-> "open", now |-> desk[e].now, what |-> what, on |-> on, detail |-> detail]
<1>0. EditorialTypes /\ Begun(e)
  BY DEF EditorialInv, BegunKept
<1>1. desk' = [desk EXCEPT ![e] = x] /\ UNCHANGED <<role, article, clock>> /\ said'.what = {}
  BY DEF Decided, Quiet, Silent
<1>2. x.st = "open" /\ x.now = desk[e].now /\ x.what = what /\ x.on = on /\ x.detail = detail
  OBVIOUS
<1> HIDE DEF x
<1>3. desk'[e] = x
  BY <1>0, <1>1, DeskSet
<1>4. desk[e].now \in Nat /\ desk[e].now <= clock
  BY <1>0 DEF Begun
<1>5. Origins' = Origins /\ Ids' = Ids
  BY <1>1 DEF Origins, Ids
<1>6. Visible(on)' <=> Visible(on)
  BY <1>1 DEF Visible, Active
<1>7. desk'[e].now \in Nat /\ desk'[e].now <= clock' /\ desk'[e].what = what /\ desk'[e].on = on /\ desk'[e].detail = detail
  BY <1>1, <1>2, <1>3, <1>4
<1>8. Stands(e)'
  <2>1. CASE what = "approve"
    BY <1>5, <1>7, <2>1 DEF Stands
  <2>2. CASE what = "publish"
    BY <1>1, <1>2, <1>3, <1>5, <1>7, <2>2 DEF Stands
  <2>3. CASE what = "withdraw"
    BY <1>1, <1>2, <1>3, <1>5, <1>6, <1>7, <2>3 DEF Stands
  <2> QED  BY <2>1, <2>2, <2>3
<1>9. role[e] = "editor"
  BY DEF IsEditor
<1> QED  BY <1>1, <1>2, <1>8, <1>9, EditorialOpens

(* Approval, publication and withdrawal, decided or refused. *)
LEMMA DecisionKept ==
    ASSUME EditorialInv, NEW e \in Editors, Approve(e) \/ Publish(e) \/ Withdraw(e),
           Quiet, UNCHANGED <<items, translation>>
    PROVE  EditorialInv'
<1>0. EditorialTypes /\ BegunKept /\ said'.what \cap Decisions = {} /\ Origins \subseteq Origins'
  BY OriginsGrow DEF EditorialInv, Quiet, Silent
<1>1. Len(article) \in Nat /\ clock \in Nat
  BY <1>0 DEF EditorialTypes
<1>2. CASE Refused(e)
  <2>1. /\ desk' = [desk EXCEPT ![e] = Away] /\ UNCHANGED <<role, article>>
        /\ clock' \in Nat /\ clock <= clock'
    BY <1>1, <1>2 DEF Refused
  <2> QED  BY <1>0, <2>1, RefusedKept
<1>3. desk[e].st = "begun" /\ Begun(e)
  BY <1>0 DEF Approve, Publish, Withdraw, BegunKept
<1>4. \A a \in 1..desk[e].knows : a \in Ids /\ article[a].approvedAt <= desk[e].now
  BY <1>1, <1>3 DEF Begun, Ids
<1>5. CASE Approve(e) /\ ~ Refused(e)
  <2>1. PICK o \in Origins, places \in {{}} \cup {{p} : p \in Places \cup {NoOne}}, publish \in BOOLEAN :
          IF newApproval(places) /\ requireTitle(o) /\ ~ approvalError(e, o) /\ ~ unknownPlace(places)
          THEN Decided(e, "approve", o, [places |-> places, publish |-> publish])
          ELSE Refused(e)
    BY <1>5 DEF Approve
  <2> DEFINE x == [places |-> places, publish |-> publish]
  <2>2. IsEditor(e) /\ Decided(e, "approve", o, x)
    BY <1>5, <2>1 DEF approvalError
  <2>3. x \in [places : SUBSET (Places \cup {NoOne}), publish : BOOLEAN]
    OBVIOUS
  <2> HIDE DEF x
  <2> QED  BY <1>3, <2>2, <2>3, DecidedKept
<1>6. CASE Publish(e) /\ ~ Refused(e)
  <2>1. PICK a \in 1..desk[e].knows :
          /\ ~ RowLocked(a)
          /\ IF lockEditorRole(e) /\ article[a].published = 0 THEN Decided(e, "publish", a, NoOne) ELSE Refused(e)
    BY <1>6 DEF Publish
  <2>2. IsEditor(e) /\ article[a].published = 0 /\ Decided(e, "publish", a, NoOne)
    BY <1>6, <2>1 DEF lockEditorRole
  <2> QED  BY <1>3, <1>4, <2>1, <2>2, DecidedKept
<1>7. CASE Withdraw(e) /\ ~ Refused(e)
  <2>1. PICK a \in 1..desk[e].knows :
          /\ ~ RowLocked(a)
          /\ IF IsEditor(e) /\ Visible(a) /\ WithdrawalFollows(e, a)
             THEN Decided(e, "withdraw", a, NoOne) ELSE Refused(e)
    BY <1>7 DEF Withdraw
  <2>2. IsEditor(e) /\ Visible(a) /\ desk[e].now >= article[a].published /\ Decided(e, "withdraw", a, NoOne)
    BY <1>7, <2>1 DEF WithdrawalFollows
  <2>3. article[a].published <= desk[e].now
    <3>1. article[a] \in ArticleRow
      BY <1>0, <1>4 DEF EditorialTypes, Ids
    <3> QED  BY <1>3, <2>2, <3>1 DEF ArticleRow, Begun
  <2> QED  BY <1>3, <1>4, <2>1, <2>2, <2>3, DecidedKept
<1> QED  BY <1>2, <1>5, <1>6, <1>7

(* Origins are numbers in languages. *)
LEMMA OriginType ==
    ASSUME ItemsKept, PairsKept, NEW o \in Origins
    PROVE  o \in Nat \X Languages
<1>1. CASE \E i \in items : o = <<i.at, LanguageOf[i.src]>>
  <2>1. PICK i \in items : o = <<i.at, LanguageOf[i.src]>>
    BY <1>1
  <2>2. i.at \in 1..Cardinality(items) /\ Cardinality(items) \in Nat /\ i.src \in Sources
    BY FS_CardinalityType DEF ItemsKept
  <2> QED  BY <2>1, <2>2 DEF Languages
<1>2. CASE \E t \in translation : o = t.pair
  BY <1>2 DEF PairsKept, PairSet, Languages
<1> QED  BY <1>1, <1>2 DEF Origins

(* What a commit makes of the articles. *)
LEMMA CommitArticles ==
    ASSUME EditorialInv, ItemsKept, PairsKept, NEW e \in Editors, Commit(e), UNCHANGED <<items, translation>>
    PROVE  /\ article' \in Seq(ArticleRow) /\ Len(article') \in Nat /\ Len(article) <= Len(article')
           /\ \A a \in Ids : article'[a].approvedAt = article[a].approvedAt
           /\ \A a \in Ids : (desk[e].what = "approve" \/ a # desk[e].on) => article'[a] = article[a]
           /\ ArticlesKept'
           /\ \A a \in Ids' : /\ role[article'[a].approvedBy] = "editor"
                              /\ ~ Active(a)' => role[article'[a].withdrawnBy] = "editor"
<1> DEFINE d == desk[e]
<1>n. PICK n : n = Len(article)
  OBVIOUS
<1>0. /\ EditorialTypes /\ ArticlesKept /\ role[e] = "editor" /\ Stands(e)
      /\ article \in Seq(ArticleRow) /\ n \in Nat /\ clock \in Nat /\ clock' = clock
  BY <1>n DEF EditorialInv, DecisionsKept, Commit, EditorialTypes
<1>1. Origins' = Origins
  BY DEF Origins
<1>2. \A a \in Ids : article[a] \in ArticleRow
  BY <1>0 DEF Ids
<1>3. \A a \in Ids : /\ role[article[a].approvedBy] = "editor"
                     /\ ~ Active(a) => role[article[a].withdrawnBy] = "editor"
  BY DEF EditorialInv, DecidedByEditors
<1>4. d.now \in Nat /\ d.now <= clock /\ d.what \in {"approve", "publish", "withdraw"}
  BY <1>0 DEF Stands
<1>5. article' = Changed(e)
  BY DEF Commit
<1>6. CASE d.what = "approve"
  <2> DEFINE x == [origin |-> d.on, approvedBy |-> e, approvedAt |-> d.now, places |-> d.detail.places,
                   published |-> IF d.detail.publish THEN d.now ELSE 0, withdrawnBy |-> NoOne, withdrawnAt |-> 0]
  <2>1. article' = Append(article, x)
    BY <1>5, <1>6 DEF Changed
  <2>2. d.on \in Origins /\ d.detail \in [places : SUBSET (Places \cup {NoOne}), publish : BOOLEAN]
    BY <1>0, <1>6 DEF Stands
  <2>3. x \in ArticleRow
    <3>1. d.on \in Nat \X Languages
      BY <2>2, OriginType
    <3>2. d.detail.places \in SUBSET (Places \cup {NoOne}) /\ (IF d.detail.publish THEN d.now ELSE 0) \in Nat
      BY <1>4, <2>2
    <3> HIDE DEF d
    <3> QED  BY <1>4, <3>1, <3>2 DEF ArticleRow
  <2>4. /\ x.origin = d.on /\ x.approvedBy = e /\ x.approvedAt = d.now /\ x.withdrawnBy = NoOne
        /\ x.published \in {d.now, 0}
    OBVIOUS
  <2> HIDE DEF x
  <2>5. /\ article' \in Seq(ArticleRow) /\ Len(article') = n + 1
        /\ article'[n + 1] = x /\ \A a \in 1..n : article'[a] = article[a]
    BY <1>0, <1>n, <2>1, <2>3
  <2>6. /\ \A a \in Ids : article'[a] = article[a] /\ (Active(a)' <=> Active(a))
        /\ \A a \in Ids' : a \in Ids \/ a = n + 1
        /\ Active(n + 1)'
    BY <1>0, <1>n, <2>4, <2>5 DEF Ids, Active
  <2>7. ArticlesKept'
    <3>1. ASSUME NEW a \in Ids
          PROVE  /\ article'[a].origin \in Origins'
                 /\ article'[a].approvedAt <= clock'
                 /\ article'[a].published # 0 => article'[a].published >= article'[a].approvedAt
                 /\ ~ Active(a)' => article'[a].published # 0 /\ article'[a].withdrawnAt >= article'[a].published
      BY <1>0, <1>1, <2>6, <3>1 DEF ArticlesKept
    <3>2. /\ article'[n + 1].origin \in Origins'
          /\ article'[n + 1].approvedAt <= clock'
          /\ article'[n + 1].published # 0 => article'[n + 1].published >= article'[n + 1].approvedAt
      BY <1>0, <1>1, <1>4, <2>2, <2>4, <2>5
    <3> QED  BY <2>6, <3>1, <3>2 DEF ArticlesKept
  <2>8. \A a \in Ids' : /\ role[article'[a].approvedBy] = "editor"
                        /\ ~ Active(a)' => role[article'[a].withdrawnBy] = "editor"
    BY <1>0, <1>3, <2>4, <2>5, <2>6
  <2> QED  BY <1>0, <1>n, <2>5, <2>6, <2>7, <2>8
<1>7. ASSUME NEW x \in ArticleRow, NEW k \in Ids, k = d.on, d.what # "approve", article' = [article EXCEPT ![k] = x],
             x.origin = article[k].origin, x.approvedBy = article[k].approvedBy,
             x.approvedAt = article[k].approvedAt,
             x.published # 0 => x.published >= x.approvedAt,
             x.withdrawnBy # NoOne => /\ x.published # 0 /\ x.withdrawnAt >= x.published
                                      /\ role[x.withdrawnBy] = "editor"
      PROVE  /\ article' \in Seq(ArticleRow) /\ Len(article') \in Nat /\ Len(article) <= Len(article')
             /\ \A a \in Ids : article'[a].approvedAt = article[a].approvedAt
             /\ \A a \in Ids : (desk[e].what = "approve" \/ a # desk[e].on) => article'[a] = article[a]
             /\ ArticlesKept'
             /\ \A a \in Ids' : /\ role[article'[a].approvedBy] = "editor"
                                /\ ~ Active(a)' => role[article'[a].withdrawnBy] = "editor"
  <2>1. /\ article' \in Seq(ArticleRow) /\ Len(article') = n
        /\ article'[k] = x /\ \A a \in 1..n : a # k => article'[a] = article[a]
    BY <1>0, <1>n, <1>7 DEF Ids
  <2>2. Ids' = Ids /\ \A a \in Ids : a # k => article'[a] = article[a] /\ (Active(a)' <=> Active(a))
    BY <1>n, <2>1 DEF Ids, Active
  <2>3. Active(k)' <=> x.withdrawnBy = NoOne
    BY <2>1 DEF Active
  <2>4. ArticlesKept'
    <3>1. ASSUME NEW a \in Ids, a # k
          PROVE  /\ article'[a].origin \in Origins'
                 /\ article'[a].approvedAt <= clock'
                 /\ article'[a].published # 0 => article'[a].published >= article'[a].approvedAt
                 /\ ~ Active(a)' => article'[a].published # 0 /\ article'[a].withdrawnAt >= article'[a].published
      BY <1>0, <1>1, <2>2, <3>1 DEF ArticlesKept
    <3>2. /\ article'[k].origin \in Origins'
          /\ article'[k].approvedAt <= clock'
          /\ article'[k].published # 0 => article'[k].published >= article'[k].approvedAt
          /\ ~ Active(k)' => article'[k].published # 0 /\ article'[k].withdrawnAt >= article'[k].published
      BY <1>0, <1>1, <1>7, <2>1, <2>3 DEF ArticlesKept
    <3> QED  BY <2>2, <3>1, <3>2 DEF ArticlesKept
  <2>5. \A a \in Ids' : /\ role[article'[a].approvedBy] = "editor"
                        /\ ~ Active(a)' => role[article'[a].withdrawnBy] = "editor"
    BY <1>3, <1>7, <2>1, <2>2, <2>3
  <2>6. \A a \in Ids : article'[a].approvedAt = article[a].approvedAt
    BY <1>7, <2>1, <2>2
  <2> QED  BY <1>0, <1>n, <1>7, <2>1, <2>2, <2>4, <2>5, <2>6
<1>8. CASE d.what = "publish"
  <2> DEFINE k == d.on
             y == article[k]
             t == d.now
             x == [y EXCEPT !.published = t]
  <2>1. k \in Ids /\ y.published = 0 /\ y.approvedAt <= t /\ y \in ArticleRow /\ t \in Nat
    BY <1>0, <1>2, <1>4, <1>8 DEF Stands
  <2>2. article' = [article EXCEPT ![k] = x]
    BY <1>5, <1>8 DEF Changed
  <2>3. y.withdrawnBy = NoOne
    BY <1>0, <2>1 DEF ArticlesKept, Active
  <2> HIDE DEF y, t
  <2>4. /\ x \in ArticleRow /\ x.origin = y.origin /\ x.approvedBy = y.approvedBy /\ x.approvedAt = y.approvedAt
        /\ x.published = t /\ x.withdrawnBy = NoOne
    BY <2>1, <2>3 DEF ArticleRow
  <2>5. x.published >= x.approvedAt
    BY <2>1, <2>4 DEF ArticleRow
  <2> HIDE DEF x
  <2> QED  BY <1>7, <1>8, <2>1, <2>2, <2>4, <2>5 DEF y
<1>9. CASE d.what = "withdraw"
  <2> DEFINE k == d.on
             y == article[k]
             t == d.now
             x == [y EXCEPT !.withdrawnBy = e, !.withdrawnAt = t]
  <2>1. k \in Ids /\ y.published # 0 /\ y.published <= t /\ y \in ArticleRow /\ t \in Nat
    BY <1>0, <1>2, <1>4, <1>9 DEF Stands, Visible
  <2>2. article' = [article EXCEPT ![k] = x]
    BY <1>5, <1>9 DEF Changed
  <2>3. y.published >= y.approvedAt
    BY <1>0, <2>1 DEF ArticlesKept
  <2> HIDE DEF y, t
  <2>4. /\ x \in ArticleRow /\ x.origin = y.origin /\ x.approvedBy = y.approvedBy /\ x.approvedAt = y.approvedAt
        /\ x.published = y.published /\ x.withdrawnBy = e /\ x.withdrawnAt = t
    BY <2>1 DEF ArticleRow
  <2>5. x.withdrawnAt >= x.published
    BY <2>1, <2>4 DEF ArticleRow
  <2> HIDE DEF x
  <2> QED  BY <1>0, <1>7, <1>9, <2>1, <2>2, <2>3, <2>4, <2>5 DEF y
<1> QED  BY <1>4, <1>6, <1>8, <1>9

(* A commit leaves the other decisions standing. *)
LEMMA CommitKept ==
    ASSUME EditorialInv, ItemsKept, PairsKept, NEW e \in Editors, Commit(e), UNCHANGED <<items, translation>>
    PROVE  EditorialInv'
<1>0. /\ EditorialTypes /\ BegunKept /\ DecisionsKept /\ Open(e)
      /\ role' = role /\ clock' = clock /\ clock \in Nat /\ desk' = [desk EXCEPT ![e] = Away]
      /\ Len(article) \in Nat
  BY DEF EditorialInv, Commit, EditorialTypes
<1>1. /\ article' \in Seq(ArticleRow) /\ Len(article') \in Nat /\ Len(article) <= Len(article')
      /\ \A a \in Ids : article'[a].approvedAt = article[a].approvedAt
      /\ \A a \in Ids : (desk[e].what = "approve" \/ a # desk[e].on) => article'[a] = article[a]
      /\ ArticlesKept'
      /\ \A a \in Ids' : /\ role[article'[a].approvedBy] = "editor"
                         /\ ~ Active(a)' => role[article'[a].withdrawnBy] = "editor"
  BY CommitArticles
<1>2. /\ desk'[e] = Away
      /\ \A f \in Editors : f # e => desk'[f] = desk[f]
      /\ desk' = [f \in Editors |-> desk'[f]]
  BY <1>0, DeskSet
<1>3. EditorialTypes'
  BY <1>0, <1>1, <1>2 DEF EditorialTypes
<1>4. Origins \subseteq Origins' /\ clock <= clock' /\ clock' \in Nat
  BY <1>0, OriginsGrow
<1>5. \A f \in Editors : desk'[f].st \in {"begun", "open"} => f # e /\ desk'[f] = desk[f]
  BY <1>2 DEF Away
<1>6. BegunKept'
  <2>1. ASSUME NEW f \in Editors, desk'[f].st = "begun" PROVE Begun(f)'
    <3>1. desk'[f] = desk[f] /\ Begun(f)
      BY <1>0, <1>5, <2>1 DEF BegunKept
    <3> QED  BY <1>0, <1>1, <1>4, <3>1, BegunStays
  <2> QED  BY <2>1 DEF BegunKept
<1>7. \A f \in Editors : Open(f)' => Open(f) /\ f # e /\ desk'[f] = desk[f]
  BY <1>5 DEF Open
<1>8. \A f \in Editors : Open(f)' => role'[f] = "editor" /\ Stands(f)'
  <2>1. ASSUME NEW f \in Editors, Open(f)' PROVE role'[f] = "editor" /\ Stands(f)'
    <3>1. Open(f) /\ f # e /\ desk'[f] = desk[f] /\ role[f] = "editor" /\ Stands(f)
      BY <1>0, <1>7, <2>1 DEF DecisionsKept
    <3>2. ASSUME desk[f].what # "approve"
          PROVE  desk[f].on \in Ids' /\ article'[desk[f].on] = article[desk[f].on]
      <4>1. desk[f].on \in Ids
        BY <3>1, <3>2 DEF Stands
      <4>2. desk[e].what = "approve" \/ desk[f].on # desk[e].on
        BY <1>0, <3>1, <3>2 DEF DecisionsKept
      <4>3. desk[f].on \in Ids'
        BY <1>0, <1>1, <4>1 DEF Ids
      <4> QED  BY <1>1, <4>1, <4>2, <4>3
    <3> QED  BY <1>0, <1>4, <3>1, <3>2, StandsStays
  <2> QED  BY <2>1
<1>9. DecisionsKept'
  BY <1>0, <1>7, <1>8 DEF DecisionsKept
<1>10. DecidedByEditors'
  <2>1. said'.who = e /\ role'[e] = "editor"
    BY <1>0 DEF Commit, Says, DecisionsKept
  <2> QED  BY <1>0, <1>1, <2>1 DEF DecidedByEditors
<1> QED  BY <1>1, <1>3, <1>6, <1>9, <1>10 DEF EditorialInv

(* A demotion waits for the open decision, and is refused to whoever is on record. *)
LEMMA DemoteKept ==
    ASSUME EditorialInv, NEW e \in Editors, Demote(e), Quiet, UNCHANGED <<items, translation>>
    PROVE  EditorialInv'
<1>0. /\ EditorialTypes /\ BegunKept /\ DecisionsKept /\ ArticlesKept /\ DecidedByEditors
      /\ UNCHANGED <<article, desk, clock>> /\ ~ Open(e)
      /\ role' = [role EXCEPT ![e] = "reader"] /\ said'.what = {}
      /\ \A a \in Ids : e # article[a].approvedBy /\ e # article[a].withdrawnBy
  BY DEF EditorialInv, Demote, RoleLocked, Quiet, Silent
<1>1. /\ role' \in [Editors -> {"editor", "reader"}]
      /\ \A f : f # e => role'[f] = role[f]
  BY <1>0 DEF EditorialTypes
<1>2. EditorialTypes'
  BY <1>0, <1>1 DEF EditorialTypes
<1>3. BegunKept' /\ ArticlesKept'
  BY <1>0 DEF BegunKept, Begun, ArticlesKept, Ids, Active, Origins
<1>4. \A f \in Editors : /\ Open(f)' <=> Open(f)
                         /\ Stands(f)' <=> Stands(f)
  BY <1>0 DEF Open, Stands, Ids, Visible, Active, Origins
<1>5. \A f \in Editors : Open(f)' => role'[f] = "editor" /\ Stands(f)'
  BY <1>0, <1>1, <1>4 DEF DecisionsKept
<1>6. DecisionsKept'
  BY <1>0, <1>4, <1>5 DEF DecisionsKept
<1>7. DecidedByEditors'
  BY <1>0, <1>1 DEF DecidedByEditors, Ids, Active
<1> QED  BY <1>2, <1>3, <1>6, <1>7 DEF EditorialInv

(* A step at the desk. *)
LEMMA DeskInvKept ==
    ASSUME Inv, DeskStep
    PROVE  EditorialInv'
<1>0. /\ EditorialInv /\ ItemsKept /\ PairsKept /\ EditorialTypes
      /\ UNCHANGED <<items, translation>> /\ clock \in Nat
  BY DEF Inv, FeedInv, TranslationInv, EditorialInv, DeskStep, feedVars, translationVars, EditorialTypes
<1>1. Origins \subseteq Origins'
  BY <1>0, OriginsGrow
<1>2. ASSUME NEW e \in Editors, Commit(e) PROVE EditorialInv'
  BY <1>0, <1>2, CommitKept
<1>q. Quiet => said'.what \cap Decisions = {}
  BY DEF Quiet, Silent
<1>3. ASSUME UNCHANGED <<role, article, desk>>, clock' \in Nat, clock <= clock', Quiet PROVE EditorialInv'
  <2>1. desk' = [e \in Editors |-> desk'[e]] /\ \A e \in Editors : desk'[e] \in {desk[e], Away}
    BY <1>0, <1>3 DEF EditorialTypes
  <2> QED  BY <1>0, <1>1, <1>3, <1>q, <2>1, EditorialStays
<1>4. CASE Tick /\ Quiet
  <2>1. UNCHANGED <<role, article, desk>> /\ clock' \in Nat /\ clock <= clock'
    BY <1>0, <1>4 DEF Tick
  <2> QED  BY <1>3, <1>4, <2>1
<1>5. CASE (StartFront \/ StartQueue \/ StartSources \/ Page) /\ Quiet
  <2>1. UNCHANGED <<role, article, desk, clock>>
    BY <1>5 DEF StartFront, StartQueue, StartSources, StartWalk, Page
  <2>2. clock' \in Nat /\ clock <= clock'
    BY <1>0, <2>1
  <2> QED  BY <1>3, <1>5, <2>1, <2>2
<1>6. ASSUME NEW e \in Editors, EditorStep(e), Quiet PROVE EditorialInv'
  <2>1. CASE requireEditor(e)
    BY <1>0, <1>6, <2>1, BeginsKept
  <2>2. CASE Approve(e) \/ Publish(e) \/ Withdraw(e)
    BY <1>0, <1>6, <2>2, DecisionKept
  <2>3. CASE Abort(e)
    <3>1. /\ desk' = [desk EXCEPT ![e] = Away] /\ UNCHANGED <<role, article>>
          /\ clock' \in Nat /\ clock <= clock'
      BY <1>0, <2>3 DEF Abort
    <3> QED  BY <1>0, <1>1, <1>6, <1>q, <3>1, RefusedKept
  <2>4. CASE Demote(e)
    BY <1>0, <1>6, <2>4, DemoteKept
  <2> QED  BY <1>6, <2>1, <2>2, <2>3, <2>4 DEF EditorStep
<1> QED  BY <1>2, <1>4, <1>5, <1>6 DEF DeskStep

(* A step of the feeds and of their register announces no decision. *)
LEMMA FeedSays ==
    ASSUME FeedAction
    PROVE  said'.what \cap Decisions = {}
<1>1. Silent.what = {}
  BY DEF Silent
<1>2. Quiet => said'.what \cap Decisions = {}
  BY <1>1 DEF Quiet
<1>3. \A who : Says({"item.retrieved"}, who) => said'.what \cap Decisions = {}
  BY DEF Says, Decisions
<1>4. \A who : Says({"source.updated"}, who) => said'.what \cap Decisions = {}
  BY DEF Says, Decisions
<1>5. ASSUME NEW r \in Replicas, PollStep(r) PROVE said'.what \cap Decisions = {}
  <2>1. CASE recordItems(r)
    BY <1>2, <1>3, <2>1 DEF recordItems, RecordRetrieval
  <2>2. CASE ~ recordItems(r)
    <3>1. Quiet
      BY <1>5, <2>2 DEF PollStep, PollOnce, AttemptFails, Attempt, RecordingFails, Recorded, RecordPollOutcome,
                        OutcomeFails, PollerStops
    <3> QED  BY <1>2, <3>1
  <2> QED  BY <2>1, <2>2
<1>6. CASE LockDies \/ (\E u \in Urls : FeedMoves(u)) \/ (\E s \in Sources : FallsDue(s))
  BY <1>2, <1>6 DEF LockDies, FeedMoves, FallsDue
<1>7. CASE RegisterStep
  BY <1>2, <1>4, <1>7 DEF RegisterStep, UpdateSource, DeleteSource, CreateSource
<1> QED  BY <1>5, <1>6, <1>7 DEF FeedAction

------------------------------------------------------------------------------
(* The newsroom.                                                           *)

(* The first state satisfies the invariant. *)
LEMMA InitInv ==
    ASSUME Init
    PROVE  Inv
<1>1. FeedInv /\ TranslationInv
  BY FeedInitInv, TranslationInitInv DEF Init
<1>2. /\ role = [e \in Editors |-> "editor"] /\ article = <<>> /\ desk = [e \in Editors |-> Away]
      /\ clock = 1 /\ said.what = {}
  BY DEF Init, EditorialInit, FeedInit, Silent
<1>3. article \in Seq(ArticleRow) /\ Ids = {}
  BY <1>2, EmptySeq DEF Ids
<1>4. \A e \in Editors : desk[e].st = "away"
  BY <1>2 DEF Away
<1>5. EditorialTypes
  BY <1>2, <1>3 DEF EditorialTypes
<1>6. BegunKept /\ DecisionsKept /\ ArticlesKept /\ DecidedByEditors
  BY <1>2, <1>3, <1>4 DEF BegunKept, DecisionsKept, Open, ArticlesKept, DecidedByEditors
<1> QED  BY <1>1, <1>5, <1>6 DEF Inv, EditorialInv

(* Every step of the newsroom keeps it. *)
LEMMA NextInv ==
    ASSUME Inv, [Next]_vars
    PROVE  Inv'
<1>0. FeedInv /\ TranslationInv /\ EditorialInv /\ FeedTypes /\ ItemsKept /\ EditorialTypes
      /\ clock \in Nat /\ month \in Months /\ desk = [e \in Editors |-> desk[e]]
  BY DEF Inv, FeedInv, EditorialInv, EditorialTypes, TranslationInv, CycleTypes
<1>1. ASSUME UNCHANGED <<role, article, desk, clock>>, said'.what \cap Decisions = {} \/ said' = said,
             Origins \subseteq Origins'
      PROVE  EditorialInv'
  <2>1. CASE said'.what \cap Decisions = {}
    <3>1. clock' \in Nat /\ clock <= clock'
      BY <1>0, <1>1
    <3>2. desk' = [e \in Editors |-> desk'[e]] /\ \A e \in Editors : desk'[e] \in {desk[e], Away}
      BY <1>0, <1>1
    <3> QED  BY <1>0, <1>1, <2>1, <3>1, <3>2, EditorialStays
  <2>2. CASE said' = said /\ said.what \cap Decisions # {}
    <3>1. said'.who = said.who
      BY <2>2
    <3>2. clock' \in Nat /\ clock <= clock' /\ Len(article) \in Nat
      BY <1>0, <1>1 DEF EditorialTypes
    <3>3. EditorialTypes'
      BY <1>0, <1>1 DEF EditorialTypes
    <3>4. BegunKept'
      BY <1>0, <1>1 DEF EditorialInv, BegunKept, Begun
    <3>5. \A e \in Editors : Open(e)' => role'[e] = "editor" /\ Stands(e)'
      <4>1. ASSUME NEW e \in Editors, Open(e)' PROVE role'[e] = "editor" /\ Stands(e)'
        <5>1. desk'[e] = desk[e] /\ role[e] = "editor" /\ Stands(e)
          BY <1>0, <1>1, <4>1 DEF EditorialInv, DecisionsKept, Open
        <5>2. desk[e].what # "approve" => desk[e].on \in Ids' /\ article'[desk[e].on] = article[desk[e].on]
          BY <1>1, <5>1 DEF Stands, Ids
        <5> QED  BY <1>0, <1>1, <3>2, <5>1, <5>2, StandsStays
      <4> QED  BY <4>1
    <3>6. DecisionsKept'
      BY <1>0, <1>1, <3>5 DEF EditorialInv, DecisionsKept, Open
    <3>7. ArticlesKept'
      BY <1>0, <1>1, <3>2, ArticlesStay DEF EditorialInv
    <3>8. DecidedByEditors'
      BY <1>0, <1>1, <2>2 DEF EditorialInv, DecidedByEditors, Ids, Active
    <3> QED  BY <3>3, <3>4, <3>6, <3>7, <3>8 DEF EditorialInv
  <2> QED  BY <1>1, <2>1, <2>2
<1>2. CASE FeedStep
  <2>1. FeedAction /\ UNCHANGED <<translationVars, editorialVars>>
    BY <1>2 DEF FeedStep, FeedAction
  <2>2. UNCHANGED <<cycle, translation, spend, month, billed, lost, role, article, desk, clock>>
    BY <2>1 DEF translationVars, editorialVars
  <2>3. FeedInv' /\ items \subseteq items'
    BY <1>0, <2>1, FeedInvKept, ItemsStay
  <2>4. TranslationInv'
    BY <1>0, <2>2, <2>3, TranslationInvStays
  <2>5. EditorialInv'
    BY <1>1, <2>1, <2>2, <2>3, FeedSays, OriginsGrow
  <2> QED  BY <2>3, <2>4, <2>5 DEF Inv
<1>3. CASE TranslationStep
  <2>1. /\ UNCHANGED feedVars /\ UNCHANGED <<items, role, article, desk, clock>>
        /\ said'.what \cap Decisions = {}
    BY <1>3 DEF TranslationStep, feedVars, editorialVars, Quiet, Silent
  <2>2. FeedInv'
    BY <1>0, <2>1, FeedInvStays
  <2>3. TranslationInv' /\ translation \subseteq translation'
    <3>1. CASE MonthTurns
      <4>1. UNCHANGED <<cycle, translation, spend, billed, lost>> /\ month' \in Months
        BY <1>0, <3>1 DEF MonthTurns, Months
      <4> QED  BY <1>0, <2>1, <4>1, TranslationInvStays
    <3>2. ASSUME NEW w \in Workers, CycleStep(w) PROVE TranslationInv' /\ translation \subseteq translation'
      <4>1. TranslationInv'
        BY <1>0, <2>1, <3>2, TranslationInvKept
      <4>2. PICK c : CycleMoves(w, c)
        BY <1>0, <3>2, CycleStepMoves
      <4>3. translation \subseteq translation'
        BY <4>2, TranslationStepAdds
      <4> QED  BY <4>1, <4>3
    <3> QED  BY <1>3, <3>1, <3>2 DEF TranslationStep
  <2>4. EditorialInv'
    BY <1>1, <2>1, <2>3, OriginsGrow
  <2> QED  BY <2>2, <2>3, <2>4 DEF Inv
<1>4. CASE DeskStep
  <2>1. UNCHANGED feedVars /\ UNCHANGED <<items, cycle, translation, spend, month, billed, lost>>
    BY <1>4 DEF DeskStep, feedVars, translationVars
  <2>2. FeedInv' /\ TranslationInv'
    BY <1>0, <2>1, FeedInvStays, TranslationInvStays
  <2> QED  BY <1>4, <2>2, DeskInvKept DEF Inv
<1>5. ASSUME NEW e \in Editors, SourceRequest(e) PROVE Inv'
  <2>1. FeedAction /\ UNCHANGED <<translationVars, role, article, clock>> /\ desk' = [desk EXCEPT ![e] = Away]
    BY <1>5 DEF SourceRequest, FeedAction, RegisterStep
  <2>2. UNCHANGED <<cycle, translation, spend, month, billed, lost>>
    BY <2>1 DEF translationVars
  <2>3. FeedInv' /\ items \subseteq items'
    BY <1>0, <2>1, FeedInvKept, ItemsStay
  <2>4. TranslationInv'
    BY <1>0, <2>2, <2>3, TranslationInvStays
  <2>5. Origins \subseteq Origins' /\ said'.what \cap Decisions = {} /\ clock' \in Nat /\ clock <= clock'
    BY <1>0, <2>1, <2>2, <2>3, FeedSays, OriginsGrow
  <2>6. EditorialInv'
    BY <1>0, <2>1, <2>5, RefusedKept
  <2> QED  BY <2>3, <2>4, <2>6 DEF Inv
<1>6. CASE UNCHANGED vars
  <2>1. /\ UNCHANGED feedVars
        /\ UNCHANGED <<items, cycle, translation, spend, month, billed, lost, role, article, desk, clock, said>>
    BY <1>6 DEF vars, feedVars, translationVars, editorialVars
  <2>2. FeedInv' /\ TranslationInv'
    BY <1>0, <2>1, FeedInvStays, TranslationInvStays
  <2>3. EditorialInv'
    BY <1>1, <2>1, OriginsGrow
  <2> QED  BY <2>2, <2>3 DEF Inv
<1> QED  BY <1>2, <1>3, <1>4, <1>5, <1>6 DEF Next

(* What the invariant says of an article's provenance. *)
LEMMA ProvenanceMeans ==
    ASSUME Inv
    PROVE  ProvenanceIsWhole
<1>0. ItemsKept /\ PairsKept /\ ArticlesKept
  BY DEF Inv, FeedInv, TranslationInv, EditorialInv
<1>1. ASSUME NEW a \in Ids
      PROVE  /\ Cardinality(Provenance(a).item) = 1
             /\ Cardinality(Provenance(a).source) = 1
             /\ Native(article[a].origin) \/ Cardinality(Provenance(a).translation) = 1
             /\ article[a].published # 0 => article[a].published >= article[a].approvedAt
             /\ ~ Active(a) => (article[a].published # 0 /\ article[a].withdrawnAt >= article[a].published)
  <2>1. PICK o : o = article[a].origin
    OBVIOUS
  <2>2. o \in Origins
    BY <1>0, <1>1, <2>1 DEF ArticlesKept
  <2>3. \/ Native(o) /\ \E i \in items : i.at = o[1]
        \/ \E t \in translation : t.pair = o /\ \E i \in items : i.at = o[1]
    <3>1. CASE \E i \in items : o = <<i.at, LanguageOf[i.src]>>
      BY <3>1 DEF Native
    <3>2. CASE \E t \in translation : o = t.pair
      BY <1>0, <3>2 DEF PairsKept
    <3> QED  BY <2>2, <3>1, <3>2 DEF Origins
  <2>4. PICK i \in items : i.at = o[1]
    BY <2>3
  <2>5. {j \in items : j.at = o[1]} = {i}
    BY <1>0, <2>4 DEF ItemsKept
  <2>6. {s \in Sources : Exists(s) /\ \E j \in items : j.at = o[1] /\ j.src = s} = {i.src}
    <3>1. i.src \in Sources /\ Exists(i.src)
      BY <1>0 DEF ItemsKept
    <3>2. \A j \in items : j.at = o[1] => j = i
      BY <2>5
    <3> QED  BY <2>4, <3>1, <3>2
  <2>7. Native(o) \/ \E t \in translation : {v \in translation : v.pair = o} = {t}
    BY <1>0, <2>3 DEF PairsKept
  <2>8. \A x : Cardinality({x}) = 1
    BY FS_Singleton
  <2>9. Native(o) \/ Cardinality({v \in translation : v.pair = o}) = 1
    BY <2>7, <2>8
  <2>10. /\ article[a].published # 0 => article[a].published >= article[a].approvedAt
         /\ ~ Active(a) => (article[a].published # 0 /\ article[a].withdrawnAt >= article[a].published)
    BY <1>0 DEF ArticlesKept
  <2>11. Provenance(a).item = {j \in items : j.at = o[1]}
    BY <2>1 DEF Provenance
  <2>12. Provenance(a).source = {s \in Sources : Exists(s) /\ \E j \in items : j.at = o[1] /\ j.src = s}
    BY <2>1 DEF Provenance
  <2>13. Provenance(a).translation = {v \in translation : v.pair = o}
    BY <2>1 DEF Provenance
  <2>14. Cardinality(Provenance(a).item) = 1 /\ Cardinality(Provenance(a).source) = 1
    BY <2>5, <2>6, <2>8, <2>11, <2>12
  <2> QED  BY <2>1, <2>9, <2>10, <2>13, <2>14
<1> QED  BY <1>1 DEF ProvenanceIsWhole

(* The invariant holds of every behaviour. *)
THEOREM Invariance == Spec => []Inv
<1>1. Init => Inv
  BY InitInv
<1>2. Inv /\ [Next]_vars => Inv'
  BY NextInv
<1> QED  BY <1>1, <1>2, PTL DEF Spec

(* The validators on a row vouch for no more than is stored, for every set *)
(* of sources and replicas: whatever attempt fails, whichever process or   *)
(* session dies between the fetch and the outcome, and however cycles      *)
(* overlap (RecordPollOutcome, recordItems).                               *)
THEOREM ValidatorsVouchHolds == Spec => []ValidatorsVouch
<1>1. Inv => ValidatorsVouch
  BY VouchedMeans DEF Inv
<1> QED  BY <1>1, Invariance, PTL

(* What the provider charged for a month is on its ledger, in an open call *)
(* or lost with a process, a month at its cap is halted, and the cap is    *)
(* passed by one call for each worker at most (settle, withSpend).         *)
THEOREM MonthIsWholeHolds == Spec => []MonthIsWhole
<1>1. Inv => MonthIsWhole
  BY MonthMeans DEF Inv
<1> QED  BY <1>1, Invariance, PTL

(* Nobody pays for a pair that is translated or that another is paying     *)
(* for, unless its own claim died (translatePair).                         *)
THEOREM PaidOnceHolds == Spec => []PaidOnce
<1>1. Inv => PaidOnce
  BY DEF Inv, TranslationInv
<1> QED  BY <1>1, Invariance, PTL

(* Whoever decided was an editor when the decision took effect and stays   *)
(* one while it is on record (RoleLocked, Demote).                         *)
THEOREM DecidedByEditorsHolds == Spec => []DecidedByEditors
<1>1. Inv => DecidedByEditors
  BY DEF Inv, EditorialInv
<1> QED  BY <1>1, Invariance, PTL

(* Every article is traced to one item, one source and, where it has one,  *)
(* one translation, and its timeline is in order (DeleteSource, Approve,   *)
(* Withdraw).                                                              *)
THEOREM ProvenanceIsWholeHolds == Spec => []ProvenanceIsWhole
<1>1. Inv => ProvenanceIsWhole
  BY ProvenanceMeans
<1> QED  BY <1>1, Invariance, PTL
==============================================================================
