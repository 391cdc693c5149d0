------------------------------ MODULE Catalogue ------------------------------
(***************************************************************************)
(* The retailer catalogue of internal/cashback/catalogue.                  *)
(*                                                                         *)
(* An import reads one network's programmes, a membership at a time, and   *)
(* writes the routes in one transaction: it resolves each programme to a   *)
(* retailer, decides which route a retailer is published through, and      *)
(* concludes from a whole answer, and from nothing less, that a programme  *)
(* has left.  An operator publishes rate bands on the routes, and a reader *)
(* pages through the retailers by slug while both happen.                  *)
(*                                                                         *)
(* A route is named by its programme, (network, external id); a retailer   *)
(* by its slug, a number so that slugs have the byte order of the listing. *)
(***************************************************************************)
EXTENDS Naturals, FiniteSets, SequencesExt

CONSTANTS
    Programmes,     \* the networks' programmes, numbers
    Networks,
    NetworkOf,      \* [Programmes -> Networks]
    SlugOf,         \* Slug(name): [Programmes -> Nat], 0 when nothing in the name can form one
    FallbackSlug,   \* FallbackSlug(network, id): [Programmes -> Nat \ {0}]
    OneAnswer,      \* the networks whose whole catalogue is one answer (linkwise)
    Matching,       \* the slugs whose resolved name the reader searches for
    Limit,          \* retailers on a page of the listing
    Rates,          \* the terms of a band: rate, share, conditions
    Open,           \* the instant no band outlives: valid_to is null
    Beginnings      \* the standings a run starts from, with how often each kind of step is taken (bounds)

NoRoute == [merchant |-> 0, status |-> "none", preferred |-> FALSE, at |-> 0]

VARIABLES
    clock,      \* the instant, shared by the processes and the database
    standing,   \* what each network says of each programme
    routes,     \* cashback.merchant_network
    merchants,  \* cashback.merchant: the slugs
    told,       \* the route the last route event of a retailer names; 0: none, NotTold: no event
    imp,        \* the import under way; steady: the programmes carried and unmoved since it began
    offers,     \* cashback.offer
    walk,       \* a reader paging through the listing
    budget      \* steps left of each kind

catalogueVars == <<clock, standing, routes, merchants, told, imp, offers, walk, budget>>

NotTold == Cardinality(Programmes) + 1
Slugs == {SlugOf[p] : p \in Programmes} \cup {FallbackSlug[p] : p \in Programmes}
Idle == [st |-> "idle", net |-> CHOOSE n \in Networks : TRUE, at |-> 0, asked |-> 0, feed |-> <<>>,
         steady |-> {}]
NoWalk == [st |-> "off", cursor |-> 0, seen |-> <<>>, due |-> {}]

CatalogueInit ==
    /\ clock = 1
    /\ routes = [p \in Programmes |-> NoRoute]
    /\ merchants = {}
    /\ told = [m \in Slugs |-> NotTold]
    /\ imp = Idle
    /\ offers = <<>>
    /\ walk = NoWalk
    /\ \E b \in Beginnings : standing = b.standing /\ budget = b.budget

Spend(what) ==
    /\ budget[what] > 0
    /\ budget' = [budget EXCEPT ![what] = @ - 1]

----------------------------------------------------------------------------
(* What a network answers. *)

Moves == {<<"out", "active">>, <<"active", "paused">>, <<"paused", "active">>,
          <<"active", "suspended">>, <<"suspended", "active">>, <<"active", "out">>, <<"suspended", "out">>}

(* A programme is approved, stops publishing, is suspended or leaves. *)
NetworkMoves(p, s) ==
    /\ Spend("moves")
    /\ <<standing[p], s>> \in Moves
    /\ standing' = [standing EXCEPT ![p] = s]
    /\ imp' = [imp EXCEPT !.steady = @ \ {p}]
    /\ UNCHANGED <<clock, routes, merchants, told, offers, walk>>

(* The memberships an adapter asks for, each in a call of its own. *)
catalogueMemberships(n) ==
    IF n \in OneAnswer THEN <<{"active", "paused", "suspended"}>>
                       ELSE <<{"active", "paused"}, {"suspended"}>>

(* Awin's status is of the membership asked for, the programme and its links;  *)
(* Linkwise's of the programme and of what its terms permit: paused is         *)
(* everything but a route a member may be sent down now.                       *)
mapMerchantStatus(s) == IF s = "active" THEN "active" ELSE "paused"
mapRouteState(s) == CASE s = "active" -> "active" [] s \in {"paused", "suspended"} -> "paused"

Answer(n, memberships) ==
    LET named == {p \in Programmes : NetworkOf[p] = n /\ standing[p] \in memberships}
    IN  [i \in 1..Cardinality(named) |->
            LET p == SetToSortSeq(named, <)[i]
                map(s) == IF n \in OneAnswer THEN mapRouteState(s) ELSE mapMerchantStatus(s)
            IN  [programme |-> p, status |-> map(standing[p])]]

----------------------------------------------------------------------------
(* The statements of an import, on the rows as its transaction sees them:   *)
(* t.routes, t.merchants, t.told; t.keys are the idempotency keys of the    *)
(* events it appended, and t.refused why the database or the importer       *)
(* refused it.                                                              *)

RoutesTo(t, m) == {p \in Programmes : t.routes[p].merchant = m}
MerchantHasPreferredRoute(t, m) == \E p \in RoutesTo(t, m) : t.routes[p].preferred
HasRouteAtNetwork(t, m, n) == \E p \in RoutesTo(t, m) : NetworkOf[p] = n

(* merchant_network_one_preferred, merchant_network_preferred_is_publishable. *)
Constraints(r) ==
    /\ \A p, q \in Programmes :
          r[p].preferred /\ r[q].preferred /\ r[p].merchant = r[q].merchant => p = q
    /\ \A p \in Programmes : r[p].preferred => r[p].status = "active"

Written(t, r) ==
    [t EXCEPT !.routes = r, !.refused = IF Constraints(r) THEN @ ELSE @ \cup {"constraint"}]

(* An event is appended under type:merchant:instant, once. *)
announce(t, type, m, route) ==
    [t EXCEPT !.told[m] = route,
              !.keys = @ \cup {<<type, m>>},
              !.refused = IF <<type, m>> \in t.keys THEN @ \cup {"already appended"} ELSE @]

Earliest(t, S) ==
    CHOOSE p \in S : \A q \in S : <<t.routes[p].at, p>> = <<t.routes[q].at, q>>
                                  \/ t.routes[p].at < t.routes[q].at
                                  \/ (t.routes[p].at = t.routes[q].at /\ p < q)

PromotePublishableRoute(t, m) ==
    IF MerchantHasPreferredRoute(t, m) THEN {}
    ELSE LET publishable == {p \in RoutesTo(t, m) : t.routes[p].status = "active"}
         IN  IF publishable = {} THEN {} ELSE {Earliest(t, publishable)}

(* The published slot goes to the earliest publishable route. *)
handOver(t, m, previous) ==
    LET promoted == PromotePublishableRoute(t, m)
    IN  IF promoted = {}
        THEN IF previous THEN announce(t, "unpublished", m, 0) ELSE t
        ELSE LET p == CHOOSE q \in promoted : TRUE
             IN  announce(Written(t, [t.routes EXCEPT ![p].preferred = TRUE]), "published", m, p)

merchantForSlug(t, p, slug) ==
    LET n == NetworkOf[p]
        fallback == FallbackSlug[p]
    IN  CASE ~HasRouteAtNetwork(t, slug, n) -> slug
          [] HasRouteAtNetwork(t, slug, n) /\ fallback # slug
                /\ ~HasRouteAtNetwork(t, fallback, n) -> fallback
          [] OTHER -> 0

resolveMerchant(t, p) ==
    IF t.routes[p] # NoRoute THEN t.routes[p].merchant
    ELSE merchantForSlug(t, p, IF SlugOf[p] = 0 THEN FallbackSlug[p] ELSE SlugOf[p])

DemotePreferredRoute(r, p) == [r EXCEPT ![p].preferred = FALSE]

UpsertRoute(t, p, m, status, preferred, at) ==
    Written([t EXCEPT !.merchants = @ \cup {m}],
            [t.routes EXCEPT ![p] =
                IF @ = NoRoute THEN [merchant |-> m, status |-> status, preferred |-> preferred, at |-> at]
                               ELSE [@ EXCEPT !.status = status, !.at = at]])

writeRoute(t, report, at) ==
    LET p == report.programme
        m == resolveMerchant(t, p)
        publishable == report.status = "active"
        withdrawn == ~publishable /\ t.routes[p].preferred
        demoted == IF withdrawn THEN Written(t, DemotePreferredRoute(t.routes, p)) ELSE t
        preferred == MerchantHasPreferredRoute(demoted, m)
        upserted == UpsertRoute(demoted, p, m, report.status, ~preferred /\ publishable, at)
    IN  CASE m = 0 -> [t EXCEPT !.refused = @ \cup {"conflict"}]
          [] m # 0 /\ ~preferred /\ ~upserted.routes[p].preferred -> handOver(upserted, m, withdrawn)
          [] OTHER -> upserted

NotSeen(t, n, at) ==
    {p \in Programmes : NetworkOf[p] = n /\ t.routes[p] # NoRoute
                        /\ t.routes[p].at < at /\ t.routes[p].status # "left_network"}

DemotePreferredRoutesNotSeen(t, n, at) ==
    Written(t, [p \in Programmes |->
        IF p \in NotSeen(t, n, at) THEN [t.routes[p] EXCEPT !.preferred = FALSE] ELSE t.routes[p]])

MarkRoutesNotSeen(t, n, at) ==
    Written(t, [p \in Programmes |->
        IF p \in NotSeen(t, n, at) THEN [t.routes[p] EXCEPT !.status = "left_network"] ELSE t.routes[p]])

(* Mutant: the absent lose their slots and nobody is given them. *)
Reconcile_NoHandOver(t, n, at) ==
    MarkRoutesNotSeen(DemotePreferredRoutesNotSeen(t, n, at), n, at)

(* What follows the last report: the absent are withdrawn, then their slots go to survivors. *)
Reconcile(t, n, at) ==
    LET withdrawn == {p \in NotSeen(t, n, at) : t.routes[p].preferred}
        marked == MarkRoutesNotSeen(DemotePreferredRoutesNotSeen(t, n, at), n, at)
    IN  FoldLeft(LAMBDA u, p : handOver(u, t.routes[p].merchant, TRUE), marked,
                 SetToSortSeq(withdrawn, <))

Run(feed, n, at) ==
    LET begun == [routes |-> routes, merchants |-> merchants, told |-> told, keys |-> {}, refused |-> {}]
    IN  Reconcile(FoldLeft(LAMBDA t, report : writeRoute(t, report, at), begun, feed), n, at)

----------------------------------------------------------------------------
(* The import, under the lock of its job. *)

ImportStart(n) ==
    /\ imp.st \in {"idle", "refused"}
    /\ Spend("imports")
    /\ clock' = clock + 1
    /\ imp' = [st |-> "reading", net |-> n, at |-> clock', asked |-> 0, feed |-> <<>>,
               steady |-> {p \in Programmes : standing[p] # "out"}]
    /\ UNCHANGED <<standing, routes, merchants, told, offers, walk>>

FetchCatalogue ==
    /\ imp.st = "reading"
    /\ imp.asked < Len(catalogueMemberships(imp.net))
    /\ imp' = [imp EXCEPT !.asked = @ + 1,
                          !.feed = @ \o Answer(imp.net, catalogueMemberships(imp.net)[imp.asked + 1])]
    /\ UNCHANGED <<clock, standing, routes, merchants, told, offers, walk, budget>>

(* The answer broke off, or a programme in it could not be read: rolled back. *)
ImportAbandoned ==
    /\ imp.st = "reading"
    /\ Spend("faults")
    /\ imp' = Idle
    /\ UNCHANGED <<clock, standing, routes, merchants, told, offers, walk>>

ImportCommit ==
    /\ imp.st = "reading"
    /\ imp.asked = Len(catalogueMemberships(imp.net))
    /\ LET t == Run(imp.feed, imp.net, imp.at)
       IN  IF t.refused = {}
           THEN /\ routes' = t.routes
                /\ merchants' = t.merchants
                /\ told' = t.told
                /\ imp' = Idle
           ELSE /\ imp' = [Idle EXCEPT !.st = "refused", !.feed = SetToSeq(t.refused)]
                /\ UNCHANGED <<routes, merchants, told>>
    /\ UNCHANGED <<clock, standing, offers, walk, budget>>

----------------------------------------------------------------------------
(* Rate bands. *)

InForce(o, at) == offers[o].from <= at /\ offers[o].to > at
BandsInForceOnRoute(p, at) == {o \in DOMAIN offers : offers[o].route = p /\ InForce(o, at)}
refuseDeadRoute(p) == routes[p].status = "active"
sameBand(o, rate) == offers[o].rate = rate

CloseOffer(o, p, at) ==
    IF o \in DOMAIN offers /\ offers[o].route = p /\ offers[o].from < at /\ offers[o].to > at
    THEN [offers EXCEPT ![o].to = at] ELSE offers

(* Publish a band from an instant on, in place of another one (0: of none). *)
Publish(p, rate, from, replaces) ==
    /\ Spend("publishes")
    /\ refuseDeadRoute(p)
    /\ \A o \in BandsInForceOnRoute(p, from) : o # replaces => ~sameBand(o, rate)
    /\ replaces # 0 => CloseOffer(replaces, p, from) # offers
    /\ offers' = Append(CloseOffer(replaces, p, from),
                        [route |-> p, rate |-> rate, from |-> from, to |-> Open])
    /\ UNCHANGED <<clock, standing, routes, merchants, told, imp, walk>>

----------------------------------------------------------------------------
(* The listing. *)

PublishedBands(m, at) ==
    {o \in DOMAIN offers : InForce(o, at) /\ routes[offers[o].route].merchant = m
                           /\ routes[offers[o].route].preferred /\ routes[offers[o].route].status = "active"}

Candidates(after) == SetToSortSeq({m \in merchants \cap Matching : m > after}, <)
NextCursor(items) == items[Limit]

ListStart ==
    /\ walk.st = "off"
    /\ Spend("walks")
    /\ walk' = [NoWalk EXCEPT !.st = "on", !.due = merchants \cap Matching]
    /\ UNCHANGED <<clock, standing, routes, merchants, told, imp, offers>>

List ==
    /\ walk.st = "on"
    /\ LET items == Candidates(walk.cursor)
           more == Len(items) > Limit
       IN  walk' = [walk EXCEPT !.st = IF more THEN "on" ELSE "done",
                                !.cursor = IF more THEN NextCursor(items) ELSE @,
                                !.seen = @ \o (IF more THEN SubSeq(items, 1, Limit) ELSE items)]
    /\ UNCHANGED <<clock, standing, routes, merchants, told, imp, offers, budget>>

----------------------------------------------------------------------------
Tick ==
    /\ Spend("ticks")
    /\ clock' = clock + 1
    /\ UNCHANGED <<standing, routes, merchants, told, imp, offers, walk>>

CatalogueNext ==
    \/ \E p \in Programmes, s \in {"active", "paused", "suspended", "out"} : NetworkMoves(p, s)
    \/ \E n \in Networks : ImportStart(n)
    \/ FetchCatalogue
    \/ ImportAbandoned
    \/ ImportCommit
    \/ \E p \in Programmes, rate \in Rates, from \in {clock, clock + 1}, o \in 0..Len(offers) :
          Publish(p, rate, from, o)
    \/ ListStart
    \/ List
    \/ Tick

----------------------------------------------------------------------------
(* A retailer that has a publishable route publishes one, and only one, and *)
(* it is alive: no import, pause, departure or return loses the slot.  The  *)
(* database refuses a second or a dead published route, and sees no         *)
(* retailer that publishes nothing; nor does a whole answer of a network    *)
(* ever bring an import to such a refusal, or to an event appended twice,   *)
(* which would fail every import from then on (import.go:195-216, 285-346;  *)
(* events.go:131).                                                          *)
SlotIsFilled ==
    /\ Constraints(routes)
    /\ \A p \in Programmes : routes[p].status = "active" =>
          \E q \in Programmes : routes[q].preferred /\ routes[q].merchant = routes[p].merchant
    /\ imp.st = "refused" => ToSet(imp.feed) = {"conflict"}

(* A reader who pages to the end sees every retailer that was there when    *)
(* they began, and none twice, whatever is imported meanwhile (list.go).    *)
PagesAreWhole ==
    /\ IsInjective(walk.seen)
    /\ walk.st = "done" => walk.due \subseteq ToSet(walk.seen)

(* A programme the network carried unmoved throughout the read is not       *)
(* withdrawn: a route leaves only when a whole answer does not name it, so  *)
(* an answer that broke off concludes nothing from absence                  *)
(* (import.go:174-210, awin/catalogue.go:104-163).                          *)
OnlyTheAbsentLeave ==
    [][\A p \in imp.steady : routes'[p].status = "left_network" => routes[p].status = "left_network"]_routes

(* The last route event about a retailer names the route it is published    *)
(* through now, or none: "announces that a retailer's published route is    *)
(* now the one named: on a hand-over ..., or on a retailer that had none    *)
(* regaining one" (events.go:31-33).                                        *)
SlotIsAnnounced ==
    \A m \in Slugs : told[m] # NotTold =>
        {p \in Programmes : routes[p].preferred /\ routes[p].merchant = m} = {told[m]} \ {0}
==============================================================================
