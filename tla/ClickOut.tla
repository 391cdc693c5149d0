------------------------------- MODULE ClickOut -------------------------------
(***************************************************************************)
(* Click-outs (internal/cashback/clickout) over the catalogue.             *)
(*                                                                         *)
(* A request reads one instant and judges everything against it: the click *)
(* rule, the member's participation, the offer.  It mints a reference,     *)
(* builds the redirect, and only then records the click and its event in   *)
(* one transaction and answers the redirect.  Between its reads and its    *)
(* insert other requests record clicks, the member may leave, and the      *)
(* band, the route or the network may close.                               *)
(***************************************************************************)
EXTENDS Catalogue

CONSTANTS
    Requests,       \* click-out requests, each sent once
    MemberOf,       \* [Requests -> the member who sends it]
    ContextOf,      \* [Requests -> the digest of its device], 0: none was recorded
    PerMember,      \* ClickRule.PerMember
    PerContext,     \* ClickRule.PerContext, 0: off
    ClickWindow,
    Wired,          \* the networks this process has an adapter for
    MaxOpen         \* requests under way at one time (a bound)

VARIABLES
    req,        \* each request: where it is and what it read
    clicks,     \* cashback.click
    created,    \* the references of the click.created events
    redirects,  \* the references of the redirects answered
    enrolled,   \* the members who take part
    active,     \* the networks switched on
    refusedAt   \* the last refusal by the click rule

clickVars == <<req, clicks, created, redirects, enrolled, active, refusedAt>>

Members == {MemberOf[r] : r \in Requests}
NotSent == [st |-> "unsent", at |-> 0, offer |-> 0, promised |-> 0, net |-> 0]
NoRefusal == [rule |-> "none", who |-> 0, at |-> 0, retry |-> 0]

ClickOutInit ==
    /\ CatalogueInit
    /\ req = [r \in Requests |-> NotSent]
    /\ clicks = {}
    /\ created = {}
    /\ redirects = {}
    /\ enrolled = Members
    /\ active = Networks
    /\ refusedAt = NoRefusal

To(r, st) == [req EXCEPT ![r].st = st]

(* Mutant: the rule refuses one click late. *)
Refused_OneOver(allowed, counted) == Cardinality(counted) > allowed

(* The rows a count reads: clicked_at > since. *)
CountRecentClicksByAccount(m, at) == {c \in clicks : c.member = m /\ c.at + ClickWindow > at}
CountRecentClicksByContext(d, at) == {c \in clicks : c.context = d /\ c.at + ClickWindow > at}

Refused(allowed, counted) == Cardinality(counted) >= allowed

Oldest(S) == CHOOSE c \in S : \A d \in S : c.at <= d.at

(* When the rule lifts: the oldest counted click leaves the window, and a second at least. *)
RetryAfter(counted, at) ==
    IF Oldest(counted).at + ClickWindow > at + 1 THEN Oldest(counted).at + ClickWindow - at ELSE 1

(* The verdict on a request: the member's rule first, then its device's. *)
Verdict(r, at) ==
    LET byMember == CountRecentClicksByAccount(MemberOf[r], at)
        byContext == CountRecentClicksByContext(ContextOf[r], at)
    IN  CASE PerMember > 0 /\ Refused(PerMember, byMember) ->
                [rule |-> "member", who |-> MemberOf[r], at |-> at, retry |-> RetryAfter(byMember, at)]
          [] PerContext > 0 /\ ContextOf[r] # 0 /\ Refused(PerContext, byContext) ->
                [rule |-> "context", who |-> ContextOf[r], at |-> at, retry |-> RetryAfter(byContext, at)]
          [] OTHER -> NoRefusal

Allow(r, o) ==
    /\ req[r].st = "unsent"
    /\ Cardinality({q \in Requests : req[q].st \notin {"unsent", "done"}}) < MaxOpen
    /\ Spend("requests")
    /\ refusedAt' = Verdict(r, clock)
    /\ req' = IF refusedAt' = NoRefusal
              THEN [req EXCEPT ![r] = [NotSent EXCEPT !.st = "allowed", !.at = clock, !.offer = o]]
              ELSE To(r, "done")
    /\ UNCHANGED <<clock, standing, routes, merchants, told, imp, offers, walk,
                   clicks, created, redirects, enrolled, active>>

Participating(r) ==
    /\ req[r].st = "allowed"
    /\ req' = To(r, IF MemberOf[r] \in enrolled THEN "enrolled" ELSE "done")
    /\ UNCHANGED <<catalogueVars, clicks, created, redirects, enrolled, active, refusedAt>>

GetLiveOffer(o, at) ==
    LET p == offers[o].route
    IN  InForce(o, at) /\ routes[p].status = "active" /\ NetworkOf[p] \in active

BuildDeeplink(n) == n \in Wired

(* The offer is read, a reference minted and the redirect built from the    *)
(* template; a network without an adapter here builds none.                 *)
LiveOffer(r) ==
    /\ req[r].st = "enrolled"
    /\ LET o == req[r].offer
           n == NetworkOf[offers[o].route]
       IN  IF GetLiveOffer(o, req[r].at) /\ BuildDeeplink(n)
           THEN req' = [req EXCEPT ![r].st = "built", ![r].promised = offers[o].rate, ![r].net = n]
           ELSE req' = To(r, "done")
    /\ UNCHANGED <<catalogueVars, clicks, created, redirects, enrolled, active, refusedAt>>

Click(r) ==
    [ref |-> r, member |-> MemberOf[r], context |-> ContextOf[r], offer |-> req[r].offer,
     net |-> req[r].net, promised |-> req[r].promised, at |-> clock]

(* The click's event, keyed by the click, in the transaction that records it. *)
Created(r) == created' = created \cup {r}

(* Mutant: the redirect is answered before the click is recorded. *)
Record_RedirectFirst(r) ==
    /\ \/ req[r].st = "built" /\ req' = To(r, "answered") /\ redirects' = redirects \cup {r}
             /\ UNCHANGED <<clicks, created>>
       \/ req[r].st = "answered" /\ req' = To(r, "done") /\ clicks' = clicks \cup {Click(r)}
             /\ Created(r) /\ UNCHANGED redirects
    /\ UNCHANGED <<catalogueVars, enrolled, active, refusedAt>>

(* The click and its event commit together, and the redirect is answered. *)
Record(r) ==
    /\ req[r].st = "built"
    /\ clicks' = clicks \cup {Click(r)}
    /\ Created(r)
    /\ redirects' = redirects \cup {r}
    /\ req' = To(r, "done")
    /\ UNCHANGED <<catalogueVars, enrolled, active, refusedAt>>

(* The transaction fails, or commits and its answer is lost: no redirect. *)
RecordFails(r) ==
    /\ req[r].st = "built"
    /\ Spend("faults")
    /\ req' = To(r, "done")
    /\ \/ UNCHANGED <<clicks, created>>
       \/ clicks' = clicks \cup {Click(r)} /\ Created(r)
    /\ UNCHANGED <<clock, standing, routes, merchants, told, imp, offers, walk,
                   redirects, enrolled, active, refusedAt>>

(* The member leaves cashback or comes back; an operator switches a network. *)
Enrol(m) ==
    /\ Spend("leaves")
    /\ enrolled' = IF m \in enrolled THEN enrolled \ {m} ELSE enrolled \cup {m}
    /\ UNCHANGED <<clock, standing, routes, merchants, told, imp, offers, walk,
                   req, clicks, created, redirects, active, refusedAt>>

Switch(n) ==
    /\ Spend("leaves")
    /\ active' = IF n \in active THEN active \ {n} ELSE active \cup {n}
    /\ UNCHANGED <<clock, standing, routes, merchants, told, imp, offers, walk,
                   req, clicks, created, redirects, enrolled, refusedAt>>

(* The click a reported reference names, under the network that reports it. *)
GetClickByRef(ref, n) == {c \in clicks : c.ref = ref /\ c.net = n}

ClickOutNext ==
    \/ CatalogueNext /\ UNCHANGED clickVars
    \/ \E r \in Requests :
          \/ \E o \in DOMAIN offers : Allow(r, o)
          \/ Participating(r)
          \/ LiveOffer(r)
          \/ Record(r)
          \/ RecordFails(r)
    \/ \E m \in Members : Enrol(m)
    \/ \E n \in Networks : Switch(n)

----------------------------------------------------------------------------
TypeOK ==
    /\ clock \in Nat
    /\ standing \in [Programmes -> {"active", "paused", "suspended", "out"}]
    /\ routes \in [Programmes -> [merchant : Slugs \cup {0}, preferred : BOOLEAN, at : 0..clock,
                                  status : {"none", "active", "paused", "left_network"}]]
    /\ merchants \subseteq Slugs \ {0}
    /\ \A o \in DOMAIN offers : offers[o].route \in Programmes /\ offers[o].from < offers[o].to
    /\ \A r \in Requests : req[r].st \in {"unsent", "allowed", "enrolled", "built", "done"}
    /\ \A c \in clicks : c.at \in 0..clock /\ c.ref \in Requests /\ c.net \in Networks
    /\ \A what \in DOMAIN budget : budget[what] \in Nat

(* A redirect is answered only when its click and the click's event are     *)
(* recorded, so whatever the network reports under the reference finds the  *)
(* click, under that network and no other (clickout.go:176-180, 220-253;    *)
(* recorder.go:73-98; click.go:287-303).                                    *)
RedirectIsRecorded ==
    /\ created = {c.ref : c \in clicks}
    /\ \A r \in redirects : \E c \in clicks :
          /\ c.ref = r
          /\ \A n \in Networks : GetClickByRef(r, n) = IF n = NetworkOf[offers[c.offer].route] THEN {c} ELSE {}

(* Requests that count before either records pass the rule together, by no  *)
(* more than were under way at once: in every window a member makes at most *)
(* PerMember clicks and one for each other request then open.  Whoever is   *)
(* refused and told to come back in so many seconds finds one click fewer   *)
(* counted then, and not a second before (ratelimit.go:55-87,               *)
(* toomanyclicks.go:67-82).                                                 *)
RuleHolds ==
    /\ \A m \in Members, t \in 0..clock :
          Cardinality({c \in clicks : c.member = m /\ c.at <= t /\ c.at + ClickWindow > t})
              <= PerMember + MaxOpen - 1
    /\ refusedAt # NoRefusal =>
          LET then == refusedAt.at + refusedAt.retry
              Mine(c) == IF refusedAt.rule = "member" THEN c.member = refusedAt.who ELSE c.context = refusedAt.who
              Counted(t) == {c \in clicks : Mine(c) /\ c.at <= refusedAt.at /\ c.at + ClickWindow > t}
          IN  /\ Counted(then) # Counted(refusedAt.at)
              /\ refusedAt.retry > 1 => Counted(then - 1) = Counted(refusedAt.at)
==============================================================================
