------------------------------- MODULE Editorial -------------------------------
(***************************************************************************)
(* Editorial decisions (internal/editorial), the accounts' roles that      *)
(* authorise them (internal/identity), and the readers' pages              *)
(* (internal/content), over the items and translations of the modules      *)
(* this one extends.                                                       *)
(*                                                                         *)
(* A request is authenticated against the account's role, and its decision *)
(* is one transaction that reads the role again under a share lock on the  *)
(* account, takes the article's row or the origin's place in the index,    *)
(* and commits the change with its event.  now() is the time at which the  *)
(* transaction began.  The migrations' triggers and constraints are part   *)
(* of the statements that fire them.                                       *)
(***************************************************************************)
EXTENDS Translations

CONSTANTS
    Editors,
    Places,         \* the place slugs on record
    Follows,        \* the places the reader asks for
    MaxArticles,    \* bound on the article table
    PageLimit,
    MaxClock        \* bound on time

VARIABLES
    role,       \* account.role
    article,    \* the article table, in the order of its ids
    desk,       \* each editor's request
    clock,
    walk        \* a page walk: a reader's front page or an editor's queue

editorialVars == <<role, article, desk, clock, walk>>
vars == <<feedVars, said, budget, translationVars, editorialVars>>

Away == [st |-> "away"]
NoWalk == [what |-> "none", lang |-> NoOne, after |-> NoOne, seen |-> <<>>, due |-> {}, over |-> FALSE]

EditorialInit ==
    /\ role = [e \in Editors |-> "editor"]
    /\ article = <<>>
    /\ desk = [e \in Editors |-> Away]
    /\ clock = 1
    /\ walk = NoWalk

---------------------------------------------------------------------------------
(* An origin is an item in a language: its own, or one it is translated to. *)
ItemAt(at) == CHOOSE i \in items : i.at = at
Native(o) == \E i \in items : i.at = o[1] /\ LanguageOf[i.src] = o[2]
Origins == {<<i.at, LanguageOf[i.src]>> : i \in items} \cup {t.pair : t \in translation}

Ids == 1..Len(article)
Active(a) == article[a].withdrawnBy = NoOne
Visible(a) == article[a].published # 0 /\ Active(a)
HasArticle(o) == \E a \in Ids : article[a].origin = o /\ Active(a)

Open(e) == desk[e].st = "open"
Writing(e, what, on) == Open(e) /\ desk[e].what = what /\ desk[e].on = on

(* Mutant: the role is read without the lock that keeps it. *)
RoleLocked_Snapshot(e) == FALSE

(* The share lock that an open decision holds on its editor's account. *)
RoleLocked(e) == Open(e)

RowLocked(a) == \E e \in Editors : Open(e) /\ desk[e].what # "approve" /\ desk[e].on = a

(* account.role, as it stands when it is looked up. *)
IsEditor(e) == role[e] = "editor"

(* The bearer's account is an editor's, and the request's transaction begins. *)
(* The request names an article that is there to be named.                    *)
requireEditor(e) ==
    /\ Spend("requests")
    /\ desk[e] = Away
    /\ IsEditor(e)
    /\ desk' = [desk EXCEPT ![e] = [st |-> "begun", now |-> clock, knows |-> Len(article)]]
    /\ UNCHANGED <<role, article, clock, walk>>

Refused(e) ==
    /\ desk' = [desk EXCEPT ![e] = Away]
    /\ UNCHANGED <<role, article, clock, walk, budget>>

Decided(e, what, on, detail) ==
    /\ desk' = [desk EXCEPT ![e] = [st |-> "open", now |-> desk[e].now, what |-> what, on |-> on, detail |-> detail]]
    /\ UNCHANGED <<role, article, clock, walk, budget>>

requireTitle(o) == Native(o) => ItemAt(o[1]).title # 0

(* A request that names no place is turned away. *)
newApproval(places) == places # {}

unknownPlace(places) == ~ (places \subseteq Places)

(* What the database refuses: one no longer an editor, and an origin that has an article. *)
approvalError(e, o) == ~ IsEditor(e) \/ HasArticle(o)

(* Approval is the article's insert.  It waits for another's uncommitted    *)
(* approval of the origin, and is refused to one no longer an editor, of an *)
(* untitled item, of an origin that has an article, and for unknown places. *)
Approve(e) ==
    /\ desk[e].st = "begun"
    /\ Len(article) < MaxArticles
    /\ \E o \in Origins, places \in {{}} \cup {{p} : p \in Places \cup {NoOne}}, publish \in BOOLEAN :
          /\ ~ \E f \in Editors \ {e} : Writing(f, "approve", o)
          /\ IF newApproval(places) /\ requireTitle(o) /\ ~ approvalError(e, o) /\ ~ unknownPlace(places)
             THEN Decided(e, "approve", o, [places |-> places, publish |-> publish])
             ELSE Refused(e)

lockEditorRole(e) == IsEditor(e)

(* Publication happens once. *)
Publish(e) ==
    /\ desk[e].st = "begun"
    /\ \E a \in 1..desk[e].knows :
          /\ ~ RowLocked(a)
          /\ IF lockEditorRole(e) /\ article[a].published = 0
             THEN Decided(e, "publish", a, NoOne)
             ELSE Refused(e)

WithdrawalFollows(e, a) == desk[e].now >= article[a].published

(* Only a published article, once, and never dated before its publication. *)
Withdraw(e) ==
    /\ desk[e].st = "begun"
    /\ \E a \in 1..desk[e].knows :
          /\ ~ RowLocked(a)
          /\ IF IsEditor(e) /\ Visible(a) /\ WithdrawalFollows(e, a)
             THEN Decided(e, "withdraw", a, NoOne)
             ELSE Refused(e)

(* What the commit makes of the article table. *)
Changed(e) ==
    LET d == desk[e]
    IN  CASE d.what = "approve" ->
               Append(article, [origin |-> d.on, approvedBy |-> e, approvedAt |-> d.now, places |-> d.detail.places,
                                published |-> IF d.detail.publish THEN d.now ELSE 0,
                                withdrawnBy |-> NoOne, withdrawnAt |-> 0])
          [] d.what = "publish"  -> [article EXCEPT ![d.on].published = d.now]
          [] d.what = "withdraw" -> [article EXCEPT ![d.on].withdrawnBy = e, ![d.on].withdrawnAt = d.now]

Events(d) ==
    CASE d.what = "approve"  -> {"article.approved"} \cup (IF d.detail.publish THEN {"article.published"} ELSE {})
      [] d.what = "publish"  -> {"article.published"}
      [] d.what = "withdraw" -> {"article.withdrawn"}

(* The origin approved leaves the queue, the article withdrawn its page. *)
Leaves(e) == IF <<walk.what, desk[e].what>> \in {<<"queue", "approve">>, <<"front", "withdraw">>}
             THEN {desk[e].on} ELSE {}

Commit(e) ==
    /\ Open(e)
    /\ article' = Changed(e)
    /\ Says(Events(desk[e]), e)
    /\ walk' = [walk EXCEPT !.due = @ \ Leaves(e)]
    /\ desk' = [desk EXCEPT ![e] = Away]
    /\ UNCHANGED <<role, clock, budget>>

(* The commit fails or the process dies: the transaction is rolled back. *)
Abort(e) ==
    /\ Spend("faults")
    /\ desk[e] # Away
    /\ desk' = [desk EXCEPT ![e] = Away]
    /\ UNCHANGED <<role, article, clock, walk>>

(* The sources on a register, or the active ones of them. *)
SourceRows(register, lang) == {s \in Sources : register[s] # NoRow /\ (lang = NoOne \/ register[s].active)}

(* A change to the register of sources, by one let in as an editor: the      *)
(* role is not read again.                                                   *)
SourceRequest(e) ==
    /\ desk[e].st = "begun"
    /\ \E s \in Sources : \/ UpdateSource(s, e)
                          \/ DeleteSource(s)
                          \/ \E u \in Urls : CreateSource(s, u)
    /\ desk' = [desk EXCEPT ![e] = Away]
    /\ walk' = IF walk.what = "sources" THEN [walk EXCEPT !.due = @ \cap SourceRows(source', walk.lang)] ELSE walk
    /\ UNCHANGED <<translationVars, role, article, clock>>

(* The account's role is taken away: it waits for the locks on the account,  *)
(* and is refused while a recorded decision refers to it.                    *)
Demote(e) ==
    /\ Spend("demotions")
    /\ role[e] = "editor"
    /\ ~ RoleLocked(e)
    /\ ~ \E a \in Ids : e \in {article[a].approvedBy, article[a].withdrawnBy}
    /\ role' = [role EXCEPT ![e] = "reader"]
    /\ UNCHANGED <<article, desk, clock, walk>>

Tick ==
    /\ Spend("ticks")
    /\ clock < MaxClock
    /\ clock' = clock + 1
    /\ UNCHANGED <<role, article, desk, walk>>

---------------------------------------------------------------------------------
(* Keyset order on (time, id). *)
Before(k, l) == k[1] < l[1] \/ (k[1] = l[1] /\ k[2] < l[2])

FrontRows(lang) == {a \in Ids : Visible(a) /\ article[a].origin[2] = lang /\ article[a].places \cap Follows # {}}
FrontKey(a) == <<article[a].published, a>>

(* An origin without an active article; the row is the item's or the translation's. *)
QueueRows(lang) == {o \in Origins : ~ HasArticle(o) /\ (lang = NoOne \/ o[2] = lang)}
QueueKey(o) == <<o[1], LocaleRank(o[2])>>

(* Sources are numbered in the order in which they were registered. *)
SourceKey(s) == <<s, 0>>

Rows(w) ==
    CASE w.what = "front"   -> FrontRows(w.lang)
      [] w.what = "queue"   -> QueueRows(w.lang)
      [] w.what = "sources" -> SourceRows(source, w.lang)

Key(w, x) ==
    CASE w.what = "front"   -> FrontKey(x)
      [] w.what = "queue"   -> QueueKey(x)
      [] w.what = "sources" -> SourceKey(x)

StartWalk(what, lang) ==
    /\ Spend("walks")
    /\ walk.what = "none" \/ walk.over
    /\ walk' = LET w == [NoWalk EXCEPT !.what = what, !.lang = lang] IN [w EXCEPT !.due = Rows(w)]
    /\ UNCHANGED <<role, article, desk, clock>>

(* handleFront *)
StartFront == \E l \in ToSet(ReaderLocales) : StartWalk("front", l)

(* reviewQueue *)
StartQueue == \E l \in ToSet(ReaderLocales) \cup {NoOne} : StartWalk("queue", l)

(* listSources *)
StartSources == \E l \in {NoOne, "active"} : StartWalk("sources", l)

(* One page: newest first from the cursor, one row beyond it telling whether *)
(* another follows.                                                          *)
Page ==
    /\ walk.what # "none"
    /\ ~ walk.over
    /\ LET rows == SetToSortSeq({x \in Rows(walk) : walk.after = NoOne \/ Before(Key(walk, x), walk.after)},
                                LAMBDA x, y : LET k == Key(walk, x) l == Key(walk, y)
                                              IN  k[1] > l[1] \/ (k[1] = l[1] /\ k[2] > l[2]))
           more == Len(rows) > PageLimit
           shown == IF more THEN SubSeq(rows, 1, PageLimit) ELSE rows
       IN  walk' = [walk EXCEPT !.seen = @ \o shown,
                                !.after = IF more THEN Key(walk, shown[PageLimit]) ELSE @,
                                !.over = ~ more]
    /\ UNCHANGED <<role, article, desk, clock, budget>>

EditorStep(e) ==
    \/ requireEditor(e)
    \/ Approve(e)
    \/ Publish(e)
    \/ Withdraw(e)
    \/ Abort(e)
    \/ Demote(e)

Init == FeedInit /\ TranslationInit /\ EditorialInit

FeedStep ==
    /\ \/ \E r \in Replicas : PollStep(r)
       \/ LockDies
       \/ \E u \in Urls : FeedMoves(u)
       \/ \E s \in Sources : FallsDue(s)
    /\ UNCHANGED <<translationVars, editorialVars>>

TranslationStep ==
    /\ MonthTurns \/ \E w \in Workers : CycleStep(w)
    /\ Quiet
    /\ UNCHANGED <<feedVars, editorialVars>>

DeskStep ==
    /\ \/ \E e \in Editors : Commit(e)
       \/ /\ Tick \/ StartFront \/ StartQueue \/ StartSources \/ Page \/ \E e \in Editors : EditorStep(e)
          /\ Quiet
    /\ UNCHANGED <<feedVars, translationVars>>

Next ==
    \/ FeedStep
    \/ TranslationStep
    \/ DeskStep
    \/ \E e \in Editors : SourceRequest(e)

Spec == Init /\ [][Next]_vars

---------------------------------------------------------------------------------
(* Whoever decided was an editor when the decision took effect, and for as  *)
(* long as it is on record as an approval or a withdrawal: a request that   *)
(* was let in before a demotion, and a demotion between a decision and its  *)
(* commit, are kept out by the lock the decision holds on the account.      *)
DecidedByEditors ==
    /\ said.what \cap {"article.approved", "article.published", "article.withdrawn"} # {}
           => role[said.who] = "editor"
    /\ \A a \in Ids : /\ role[article[a].approvedBy] = "editor"
                      /\ ~ Active(a) => role[article[a].withdrawnBy] = "editor"

(* What an article is traced to: its translation, item and source. *)
Provenance(a) ==
    [translation |-> {t \in translation : t.pair = article[a].origin},
     item |-> {i \in items : i.at = article[a].origin[1]},
     source |-> {s \in Sources : Exists(s) /\ \E i \in items : i.at = article[a].origin[1] /\ i.src = s}]

(* Every article, withdrawn ones too, is traced to the item it was made of  *)
(* and that item's source, through its translation if it has one, whatever  *)
(* editors delete meanwhile; and its timeline reads approved, published,    *)
(* withdrawn although each is dated by when its transaction began.          *)
ProvenanceIsWhole ==
    \A a \in Ids :
        LET p == Provenance(a)
            x == article[a]
        IN  /\ Cardinality(p.item) = 1
            /\ Cardinality(p.source) = 1
            /\ Native(x.origin) \/ Cardinality(p.translation) = 1
            /\ x.published # 0 => x.published >= x.approvedAt
            /\ ~ Active(a) => (x.published # 0 /\ x.withdrawnAt >= x.published)

(* A walk through the pages shows no row twice and every row that was there *)
(* all along, while articles are approved, published and withdrawn under it *)
(* and rows share the time they are ordered by.                             *)
WalksAreWhole ==
    /\ walk.over => walk.due \subseteq ToSet(walk.seen)
    /\ IsInjective(walk.seen)
==============================================================================
