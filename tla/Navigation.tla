------------------------------ MODULE Navigation ------------------------------
(***************************************************************************)
(* One tab of the dashboard between its address bar and its pages: the     *)
(* routes of useRoute.ts, the view of the overview mirrored into the query *)
(* by useViewState.ts, the redirects of App.tsx and what its buttons offer. *)
(* React commits a render at once after a click or a traversal of the      *)
(* history, and runs its effects with it; the render an answer or an       *)
(* effect asks for comes later, and its effects later still, so that the   *)
(* visitor's Back may fall in between.  A first setup and a sign-in        *)
(* between two factors are SignIn's.                                       *)
(***************************************************************************)
EXTENDS Naturals, Sequences

CONSTANTS
  SitePlatforms,    \* the platforms the hub serves
  DefaultPlatform,
  MaxEntries        \* the browser drops the oldest entry of a longer history

ASSUME NavigationAssumptions ==
  DefaultPlatform \in SitePlatforms /\ MaxEntries \in Nat \ {0}

VARIABLES
  trail,        \* the history: its entries and the one the tab is at
  app,          \* the last render: who is signed in, whether visitors must be, the
                \* route, the view while the dashboard is mounted, and the name of the
                \* redirect its effect last ran for
  late,         \* the route an effect has set and no render has shown yet
  effects,      \* effects of the last render still to run
  leaving,      \* where a sign-out under way goes when it is over
  contribute,   \* the site invites contributors
  carried,      \* history: a view was kept over a navigation that gave up its query
  overtaken     \* history: a redirect was overtaken on its way, and no page is back

navVars == <<trail, app, late, effects, leaving, contribute, carried, overtaken>>

\* A route, which stands for its path: a page that is of no platform has the default's.
Home(p) == [name |-> "home", platform |-> p]
RegionOf(p) == [name |-> "region", platform |-> p]
Plain(name) == [name |-> name, platform |-> DefaultPlatform]
NoRoute == Plain("none")

Routes ==
  {Home(p) : p \in SitePlatforms} \cup {RegionOf(p) : p \in SitePlatforms}
    \cup {Plain(n) : n \in {"register", "login", "admin", "account", "notfound"}}

\* The search stands for the filter as well: both go back to the first page.
Searches == {"", "word", "word "}
Views == [search : Searches, page : 0 .. 1]
NoView == [search |-> "", page |-> 9]

Trimmed(s) == IF s = "word " THEN "word" ELSE s

\* toUrl: what is as usual is left out, the search is trimmed, pages count from 1.
ToQuery(v) ==
  [k \in (IF v.search = "" THEN {} ELSE {"q"}) \cup (IF v.page > 0 THEN {"page"} ELSE {})
     |-> IF k = "q" THEN Trimmed(v.search) ELSE v.page + 1]

\* Mutant: the page of a query is taken as it is.
ParseAsIs(q) ==
  [search |-> IF "q" \in DOMAIN q THEN q["q"] ELSE "",
   page |-> IF "page" \in DOMAIN q /\ q["page"] > 1 THEN q["page"] ELSE 0]

\* parseUrl.
Parse(q) ==
  [search |-> IF "q" \in DOMAIN q THEN q["q"] ELSE "",
   page |-> IF "page" \in DOMAIN q /\ q["page"] > 1 THEN q["page"] - 1 ELSE 0]

\* Queries a link may have: a view's, or one that names the first page.
Queries == {ToQuery(v) : v \in Views} \cup {[k \in {"page"} |-> 1]}
EmptyQuery == ToQuery([search |-> "", page |-> 0])

\* An entry of the history, with the view last shown on it.
Entry(r, q) == [route |-> r, query |-> q, seen |-> NoView]

Here(h) == h.entries[h.at]

SignedIn(who) == who \in {"user", "admin"}

\* redirectFor.
Target(a) ==
  IF a.who = "loading" THEN NoRoute
  ELSE IF SignedIn(a.who) THEN
    IF a.route.name = "login" THEN Home(DefaultPlatform) ELSE NoRoute
  ELSE IF a.route.name \in {"admin", "account"} \/ (a.gated /\ a.route.name # "login")
    THEN Plain("login")
  ELSE NoRoute

\* "Loading" is all there is to see.
Loading(a) == a.who = "loading" \/ Target(a) # NoRoute

\* The page is the Dashboard, which keeps its state from one of its routes to another.
DashboardShown(a) ==
  /\ ~Loading(a)
  /\ a.route.name \notin {"login", "notfound"}
  /\ a.route.name = "admin" => a.who = "admin"

\* The overview with its controls and cards.
OverviewShown(a) ==
  /\ DashboardShown(a)
  /\ a.route.name = "home" \/ (a.route.name = "register" /\ ~contribute)

NoEffects == [redirect |-> NoRoute, mirror |-> FALSE]

\* The visitor follows a link.  One to the bare root is one to the default platform's home:
\* the page replaces its address by that, without the query it had.
NavInit ==
  /\ \E r \in Routes, q \in Queries :
       trail = [entries |-> <<Entry(r, q)>>, at |-> 1]
  /\ app = [who |-> "loading", gated |-> FALSE, route |-> Here(trail).route,
            view |-> NoView, keyed |-> "none"]
  /\ late = NoRoute
  /\ effects = NoEffects
  /\ leaving = NoRoute
  /\ contribute \in BOOLEAN
  /\ carried = FALSE
  /\ overtaken = FALSE

-----------------------------------------------------------------------------
\* What the visitor sees of the view, as a link has it.
Showing ==
  IF app.view # NoView /\ ~carried /\ effects = NoEffects
    THEN [app.view EXCEPT !.search = Trimmed(@)] ELSE NoView

\* An entry is left: what it showed is noted.
Left(h, seen) == [h EXCEPT !.entries[h.at].seen = seen]

\* pushState: what was ahead is dropped.
Push(h, r, seen) ==
  LET all == Append(SubSeq(Left(h, seen).entries, 1, h.at), Entry(r, EmptyQuery))
      kept == IF Len(all) > MaxEntries THEN Tail(all) ELSE all
  IN [entries |-> kept, at |-> Len(kept)]

\* navigate, its part in the history.
Navigated(h, r, seen) == IF Here(h).route # r THEN Push(h, r, seen) ELSE h

\* Mutant: a query is never emptied.
MirroredUnlessEmpty(h, v) ==
  IF ToQuery(v) = EmptyQuery THEN h ELSE [h EXCEPT !.entries[h.at].query = ToQuery(v)]

\* replaceState, the effect of useViewState.
Mirrored(h, v) == [h EXCEPT !.entries[h.at].query = ToQuery(v)]

\* A render: the view is read from the query when the dashboard is mounted.
Rendered(a, h) ==
  [a EXCEPT !.keyed = Target(a).name,
            !.view = IF ~DashboardShown(a) THEN NoView
                     ELSE IF @ = NoView THEN Parse(Here(h).query) ELSE @]

\* Mutant: the redirect runs once.
EffectsOnce(b, viewSet) ==
  [redirect |-> IF app.keyed = "none" /\ app.who = "loading" THEN Target(b) ELSE NoRoute,
   mirror |-> b.view # NoView /\ (viewSet \/ app.view = NoView)]

\* The effects a render brings, by what they depend on.
EffectsOf(b, viewSet) ==
  [redirect |-> IF Target(b).name # app.keyed THEN Target(b) ELSE NoRoute,
   mirror |-> b.view # NoView /\ (viewSet \/ app.view = NoView)]

\* A redirect leaves an entry that showed "Loading".
AfterEffects(h, fx, view) ==
  LET mirrored == IF fx.mirror THEN Mirrored(h, view) ELSE h
  IN IF fx.redirect # NoRoute THEN Navigated(mirrored, fx.redirect, NoView) ELSE mirrored

Histories(h, b, mirror) ==
  /\ carried' = (/\ b.view # NoView /\ app.view # NoView /\ ~mirror
                 /\ carried \/ Here(h).route # Here(trail).route)
  /\ overtaken' = (/\ Loading(b)
                   /\ overtaken \/ (late # NoRoute /\ b.route # late))

\* A click or a traversal: render and effects at once.
CommitNow(h, a, viewSet) ==
  LET b == Rendered(a, h)
      fx == EffectsOf(b, viewSet)
  IN /\ app' = b
     /\ trail' = AfterEffects(h, fx, b.view)
     /\ late' = fx.redirect
     /\ effects' = NoEffects
     /\ Histories(h, b, fx.mirror)

\* Anything else: the effects come later.
CommitLater(h, a) ==
  LET b == Rendered(a, h) IN
  /\ effects = NoEffects
  /\ app' = b
  /\ trail' = h
  /\ late' = NoRoute
  /\ effects' = EffectsOf(b, FALSE)
  /\ Histories(h, b, FALSE)

-----------------------------------------------------------------------------
\* What is on offer: the platforms of the selector, the header, the menus, the banner,
\* the cards, and the way back of the other pages.
OnPlatform(p) == IF app.route.name = "region" THEN RegionOf(p) ELSE Home(p)
SelectorOffers == {OnPlatform(p) : p \in SitePlatforms}
HomeOffers == {Home(app.route.platform)}
RegisterOffers == IF contribute THEN {Plain("register")} ELSE {}

HeaderOffers == HomeOffers \cup SelectorOffers \cup RegisterOffers

UserMenuOffers ==
  IF ~SignedIn(app.who) THEN {Plain("login")}
  ELSE {Plain("account")} \cup (IF app.who = "admin" THEN {Plain("admin")} ELSE {})

MobileMenuOffers ==
  SelectorOffers \cup RegisterOffers
    \cup (IF SignedIn(app.who) THEN {} ELSE {Plain("login")})

BannerOffers == IF app.route.name = "home" THEN RegisterOffers ELSE {}

CardOffers == IF OverviewShown(app) THEN {RegionOf(app.route.platform)} ELSE {}

\* NotFound, and the page for who is no administrator.
BackOffers == {Home(DefaultPlatform)}

Offers ==
  IF DashboardShown(app)
    THEN HeaderOffers \cup UserMenuOffers \cup MobileMenuOffers \cup BannerOffers
           \cup CardOffers
  ELSE IF Loading(app) \/ app.route.name = "login" THEN {}
  ELSE BackOffers

\* A button of the page; the page has settled when it is pressed.
Press(to) ==
  /\ effects = NoEffects
  /\ to \in Offers
  /\ CommitNow(Navigated(trail, to, Showing), [app EXCEPT !.route = to], FALSE)
  /\ UNCHANGED <<leaving, contribute>>

\* setView.
SetView(v) ==
  /\ effects = NoEffects /\ late = NoRoute
  /\ OverviewShown(app)
  /\ CommitNow(trail, [app EXCEPT !.view = v], TRUE)
  /\ UNCHANGED <<leaving, contribute>>

\* A search leaves fewer regions than fill a page.
PageCount == IF app.view.search = "" THEN 2 ELSE 1
ClampedPage == IF app.view.page < PageCount THEN app.view.page ELSE PageCount - 1

\* onSearch and onFilter, and the reset of an empty overview.
Search(s) == SetView([search |-> s, page |-> 0])

\* onPage: the buttons are those of the page shown.
Turn(p) ==
  /\ PageCount > 1 /\ p \in {ClampedPage - 1, ClampedPage + 1} \cap 0 .. PageCount - 1
  /\ SetView([app.view EXCEPT !.page = p])

\* Back and Forward.  The listener of the route is called first, and the effects still to
\* run are run before it renders; the dashboard then reads its view again.
Traverse(i) ==
  LET there == [Left(trail, Showing) EXCEPT !.at = i]
      listens == app.view # NoView /\ ~effects.mirror
      popped == [app EXCEPT !.route = Here(there).route,
                            !.view = IF listens THEN Parse(Here(there).query) ELSE @]
  IN /\ i \in DOMAIN trail.entries \ {trail.at}
     /\ LET b == Rendered(popped, there)
            before == AfterEffects(there, effects, app.view)
            fx == EffectsOf(b, TRUE)
        IN /\ app' = b
           /\ trail' = AfterEffects(before, fx, b.view)
           /\ late' = IF fx.redirect # NoRoute THEN fx.redirect ELSE effects.redirect
           /\ effects' = NoEffects
           /\ Histories(there, b, TRUE)
     /\ UNCHANGED <<leaving, contribute>>

\* The effects of a later render.
RunEffects ==
  /\ effects # NoEffects
  /\ trail' = AfterEffects(trail, effects, app.view)
  /\ late' = IF effects.redirect # NoRoute THEN effects.redirect ELSE late
  /\ effects' = NoEffects
  /\ UNCHANGED <<app, leaving, contribute, carried, overtaken>>

\* The render a redirect asked for.
RenderLate ==
  /\ late # NoRoute
  /\ CommitLater(trail, [app EXCEPT !.route = late])
  /\ UNCHANGED <<leaving, contribute>>

Learnt(h, who, gated, route) ==
  CommitLater(h, [app EXCEPT !.who = who, !.gated = gated /\ who = "out", !.route = route])

\* AuthContext learns who is signed in: at the start, from the login page, and from the
\* account page, whose session may have ended.
WhoAnswered(who, gated) ==
  /\ app.who = "loading" \/ (~Loading(app) /\ app.route.name \in {"login", "account"})
  /\ Learnt(trail, who, gated, IF late # NoRoute THEN late ELSE app.route)
  /\ UNCHANGED <<leaving, contribute>>

\* signOut of the account menu: the request, the session again, and then onHome as it was
\* when the button was pressed, wherever the visitor is.
SignOut ==
  /\ DashboardShown(app) /\ SignedIn(app.who)
  /\ effects = NoEffects /\ leaving = NoRoute
  /\ leaving' = Home(app.route.platform)
  /\ UNCHANGED <<trail, app, late, effects, contribute, carried, overtaken>>

SignedOut(who, gated) ==
  /\ leaving # NoRoute
  /\ who \in {"out", app.who}
  /\ Learnt(Navigated(trail, leaving, Showing), who, gated, leaving)
  /\ leaving' = NoRoute
  /\ UNCHANGED contribute

Whos == {"out", "user", "admin"}

NavNext ==
  \/ \E to \in Routes : Press(to)
  \/ \E s \in Searches : Search(s)
  \/ \E p \in 0 .. 1 : Turn(p)
  \/ \E i \in 1 .. MaxEntries : Traverse(i)
  \/ RunEffects
  \/ RenderLate
  \/ \E who \in Whos, gated \in BOOLEAN : WhoAnswered(who, gated) \/ SignedOut(who, gated)
  \/ SignOut

\* Renders and effects that are due are run, and the first question is answered.
NavFairness ==
  /\ WF_navVars(RunEffects)
  /\ WF_navVars(RenderLate)
  /\ WF_navVars(app.who = "loading" /\ \E who \in Whos, gated \in BOOLEAN : WhoAnswered(who, gated))

NavSpec == NavInit /\ [][NavNext]_navVars /\ NavFairness

-----------------------------------------------------------------------------
\* "View state mirrored into the URL query so a link reproduces the exact view": once the
\* effects have run, the query is the view's, unless the view was carried over to a page
\* whose link does not have it.
LinkKeepsView ==
  app.view # NoView /\ effects = NoEffects /\ ~carried
    => Here(trail).query = ToQuery(app.view)

\* Back and Forward show a page as it was left.
BackShowsWhatWasLeft ==
  [][\A i \in 1 .. MaxEntries :
       Traverse(i) /\ effects = NoEffects /\ app'.view # NoView
         => trail.entries[i].seen \in {NoView, app'.view}]_navVars

\* "Loading" gives way to a page, unless Back, or the end of a sign-out, overtook
\* a redirect on its way: its effect is keyed by the name of the page it goes to.
LoadingEnds == []<>(~Loading(app) \/ overtaken)

=============================================================================
