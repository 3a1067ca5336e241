----------------------------- MODULE ShellCache ------------------------------
(* The pages outside the administration in one tab of the browser: the links and *)
(* menus that prefetch the next page into Inertia's cache (lib/*-shell-prefetch.ts),*)
(* the forms that write and name the cached pages to drop, and signing in and out. *)
(* A prefetch is answered by the server and arrives later; a click on a link whose  *)
(* page is under way counts when it has arrived.                                    *)
EXTENDS Integers, FiniteSets

CONSTANTS
  None,
  Ids,        \* the identities that use the tab
  Staff,      \* those of the staff
  Owners,     \* those that own their account; the others are members of it
  MaxCached,  \* bound: the pages in the cache and on their way to it
  MaxMoves    \* bound: what the visitor does


\* One page stands for those whose props are only the shared ones.  The pages of the application are
\* those of the account; the tokens are also on a page of the identity alone.
Public == {"/", "/crawl"}
Guest == {"/login", "/register"}
OwnTokens == "/app/access_tokens"
Tokens == {"/app/1/access_tokens", OwnTokens}
AppShell == {"/app/dashboard", "/app/crawl/new", "/app/settings"} \cup Tokens
Admin == {"/admin/dashboard"}
Paths == Public \cup Guest \cup AppShell \cup Admin
Reset == "/password/edit"
Menu == "/app"

PublicShellCacheTags(p) ==
  CASE p = "/" -> {"public-home"} [] p = "/crawl" -> {"public-crawl-requests"}
    [] p = "/login" -> {"public-login"} [] p = "/register" -> {"public-register"} [] OTHER -> {}

AppShellCacheTags(p) ==
  CASE p = "/app/dashboard" -> {"app-dashboard"} [] p = "/app/crawl/new" -> {"app-crawl-requests"}
    [] p = "/app/settings" -> {"app-settings"} [] p \in Tokens -> {"app-access-tokens"}
    [] OTHER -> {}

AdminShellCacheTags(p) == IF p = "/admin/dashboard" THEN {"admin-dashboard"} ELSE {}

TagsOf(p) == PublicShellCacheTags(p) \cup AppShellCacheTags(p) \cup AdminShellCacheTags(p)

AllPublicTags == {"public-home", "public-crawl-requests", "public-login", "public-register"}
AllAppTags == {"app-dashboard", "app-crawl-requests", "app-settings", "app-access-tokens"}

Writes == {"token_create", "token_revoke", "profile", "crawl"}
SignIns == {"login", "register", "reset"}
Kinds == Writes \cup SignIns \cup {"get", "logout", "leave", "reactivate"}

Accounts == [Ids -> {"active", "cancelled", "left"}]
Shells == [path : Paths \cup {Reset, Menu}, who : Ids \cup {None}, at : Nat, astray : BOOLEAN]
Visits == [kind : Kinds, to : Paths, as : Ids \cup {None}]
Servers == [session : Ids \cup {None}, account : Accounts, clock : Nat]

ShellCacheAssumption ==
  /\ Staff \subseteq Ids /\ Owners \subseteq Ids /\ MaxCached \in Nat /\ MaxMoves \in Nat
  /\ None \notin Ids /\ None \notin Shells /\ None \notin Visits

VARIABLES
  session,  \* the identity of the session's cookie
  account,  \* of each identity: active, cancelled, left
  clock,    \* the writes that reached the server
  shown,    \* [path, who, at, astray]: the page shown, whose props it has and of when; astray: it
            \* was kept for a path that led elsewhere, or was under way when its tags were dropped
            \* (history)
  cache,    \* the same of each cached path, or None
  coming,   \* the same of each prefetch under way
  dialog,   \* the dialog that is open: of the form it submits
  visit,    \* [kind, to, as]: the visit under way
  acked,    \* of each thing: the last write the browser was answered (history)
  sure,     \* the session did not change since the public pages were dropped (history)
  moves

vars == <<session, account, clock, shown, cache, coming, dialog, visit, acked, sure, moves>>

Move == moves < MaxMoves /\ moves' = moves + 1

-----------------------------------------------------------------------------
(* The server.                                                                 *)

\* Where a signed-in identity comes to: its dashboard, the menu that offers to take a cancelled
\* account back, or the home page when there is no account.
Home(state) == CASE state = "active" -> "/app/dashboard"
                 [] state = "cancelled" -> Menu
                 [] OTHER -> "/"

\* The page a request ends at, after its redirects.
Lands(p, id, accounts) ==
  IF p \in Public \cup {Reset} THEN p
  ELSE IF id = None THEN IF p \in Guest THEN p ELSE "/login"
  ELSE IF \/ p = OwnTokens
          \/ p \in AppShell /\ accounts[id] = "active"
          \/ p \in Admin /\ id \in Staff THEN p
  ELSE Home(accounts[id])

Page(p, s) ==
  [path |-> Lands(p, s.session, s.account), who |-> s.session, at |-> s.clock, astray |-> FALSE]
Server == [session |-> session, account |-> account, clock |-> clock]
Fetch(p) == Page(p, Server)

Init ==
  /\ session \in Ids \cup {None} /\ clock = 0
  /\ account \in {a \in [Ids -> {"active", "cancelled"}] : \A i \in Ids : a[i] = "cancelled" => i \in Owners}
  /\ shown = Fetch(IF session = None THEN "/" ELSE "/app/dashboard")
  /\ cache = [p \in Paths |-> None] /\ coming = cache /\ dialog = None /\ visit = None
  /\ acked = [t \in {"name", "tokens", "crawls"} |-> 0] /\ sure = TRUE /\ moves = 0

\* The writes: what they change and what they drop.
TokenWrite == [thing |-> "tokens", tags |-> AppShellCacheTags(OwnTokens)]

\* Variant: only the cached settings are dropped.
SettingsWriteAlone == [thing |-> "name", tags |-> AppShellCacheTags("/app/settings")]

SettingsWrite == [thing |-> "name", tags |-> AllAppTags]

CrawlWrite == [thing |-> "crawls", tags |-> AppShellCacheTags("/app/dashboard")]

WriteOf(kind) ==
  CASE kind \in {"token_create", "token_revoke"} -> TokenWrite
    [] kind = "profile" -> SettingsWrite
    [] kind = "crawl" -> CrawlWrite

\* What a visit that reaches the server does there.
HasAccount == session # None /\ account[session] = "active"

\* Tokens are of the identity; what else is written is of the account.
Writing(v) == v.kind \in Writes /\ (HasAccount \/ (session # None /\ v.to = OwnTokens))

Served(v) ==
  CASE Writing(v) -> [Server EXCEPT !.clock = @ + 1]
    [] v.kind \in SignIns -> [Server EXCEPT !.session = v.as]
    [] v.kind = "logout" -> [Server EXCEPT !.session = None]
    [] v.kind = "leave" /\ HasAccount ->
         [Server EXCEPT !.session = None,
                          !.account = [account EXCEPT ![session] = IF session \in Owners THEN "cancelled" ELSE "left"]]
    [] v.kind = "reactivate" /\ session # None -> [Server EXCEPT !.account = [account EXCEPT ![session] = "active"]]
    [] OTHER -> Server

Reaches(v) ==
  LET s == Served(v) IN session' = s.session /\ account' = s.account /\ clock' = s.clock

\* The visit under way is given up; the server may have done what it asked for.
GivesUp ==
  IF visit = None THEN UNCHANGED <<session, account, clock, sure>>
  ELSE \/ UNCHANGED <<session, account, clock, sure>>
       \/ Reaches(visit) /\ sure' = (sure /\ session' = session)

-----------------------------------------------------------------------------
(* What the pages offer: the header of the public pages, the sidebar and the menu *)
(* of the application and of the administration, built from the props shown.      *)

HeaderLinks == IF shown.who = None THEN Public \cup Guest ELSE Public

UserMenu == IF shown.who = None THEN {} ELSE {"/app/dashboard", "/app/settings"}
AdminItem == IF shown.who \in Staff THEN Admin ELSE {}

\* The sidebar's links are of the account; the menu's link to the tokens is when the page is.
TokensLink == IF shown.path = OwnTokens THEN OwnTokens ELSE "/app/1/access_tokens"

\* The menu of the header prefetches what it offers; that of the sidebar not the administration.
Prefetched ==
  CASE shown.path \in Public -> HeaderLinks \cup UserMenu \cup AdminItem
    [] shown.path \in Guest -> {"/"} \cup Guest
    [] shown.path \in AppShell -> (AppShell \ Tokens) \cup {TokensLink}
    [] shown.path \in Admin -> Admin \cup UserMenu
    [] OTHER -> {}

Linked ==
  CASE shown.path \in AppShell -> Prefetched \cup AdminItem
    [] shown.path = Menu -> {}
    [] shown.path = Reset -> {"/"}
    [] OTHER -> Prefetched

Keep(p, page) == [cache EXCEPT ![p] = page]

Pending == {p \in Paths : cache[p] # None} \cup {p \in Paths : coming[p] # None}

\* Hovering a link, its appearance or the opening of the menu: the page is asked for with the cookie
\* of the session ...
Prefetch(p) ==
  /\ Move /\ p \in Prefetched /\ TagsOf(p) # {} /\ coming[p] = None
  /\ Cardinality(Pending \cup {p}) <= MaxCached
  /\ coming' = [coming EXCEPT ![p] = Fetch(p)]
  /\ UNCHANGED <<session, account, clock, shown, cache, dialog, visit, acked, sure>>

\* ... and kept, when it comes, under the path that was asked for, ...
Arrive(p) ==
  /\ coming[p] # None /\ cache' = Keep(p, coming[p]) /\ coming' = [coming EXCEPT ![p] = None]
  /\ UNCHANGED <<session, account, clock, shown, dialog, visit, acked, sure, moves>>

\* ... or it does not come.
Lost(p) ==
  /\ coming[p] # None /\ coming' = [coming EXCEPT ![p] = None]
  /\ UNCHANGED <<session, account, clock, shown, cache, dialog, visit, acked, sure, moves>>

\* A cached page lives for 30 seconds or a minute.
Expire(p) ==
  /\ cache[p] # None /\ cache' = Keep(p, None)
  /\ UNCHANGED <<session, account, clock, shown, coming, dialog, visit, acked, sure, moves>>

\* Dropping the cached pages that have one of the tags.
Without(tags) == [p \in Paths |-> IF TagsOf(p) \cap tags = {} THEN cache[p] ELSE None]

\* Whether a page under way is dropped too is the library's matter: here it comes (or is lost).
Overtaken(tags) ==
  [p \in Paths |-> IF coming[p] # None /\ TagsOf(p) \cap tags # {}
                   THEN [coming[p] EXCEPT !.astray = TRUE] ELSE coming[p]]

Get(p) == [kind |-> "get", to |-> p, as |-> None]

\* A link: the cached page is shown at once; otherwise the page is asked for.
Visit(p) ==
  /\ Move /\ p \in Linked /\ GivesUp
  /\ \/ /\ cache[p] # None
        /\ shown' = [cache[p] EXCEPT !.astray = @ \/ cache[p].path # p] /\ visit' = None /\ dialog' = None
     \/ /\ cache[p] = None
        /\ visit' = Get(p) /\ UNCHANGED <<shown, dialog>>
  /\ UNCHANGED <<cache, coming, acked>>

-----------------------------------------------------------------------------
(* The forms.                                                                  *)

Busy(kind) == visit # None /\ visit.kind = kind

Send(kind, to, as) ==
  /\ Move /\ ~Busy(kind) /\ GivesUp
  /\ visit' = [kind |-> kind, to |-> to, as |-> as]
  /\ UNCHANGED <<shown, cache, coming, dialog, acked>>

\* The dialogs that ask before they send: of a new token, of the token to revoke, of leaving the
\* account, of taking a cancelled one back.
Asks == [token_create |-> Tokens, token_revoke |-> Tokens, leave |-> {"/app/settings"}, reactivate |-> {Menu}]

Open(kind) ==
  /\ Move /\ shown.path \in Asks[kind] /\ dialog' = kind
  /\ UNCHANGED <<session, account, clock, shown, cache, coming, visit, acked, sure>>

CreateToken == dialog = "token_create" /\ Send("token_create", TokensLink, None)
RevokeToken == dialog = "token_revoke" /\ Send("token_revoke", TokensLink, None)
SaveProfile == shown.path = "/app/settings" /\ Send("profile", "/app/settings", None)
SubmitUrl == shown.path = "/app/crawl/new" /\ Send("crawl", "/crawl", None)
LeaveAccount == dialog = "leave" /\ Send("leave", "/", None)
Reactivate == dialog = "reactivate" /\ Send("reactivate", "/app/dashboard", None)

LogIn(id) == shown.path = "/login" /\ Send("login", "/app/dashboard", id)
Register(id) == shown.path = "/register" /\ Send("register", "/app/dashboard", id)
ResetPassword(id) == shown.path = Reset /\ Send("reset", "/app/dashboard", id)

\* From a public page one stays on it, from another one comes to the login page.
LogOut ==
  /\ shown.who # None /\ shown.path \in Public \cup AppShell \cup Admin
  /\ Send("logout", IF shown.path \in Public THEN shown.path ELSE "/login", None)

\* Variant: the menus log out without it.
FlushesOnSignIn(kind) == kind \in {"login", "register"}

\* onSuccess of the sign-in and sign-up forms and of the menus; of no other visit.
Flushes(kind) == kind \in {"login", "register", "logout"}

\* invalidateCacheTags of the forms that write, and flushPublicShellCache.
Dropped(v) ==
  CASE v.kind \in Writes -> WriteOf(v.kind).tags
    [] Flushes(v.kind) -> AllPublicTags
    [] OTHER -> {}

\* The visit is answered with a page: the cached pages to drop, the page shown, the dialog closed.
\* Leaving the last account ends the session too, and nothing is dropped then.
Answer ==
  /\ visit # None /\ Reaches(visit)
  /\ LET v == visit
         s == Served(v)
     IN  /\ cache' = Without(Dropped(v)) /\ coming' = Overtaken(Dropped(v))
         /\ shown' = Page(v.to, s)
         /\ acked' = IF Writing(v) THEN [acked EXCEPT ![WriteOf(v.kind).thing] = s.clock] ELSE acked
         /\ sure' = (Flushes(v.kind) \/ (sure /\ (v.kind = "leave" => s.session = session)))
  /\ dialog' = None /\ visit' = None /\ UNCHANGED moves

\* The form's errors come back: nothing was written, nothing is dropped, the dialog stays.
Invalid ==
  /\ visit # None /\ visit.kind \in Writes \cup SignIns
  /\ shown' = Fetch(CASE visit.kind = "crawl" -> "/app/crawl/new"
                      [] visit.kind \in Writes -> visit.to
                      [] OTHER -> shown.path)
  /\ visit' = None /\ UNCHANGED <<session, account, clock, cache, coming, dialog, acked, sure, moves>>

\* No page comes: onFinish only.
Fails ==
  /\ visit # None /\ GivesUp /\ visit' = None
  /\ UNCHANGED <<shown, cache, coming, dialog, acked, moves>>

\* A page that is loaded by the browser starts with an empty cache: a reload, the address of the
\* identity's tokens, the return from Google's sign-in, the link of the password mail.
Load(p, id) ==
  /\ Move
  /\ \/ p \in {shown.path, OwnTokens} /\ id = session
     \/ shown.path \in Guest /\ p = "/app/dashboard" /\ id \in Ids
     \/ p = Reset /\ id = None /\ session = None
  /\ session' = id /\ shown' = Page(p, [Server EXCEPT !.session = id])
  /\ cache' = [q \in Paths |-> None] /\ coming' = cache' /\ dialog' = None /\ visit' = None /\ sure' = TRUE
  /\ UNCHANGED <<account, clock, acked>>

Next ==
  \/ \E p \in Paths : Prefetch(p) \/ Arrive(p) \/ Lost(p) \/ Expire(p) \/ Visit(p)
  \/ \E k \in DOMAIN Asks : Open(k)
  \/ CreateToken \/ RevokeToken \/ SaveProfile \/ SubmitUrl \/ LeaveAccount \/ Reactivate \/ LogOut
  \/ \E i \in Ids : LogIn(i) \/ Register(i) \/ ResetPassword(i)
  \/ Answer \/ Invalid \/ Fails
  \/ \E p \in Paths \cup {Reset, Menu}, i \in Ids \cup {None} : Load(p, i)

Spec == Init /\ [][Next]_vars

-----------------------------------------------------------------------------
(* Properties.                                                                 *)

\* What a page of the application shows of what is written; the sidebar shows the name.
Sees(p) ==
  {"name"} \cup (CASE p \in Tokens -> {"tokens"} [] p = "/app/dashboard" -> {"crawls"} [] OTHER -> {})

\* A public page says who is signed in: once a sign-in, a sign-up or a log-out was answered, no public
\* page that was kept before it is shown (flushPublicShellCache).  The pages of the application and of
\* the administration are not dropped then, and are not meant here: for as long as they are kept they
\* are shown as they were, to whoever signs in next.  A session that ended or began otherwise, by
\* leaving the account or by a visit that was given up, is left out: nothing is dropped then.  So is a
\* page that is kept under a path from which it was redirected (it has the tags of that path), and
\* one that was under way when its tags were dropped.
PublicPagesOfSession == shown.path \in Public /\ sure /\ ~shown.astray => shown.who = session

\* Once a form of the application was answered, no page of the application that shows what it wrote
\* is shown as it was before: the tokens, the name, the crawls of the dashboard.  The name is also
\* in the header of the public pages, which are not dropped and are not meant here.
OwnWritesShown ==
  shown.path \in AppShell /\ ~shown.astray => \A t \in Sees(shown.path) : shown.at >= acked[t]

\* The inductive invariant: what the two properties say of the page shown holds of every page in the
\* cache or on its way there that is shown when its own path is asked for; and a new password is set
\* with an empty cache.
TypeOK ==
  /\ session \in Ids \cup {None} /\ account \in Accounts /\ clock \in Nat
  /\ shown \in Shells /\ cache \in [Paths -> Shells \cup {None}] /\ coming \in [Paths -> Shells \cup {None}]
  /\ visit \in Visits \cup {None} /\ acked \in [{"name", "tokens", "crawls"} -> Nat]

Kept(p, page) ==
  /\ page.path # Reset
  /\ sure /\ p \in Public /\ ~page.astray => page.who = session
  /\ p \in AppShell /\ ~page.astray /\ page.path = p => \A t \in Sees(p) : page.at >= acked[t]

ResetWithoutCache ==
  /\ shown.path = Reset => \A p \in Paths : cache[p] = None /\ coming[p] = None
  /\ visit # None /\ visit.kind = "reset" => shown.path = Reset

Inductive ==
  /\ TypeOK /\ PublicPagesOfSession /\ OwnWritesShown /\ ResetWithoutCache
  /\ \A p \in Paths : cache[p] # None => Kept(p, cache[p])
  /\ \A p \in Paths : coming[p] # None => Kept(p, coming[p])
  /\ \A t \in DOMAIN acked : acked[t] <= clock
=============================================================================
