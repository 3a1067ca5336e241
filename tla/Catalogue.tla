------------------------------ MODULE Catalogue ------------------------------
(* One library of the catalogue with its versions: the import of a crawl, the     *)
(* administrator's page of it (pages/admin/libraries/show.tsx, edit.tsx) and a     *)
(* reader's (pages/libraries/show.tsx).  A screen of pages stands for a page.      *)
EXTENDS Integers, FiniteSets, Sequences, Functions

CONSTANTS
  None,
  Names,       \* version names
  ChannelFor,  \* of each name: the channel an import gives it
  Rank,        \* of each name: its place in the order of versions
  Counts,      \* the numbers of screens a crawl brings
  MaxVersions, \* bound: rows of versions
  MaxMoves     \* bound: what the crawls, the administrator and the reader do

Rows == 1..MaxVersions

Channels == {"stable", "latest", "canary", "snapshot"}
Versions == [name : Names, channel : Channels, pages : Nat]
Libraries == [default : Names \cup {None}, name : {"crawled", "curated"}, homepage : {None, "crawled", "curated"},
              aliases : SUBSET {"crawled"}, locked : BOOLEAN]

CatalogueAssumption ==
  /\ ChannelFor \in [Names -> Channels]
  /\ Rank \in [Names -> Nat] /\ Counts \subseteq Nat \ {0}
  /\ MaxVersions \in Nat /\ MaxMoves \in Nat
  /\ None \notin Names /\ None \notin Versions

VARIABLES
  versions,  \* of each row: [name, channel, pages], or None
  library,   \* [default, name, homepage, aliases, locked]
  admin,     \* [view, rows, library, dialog]: the administrator's page, its props, the dialog open
  save,      \* the administrator's visit under way: [act, row, arg]
  reader,    \* [props, box, turned]: the reader's page, the search box, of which search a page was turned
  ask,       \* the reader's visit under way: [version, page, search, turned]
  moves

vars == <<versions, library, admin, save, reader, ask, moves>>

Move == moves < MaxMoves /\ moves' = moves + 1

-----------------------------------------------------------------------------
(* The models.                                                                 *)

Live == {r \in Rows : versions[r] # None}
Named(rows, n) == {r \in Rows : rows[r] # None /\ rows[r].name = n}
Row(n) == Named(versions, n)

DefaultVersionPriority(channel) == CASE channel = "stable" -> 2 [] channel = "latest" -> 1 [] OTHER -> 0

\* Variant: a default that is not a version any more is kept.
PromoteUnlessSet(rows, row) ==
  \/ library.default = None
  \/ \E r \in Named(rows, library.default) : r # row /\ Rank[rows[row].name] > Rank[library.default]

\* The version just imported becomes the default: there is none, it is no version, or it is of a lesser
\* channel or an earlier version.
ShouldPromoteDefaultVersion(rows, row) ==
  \/ library.default = None \/ Named(rows, library.default) = {}
  \/ \E r \in Named(rows, library.default) :
       LET now == DefaultVersionPriority(rows[r].channel)
           to == DefaultVersionPriority(rows[row].channel)
       IN  r # row /\ (to > now \/ (to = now /\ Rank[rows[row].name] > Rank[library.default]))

\* What a crawl finds is merged into the library; the name and a homepage that is set are kept once an
\* administrator has saved them, the aliases are not.
SyncLibraryMetadata(l, homepage) ==
  [l EXCEPT !.aliases = @ \cup {"crawled"},
            !.name = IF l.locked THEN @ ELSE "crawled",
            !.homepage = IF (l.locked /\ @ # None) \/ homepage = None THEN @ ELSE homepage]

\* A row of the name is found or made, its pages are replaced, its channel is that of its name.
Import(n, count, homepage) ==
  /\ Move
  /\ \E row \in IF Row(n) # {} THEN Row(n) ELSE {r \in Rows \ Live : \A q \in Rows \ Live : r <= q} :
       LET new == [name |-> n, channel |-> ChannelFor[n], pages |-> count]
       IN  /\ versions' = [versions EXCEPT ![row] = new]
           /\ library' = [SyncLibraryMetadata(library, homepage) EXCEPT
                !.default = IF ShouldPromoteDefaultVersion(versions', row) THEN n ELSE @]
  /\ UNCHANGED <<admin, save, reader, ask>>

Richest == CHOOSE r \in Live : \A q \in Live : versions[q].pages <= versions[r].pages

\* Variant: the default is served whether or not it has pages.
BestDefault(requested) ==
  IF Live = {} THEN None
  ELSE IF Row(requested) # {} THEN CHOOSE r \in Row(requested) : TRUE
  ELSE IF Row(library.default) # {} THEN CHOOSE r \in Row(library.default) : TRUE
  ELSE Richest

\* The version asked for, else the default unless it has no pages or another has over three times as
\* many.
BestVersion(requested) ==
  IF Live = {} THEN None
  ELSE IF Row(requested) # {} THEN CHOOSE r \in Row(requested) : TRUE
  ELSE LET good == {r \in Row(library.default) :
                      versions[r].pages > 0 /\ versions[Richest].pages <= 3 * versions[r].pages}
       IN  IF good # {} THEN CHOOSE r \in good : TRUE ELSE Richest

-----------------------------------------------------------------------------
(* The administrator.                                                          *)

Props(view, v, l, dialog) == [view |-> view, rows |-> v, library |-> l, dialog |-> dialog]

\* What the server does: a default must be a version, names are unique in the library, a row that is
\* gone is not found; neither a renaming nor a deletion looks at the library's default.
AfterSave(s) ==
  CASE s.act = "default" ->
         [rows |-> versions, library |-> IF Row(s.arg) # {} THEN [library EXCEPT !.default = s.arg] ELSE library]
    [] s.act = "rename" ->
         [rows |-> IF s.row \in Live /\ Row(s.arg) = {} THEN [versions EXCEPT ![s.row] = [@ EXCEPT !.name = s.arg]] ELSE versions,
          library |-> library]
    [] s.act = "delete" -> [rows |-> [versions EXCEPT ![s.row] = None], library |-> library]
    [] s.act = "edit" -> [rows |-> versions, library |-> s.arg]

Reaches == LET s == AfterSave(save) IN versions' = s.rows /\ library' = s.library

\* A visit interrupts the one under way, which may have reached the server.
GivesUp == UNCHANGED <<versions, library>> \/ (save # None /\ Reaches)

\* onFinish of a renaming closes the dialog of its row.
DialogAfter ==
  IF save # None /\ save.act = "rename" /\ admin.dialog = [act |-> "rename", row |-> save.row] THEN None
  ELSE admin.dialog

\* The edit page's form starts from its props; it is sent as a whole.
Open(view) ==
  /\ Move /\ GivesUp /\ admin' = Props(view, versions', library', None) /\ save' = None
  /\ UNCHANGED <<reader, ask>>

Listed == {r \in Rows : admin.view = "show" /\ admin.rows[r] # None}

\* The menu of a row; a dialog that is open covers it.
OpenRowDialog(r, act) ==
  /\ Move /\ r \in Listed /\ admin.dialog = None
  /\ admin' = [admin EXCEPT !.dialog = [act |-> act, row |-> r]]
  /\ UNCHANGED <<versions, library, save, reader, ask>>

\* Cancel, Escape, or Save with the name unchanged.
CloseRowDialog ==
  /\ admin.dialog # None /\ admin' = [admin EXCEPT !.dialog = None]
  /\ UNCHANGED <<versions, library, save, reader, ask, moves>>

Saves(act, row, arg) ==
  /\ Move /\ GivesUp /\ save' = [act |-> act, row |-> row, arg |-> arg]
  /\ admin' = [admin EXCEPT !.dialog = DialogAfter]
  /\ UNCHANGED <<reader, ask>>

\* In the menu of a row, not on the default's.
HandleSetDefault(r) ==
  /\ r \in Listed /\ admin.dialog = None /\ admin.rows[r].name # admin.library.default
  /\ Saves("default", r, admin.rows[r].name)

\* The row's buttons are disabled while it saves; the Enter key renames all the same.
Saving(r) == save # None /\ save.act \in {"rename", "delete"} /\ save.row = r

HandleRename(n) ==
  /\ admin.dialog # None /\ admin.dialog.act = "rename" /\ n # admin.rows[admin.dialog.row].name
  /\ Saves("rename", admin.dialog.row, n)

HandleDelete ==
  /\ admin.dialog # None /\ admin.dialog.act = "delete" /\ ~Saving(admin.dialog.row)
  /\ Saves("delete", admin.dialog.row, None)

\* The edit form's fields: a name, a homepage or none, some aliases, one of the versions listed.
HandleSubmit(name, homepage, aliases, default) ==
  /\ admin.view = "edit" /\ save = None
  /\ default \in {admin.library.default} \cup {admin.rows[r].name : r \in {q \in Rows : admin.rows[q] # None}}
  /\ Saves("edit", None, [name |-> name, homepage |-> homepage, aliases |-> aliases,
                          default |-> default, locked |-> TRUE])

\* The answer shows the library as it is now; a dialog stays open unless its row is gone.
Saved ==
  /\ save # None /\ Reaches
  /\ admin' = Props("show", versions', library',
       IF DialogAfter # None /\ versions'[DialogAfter.row] = None THEN None ELSE DialogAfter)
  /\ save' = None /\ UNCHANGED <<reader, ask, moves>>

SaveFails ==
  /\ save # None /\ save' = None
  /\ admin' = [admin EXCEPT !.dialog = DialogAfter]
  /\ UNCHANGED <<versions, library, reader, ask, moves>>

\* The page of a version deletes its pages one by one.
DeletePage(r) ==
  /\ Move /\ r \in Live /\ versions[r].pages > 0 /\ versions' = [versions EXCEPT ![r] = [@ EXCEPT !.pages = versions[r].pages - 1]]
  /\ UNCHANGED <<library, admin, save, reader, ask>>

-----------------------------------------------------------------------------
(* The reader.                                                                 *)

\* What the server answers: a search is not counted, it has a further page or not.
Reply(a, more) ==
  LET r == BestVersion(a.version)
      total == IF r = None THEN 0 ELSE versions[r].pages
  IN  [version |-> IF r = None THEN None ELSE versions[r].name, page |-> a.page, search |-> a.search,
       total |-> IF a.search = None THEN total ELSE None,
       next |-> a.page < total /\ (a.search = None \/ more)]

Shown(props, box, turned) == [props |-> props, box |-> box, turned |-> turned]

Fresh == [version |-> None, page |-> 1, search |-> None]

OpenLibrary ==
  /\ Move /\ reader' = Shown(Reply(Fresh, FALSE), None, None) /\ ask' = None
  /\ UNCHANGED <<versions, library, admin, save>>

\* The buttons of the footer, at most seven of them: -1 is an ellipsis.
Seq1(from, to) == [i \in 1..(to - from + 1) |-> from + i - 1]
Dots == -1

\* Variant: the fourth page has the ellipsis before it.
GetPageRangeTight(current, total) ==
  CASE total <= 7 -> Seq1(1, total)
    [] current <= 3 /\ total > 7 -> Seq1(1, 5) \o <<Dots, total>>
    [] current > 3 /\ current >= total - 3 /\ total > 7 -> <<1, Dots>> \o Seq1(total - 4, total)
    [] OTHER -> <<1, Dots, current - 1, current, current + 1, Dots, total>>

GetPageRange(current, total) ==
  CASE total <= 7 -> Seq1(1, total)
    [] current <= 4 /\ total > 7 -> Seq1(1, 5) \o <<Dots, total>>
    [] current > 4 /\ current >= total - 3 /\ total > 7 -> <<1, Dots>> \o Seq1(total - 4, total)
    [] OTHER -> <<1, Dots, current - 1, current, current + 1, Dots, total>>

Shows == reader.props
PageNumbers == IF Shows.total # None /\ Shows.total > 1 THEN Range(GetPageRange(Shows.page, Shows.total)) \ {Dots} ELSE {}

\* What the footer offers: the page before, the one after, the numbers.
PagesOffered ==
  PageNumbers \cup {p \in {Shows.page - 1} : p > 0} \cup {p \in {Shows.page + 1} : Shows.next}

Asks(version, page, search, turned) ==
  /\ Move /\ ask' = [version |-> version, page |-> page, search |-> search, turned |-> turned]
  /\ UNCHANGED <<versions, library, admin, save>>

SwitchVersion(n) == Asks(n, 1, None, None) /\ UNCHANGED reader

\* Variant: the page is asked with the text of the box.
PageParamsDraft(p) == [version |-> Shows.version, page |-> p, search |-> reader.box]

\* The page is asked with the search that is shown, not with the text of the box.
PageParams(p) == [version |-> Shows.version, page |-> p, search |-> Shows.search]

GoToPage(p) ==
  /\ p \in PagesOffered
  /\ LET q == PageParams(p) IN Asks(q.version, q.page, q.search, Shows.search) /\ UNCHANGED reader

HandleSearch == Asks(Shows.version, 1, reader.box, None) /\ UNCHANGED reader

ClearSearch ==
  /\ reader.box # None \/ Shows.search # None
  /\ Asks(Shows.version, 1, None, None) /\ reader' = [reader EXCEPT !.box = None]

TypeSearch(text) ==
  /\ Move /\ reader' = [reader EXCEPT !.box = text]
  /\ UNCHANGED <<versions, library, admin, save, ask>>

\* The page keeps its state: the box keeps its text.
AnswerReader(more) ==
  /\ ask # None
  /\ reader' = Shown(Reply(ask, more), reader.box, IF ask.page > 1 THEN <<ask.turned>> ELSE None)
  /\ ask' = None /\ UNCHANGED <<versions, library, admin, save, moves>>

ReaderFails == ask # None /\ ask' = None /\ UNCHANGED <<versions, library, admin, save, reader, moves>>

-----------------------------------------------------------------------------

\* A library as a crawl made it, or as its manual submission did.
Init ==
  /\ versions \in {[r \in Rows |-> None]} \cup
       {[r \in Rows |-> IF r = 1 THEN [name |-> n, channel |-> ChannelFor[n], pages |-> c] ELSE None] :
          n \in Names, c \in Counts}
  /\ library = [default |-> IF Live = {} THEN None ELSE versions[1].name,
                name |-> "crawled", homepage |-> None, aliases |-> {"crawled"}, locked |-> FALSE]
  /\ admin = Props("show", versions, library, None) /\ save = None
  /\ reader = Shown(Reply(Fresh, FALSE), None, None) /\ ask = None /\ moves = 0

Next ==
  \/ \E n \in Names, c \in Counts, h \in {None, "crawled"} : Import(n, c, h)
  \/ \E view \in {"show", "edit"} : Open(view)
  \/ \E r \in Rows : HandleSetDefault(r) \/ DeletePage(r) \/ \E act \in {"rename", "delete"} : OpenRowDialog(r, act)
  \/ \E n \in Names : HandleRename(n) \/ SwitchVersion(n)
  \/ CloseRowDialog \/ HandleDelete \/ Saved \/ SaveFails
  \/ \E h \in {None, "curated"}, a \in {{}, {"crawled"}}, d \in Names \cup {None} :
       HandleSubmit("curated", h, a, d)
  \/ OpenLibrary \/ HandleSearch \/ ClearSearch \/ ReaderFails
  \/ \E p \in PagesOffered : GoToPage(p)
  \/ \E text \in {None, "q"} : TypeSearch(text)
  \/ \E more \in BOOLEAN : AnswerReader(more)

Spec == Init /\ [][Next]_vars

-----------------------------------------------------------------------------
(* Properties.                                                                 *)

\* Whatever was imported, renamed, deleted or made the default, a reader who asks for no version gets
\* one with pages as long as a version has some (Library#best_version).
ServedHasPages ==
  (\E r \in Live : versions[r].pages > 0) => versions[BestVersion(None)].pages > 0

\* The numbers under the pages lead to the first, the last and the neighbouring pages, and an ellipsis
\* never stands for a single page (getPageRange).
NumbersReachAll ==
  Shows.total # None /\ Shows.page <= Shows.total =>
    LET numbers == GetPageRange(Shows.page, Shows.total)
    IN  /\ {1, Shows.total} \cup {p \in Shows.page - 1 .. Shows.page + 1 : p \in 1..Shows.total} \subseteq Range(numbers)
        /\ \A i \in 2..(Len(numbers) - 1) : numbers[i] = Dots => numbers[i + 1] - numbers[i - 1] > 2

\* Turning the pages stays in the search they are of, whatever stands in the box by then.
PagesOfSearch == reader.turned # None => <<Shows.search>> = reader.turned

\* After an import the library's default is one of its versions, also when it was renamed or deleted
\* before (should_promote_default_version?).
DefaultHealed ==
  (\E n \in Names, c \in Counts, h \in {None, "crawled"} : Import(n, c, h)) => Row(library.default)' # {}

\* The inductive invariant: the types, of which what is shown to the reader is a page that exists or
\* one that was offered, and the search of a page that is turned.
Searches == {None, "q"}
Replies == [version : Names \cup {None}, page : Nat \ {0}, search : Searches, total : Nat \cup {None}, next : BOOLEAN]
Questions == [version : Names \cup {None}, page : Nat \ {0}, search : Searches, turned : Searches]
Dialogs == [act : {"rename", "delete"}, row : Rows]

TypeOK ==
  /\ versions \in [Rows -> Versions \cup {None}] /\ library \in Libraries
  /\ admin \in [view : {"show", "edit"}, rows : [Rows -> Versions \cup {None}], library : Libraries,
                dialog : Dialogs \cup {None}]
  /\ reader \in [props : Replies, box : Searches, turned : {None} \cup {<<text>> : text \in Searches}]
  /\ ask # None => ask \in Questions

SaveOK ==
  save # None =>
    /\ save.act \in {"default", "rename", "delete", "edit"}
    /\ save.act \in {"default", "rename"} => save.arg \in Names
    /\ save.act = "edit" => save.arg \in Libraries

Inductive ==
  /\ TypeOK /\ SaveOK /\ PagesOfSearch
  /\ ask # None /\ ask.page > 1 => ask.turned = ask.search
=============================================================================
