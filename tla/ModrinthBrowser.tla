------------------------------- MODULE ModrinthBrowser -------------------------------
(* Finding and installing content from Modrinth: a search that follows its      *)
(* filters page by page, a project's versions that follow them too, and the     *)
(* install of one.                                                              *)
EXTENDS Integers, Sequences, FiniteSets, SequencesExt

CONSTANTS
    Versions,     \* what is published: [project, loader, game, channel]
    LoaderPinned, GamePinned,   \* the pins this server's provider gives
    Matches,      \* search term -> the projects it finds, in order
    Games,        \* game versions to choose from; "pinned" is the server's
    PageSize, MaxEdits, MaxRequests, MaxInstalls    \* MODRINTH_PAGE_SIZE and bounds

VARIABLES
    typed,              \* what is in the box, and whether the pause is being waited for
    search,             \* what is searched: term, scope, game, offset
    result, searches,   \* the last answer; searches not answered, only one is live
    loading, error,
    hit, versions, details,   \* the project that is open, its versions, the loads of them
    unstable, busy,     \* "Show beta & alpha"; the version being installed
    installing,         \* installs not answered yet, and the scope they were clicked under
    installed, edits

modrinthVars == <<typed, search, result, searches, loading, error, hit, versions, details,
                  unstable, busy, installing, installed, edits>>

NoResult == [of |-> [term |-> "none"], hits |-> <<>>, total |-> 0]
NoHit    == "none"

\* Without a pin of its own a scope filters by the game version that was chosen.
usesLoader(s) == LoaderPinned /\ s.scope \in {"server", "loader"}
usesGame(s)   == GamePinned /\ s.scope \in {"server", "version"}
gameOf(s)     == IF usesGame(s) THEN "pinned" ELSE s.game

Fits(v, s) == /\ usesLoader(s) => v.loader = "pinned"
              /\ gameOf(s) # "any" => v.game = gameOf(s)

\* Modrinth matches a project if some version has the loader and some the game.
Found(s) ==
    SelectSeq(Matches[s.term], LAMBDA p :
        LET of == {v \in Versions : v.project = p}
        IN  /\ usesLoader(s) => \E v \in of : v.loader = "pinned"
            /\ gameOf(s) # "any" => \E v \in of : v.game = gameOf(s))

Least(a, b) == IF a < b THEN a ELSE b

Answer(s) == [of |-> s, hits |-> SubSeq(Found(s), s.offset + 1, Least(s.offset + PageSize, Len(Found(s)))),
              total |-> Len(Found(s))]

Start == [term |-> "", scope |-> "server", game |-> "any", offset |-> 0]

ModrinthInit ==
    /\ typed = [text |-> "", pending |-> TRUE] /\ search = Start /\ result = NoResult
    /\ searches = {[of |-> Start, live |-> TRUE]} /\ loading = TRUE /\ error = FALSE
    /\ hit = NoHit /\ versions = {} /\ details = {} /\ unstable = FALSE /\ busy = {}
    /\ installing = {} /\ installed = {} /\ edits = 0

--------------------------------------------------------------------------------
Superseded(loads) == {[l EXCEPT !.live = FALSE] : l \in {x \in loads : x.live}}
                         \union {x \in loads : ~x.live}

\* What the open project shows depends on the filters, not on the page.
detailsOf(p, s) ==
    /\ versions' = {}
    /\ details' = Superseded(details) \union {[project |-> p, of |-> s, live |-> TRUE]}

\* A new search supersedes the one before it; an open project loads its versions again.
searchFor(s) ==
    IF s = search THEN UNCHANGED <<search, searches, loading, error, versions, details>>
    ELSE /\ Cardinality(searches) < MaxRequests
         /\ search' = s /\ loading' = TRUE /\ error' = FALSE
         /\ searches' = Superseded(searches) \union {[of |-> s, live |-> TRUE]}
         /\ IF hit # NoHit /\ <<usesLoader(s), gameOf(s)>> # <<usesLoader(search), gameOf(search)>>
            THEN detailsOf(hit, s)
            ELSE UNCHANGED <<versions, details>>

Edit == edits < MaxEdits /\ edits' = edits + 1

Type ==
    /\ Edit /\ \E term \in DOMAIN Matches \ {typed.text} : typed' = [text |-> term, pending |-> TRUE]
    /\ UNCHANGED <<search, result, searches, loading, error, hit, versions, details, unstable,
                   busy, installing, installed>>

\* The term is searched once the typing pauses, from its first page.
Debounce ==
    /\ typed.pending /\ typed' = [typed EXCEPT !.pending = FALSE]
    /\ searchFor([search EXCEPT !.term = typed.text, !.offset = 0])
    /\ UNCHANGED <<result, hit, unstable, busy, installing, installed, edits>>

\* Every filter, and the sort, goes back to the first page.
setFilter ==
    /\ Edit
    /\ \/ \E scope \in {"server", "loader", "version", "none"} :
             searchFor([search EXCEPT !.scope = scope, !.offset = 0])
       \/ ~usesGame(search) /\ \E game \in Games \union {"any"} :
             searchFor([search EXCEPT !.game = game, !.offset = 0])
    /\ UNCHANGED <<typed, result, hit, unstable, busy, installing, installed>>

handleClearSearch ==
    /\ hit = NoHit /\ ~loading /\ ~error /\ result.hits = <<>>
    /\ typed' = [text |-> "", pending |-> typed.pending \/ typed.text # ""]
    /\ searchFor([search EXCEPT !.game = "any", !.offset = 0])
    /\ UNCHANGED <<result, hit, unstable, busy, installing, installed, edits>>

Page ==
    /\ hit = NoHit /\ ~loading /\ Edit
    /\ \/ search.offset > 0 /\ searchFor([search EXCEPT !.offset = @ - PageSize])
       \/ /\ search.offset + PageSize < result.total
          /\ searchFor([search EXCEPT !.offset = @ + PageSize])
    /\ UNCHANGED <<typed, result, hit, unstable, busy, installing, installed>>

\* A failed search keeps the answer before it on the page, under the error.
SearchReturns ==
    /\ \E l \in searches :
          /\ searches' = searches \ {l}
          /\ IF ~l.live THEN UNCHANGED <<result, loading, error>>
             ELSE /\ loading' = FALSE
                  /\ \/ result' = Answer(l.of) /\ UNCHANGED error
                     \/ error' = TRUE /\ UNCHANGED result
    /\ UNCHANGED <<typed, search, hit, versions, details, unstable, busy, installing, installed, edits>>

--------------------------------------------------------------------------------
OpenProject ==
    /\ hit = NoHit /\ ~loading /\ Cardinality(details) < MaxRequests
    /\ \E p \in ToSet(result.hits) : hit' = p /\ detailsOf(p, search)
    /\ unstable' = FALSE /\ busy' = {}
    /\ UNCHANGED <<typed, search, result, searches, loading, error, installing, installed, edits>>

Back ==
    /\ hit # NoHit /\ hit' = NoHit /\ versions' = {} /\ details' = Superseded(details)
    /\ UNCHANGED <<typed, search, result, searches, loading, error, unstable, busy, installing,
                   installed, edits>>

DetailsReturn ==
    /\ \E l \in details :
          /\ details' = details \ {l}
          /\ versions' = IF l.live THEN {v \in Versions : v.project = l.project /\ Fits(v, l.of)}
                         ELSE versions
    /\ UNCHANGED <<typed, search, result, searches, loading, error, hit, unstable, busy, installing,
                   installed, edits>>

\* Betas and alphas are hidden, unless there is nothing else.
visibleVersions ==
    LET releases == {v \in versions : v.channel = "release"}
    IN  IF unstable \/ releases = {} THEN versions ELSE releases

ShowUnstable ==
    /\ hit # NoHit /\ Edit /\ unstable' = ~unstable
    /\ UNCHANGED <<typed, search, result, searches, loading, error, hit, versions, details, busy,
                   installing, installed>>

\* One at a time in an open project; another project knows nothing of it.
handleInstall ==
    /\ hit # NoHit /\ busy = {} /\ Cardinality(installing) + Cardinality(installed) < MaxInstalls
    /\ \E v \in visibleVersions \ installed :
          /\ \A i \in installing : i.version # v
          /\ busy' = {v}
          /\ installing' = installing
                \union {[version |-> v, scope |-> search, unstable |-> unstable, for |-> hit]}
    /\ UNCHANGED <<typed, search, result, searches, loading, error, hit, versions, details, unstable,
                   installed, edits>>

InstallReturns ==
    /\ \E i \in installing, ok \in BOOLEAN :
          /\ installing' = installing \ {i} /\ busy' = busy \ {i.version}
          /\ installed' = IF ok THEN installed \union {i.version} ELSE installed
    /\ UNCHANGED <<typed, search, result, searches, loading, error, hit, versions, details, unstable,
                   edits>>

ModrinthNext ==
    \/ Type \/ Debounce \/ setFilter \/ handleClearSearch \/ Page \/ SearchReturns
    \/ OpenProject \/ Back \/ DetailsReturn \/ ShowUnstable \/ handleInstall \/ InstallReturns

ModrinthSpec == ModrinthInit /\ [][ModrinthNext]_modrinthVars

--------------------------------------------------------------------------------
\* A version is installed only if it is of the project that was open and has the
\* loader and the game version the filters asked for at the click; a beta only if
\* they were shown or the project had no release for them
\* (modrinth-project-detail.tsx:105-157, modrinth-browser.tsx:134-171).
InstallsWhatFits ==
    \A i \in installing :
        /\ i.version.project = i.for /\ Fits(i.version, i.scope)
        /\ \/ i.unstable \/ i.version.channel = "release"
           \/ ~\E v \in Versions : v.project = i.for /\ Fits(v, i.scope) /\ v.channel = "release"

\* A page without an error is the page of the search its filters name
\* (modrinth-browser.tsx:134-171).
PageIsOfSearch == ~loading /\ ~error => result = Answer(search)

\* The page that is shown exists: the pager stops at the last.
PageExists == ~loading /\ ~error => search.offset = 0 \/ search.offset < result.total

\* With an error on the page, the rows below it are still of the search above.
RowsBesideError == ~loading /\ result # NoResult => result.of = search
================================================================================
