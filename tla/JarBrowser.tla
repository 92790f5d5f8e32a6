--------------------------------- MODULE JarBrowser ---------------------------------
(* The jar picker: provider tabs over a filtered list of versions that is       *)
(* fetched per tab, in the dialog that downloads the row that was picked.       *)
EXTENDS Integers, Sequences, FiniteSets, SequencesExt

CONSTANTS
    JarRows,     \* what can be listed: [tab, provider, stability, compatible]
    JavaKnown,   \* some Java is installed, and which has been looked up
    MaxClicks    \* bound

VARIABLES
    browser,     \* open or downloading or closed; the tab, and whether all was asked for
    rows,        \* what was fetched last
    fetches,     \* fetches without an answer; only the last is live
    filters,     \* the pane's filters
    selected,    \* the row the dialog would download, a set of at most one
    picked,      \* what was downloaded: the row, and the tab named with it
    clicks

browserVars == <<browser, rows, fetches, filters, selected, picked, clicks>>

Tabs == {r.tab : r \in JarRows}
Default == [providers |-> {}, scope |-> "stable", compatibleOnly |-> TRUE]
Stable(r) == r.stability = "stable"

BrowserInit ==
    /\ browser = [is |-> "closed", tab |-> "plugin", all |-> FALSE, loading |-> FALSE]
    /\ rows = {} /\ fetches = {} /\ filters = Default /\ selected = {} /\ picked = {} /\ clicks = 0

--------------------------------------------------------------------------------
filterJarRows(of, f) ==
    {r \in of : /\ f.providers = {} \/ r.provider \in f.providers
                /\ f.scope = "all" \/ Stable(r) = (f.scope = "stable")
                /\ ~JavaKnown \/ ~f.compatibleOnly \/ r.compatible}

\* Nothing is shown while the rows are fetched.
visibleRows == IF browser.loading THEN {} ELSE filterJarRows(rows, filters)

\* The effect of a tab or of asking for all: the last fetch is not waited for.
fetch(tab, all) ==
    fetches' = {[f EXCEPT !.live = FALSE] : f \in fetches}
                   \union {[tab |-> tab, all |-> all, live |-> TRUE]}

\* A selected row that is not listed any more is let go.
keepVisible == selected' = selected \intersect filterJarRows(rows', filters')

Click == clicks < MaxClicks /\ clicks' = clicks + 1

\* A mounted browser starts at the first tab with every filter at its default.
mount ==
    /\ browser' = [is |-> "open", tab |-> "plugin", all |-> FALSE, loading |-> TRUE]
    /\ fetch("plugin", FALSE) /\ rows' = {} /\ filters' = Default /\ selected' = {}

unmount == fetches' = {[f EXCEPT !.live = FALSE] : f \in fetches}

Open == browser.is = "closed" /\ Click /\ mount /\ UNCHANGED picked

Close ==
    /\ browser.is = "open" /\ browser' = [browser EXCEPT !.is = "closed"] /\ unmount
    /\ UNCHANGED <<rows, filters, selected, picked, clicks>>

\* A tab has providers of its own, so the pane's filters start over.
selectTab ==
    /\ browser.is = "open" /\ Click
    /\ \E tab \in Tabs \ {browser.tab} :
          /\ browser' = [browser EXCEPT !.tab = tab, !.all = FALSE, !.loading = TRUE]
          /\ fetch(tab, FALSE)
    /\ filters' = Default /\ selected' = {}
    /\ UNCHANGED <<rows, picked>>

\* Unstable versions are asked for once; a row that is no longer shown is let go.
handleStabilityChange ==
    /\ browser.is = "open" /\ Click
    /\ \E scope \in {"stable", "all", "unstable"} \ {filters.scope} :
          /\ filters' = [filters EXCEPT !.scope = scope]
          /\ IF scope # "stable" /\ ~browser.all
             THEN /\ browser' = [browser EXCEPT !.all = TRUE, !.loading = TRUE]
                  /\ fetch(browser.tab, TRUE) /\ selected' = {}
             ELSE rows' = rows /\ keepVisible /\ UNCHANGED <<browser, fetches>>
    /\ UNCHANGED <<rows, picked>>

handleFilterChange ==
    /\ browser.is = "open" /\ Click
    /\ \/ \E p \in SUBSET {r.provider : r \in {x \in JarRows : x.tab = browser.tab}} :
             filters' = [filters EXCEPT !.providers = p]
       \/ JavaKnown /\ filters' = [filters EXCEPT !.compatibleOnly = ~@]
    /\ UNCHANGED <<browser, rows, fetches, picked>>
    /\ keepVisible

onSelectRow ==
    /\ browser.is = "open" /\ \E r \in visibleRows : selected' = {r}
    /\ UNCHANGED <<browser, rows, fetches, filters, picked, clicks>>

\* A live answer, or failure, is what the table shows from now on.
FetchReturns ==
    /\ UNCHANGED <<filters, picked, clicks>>
    /\ \E f \in fetches :
          /\ fetches' = fetches \ {f}
          /\ IF f.live
             THEN /\ rows' \in {{}, {r \in JarRows : r.tab = f.tab /\ (f.all \/ Stable(r))}}
                  /\ browser' = [browser EXCEPT !.loading = FALSE]
                  /\ keepVisible
             ELSE UNCHANGED <<rows, browser, selected>>

\* The browser is gone while the row is downloaded, and the dialog cannot be closed.
onConfirm ==
    /\ browser.is = "open" /\ selected # {} /\ ~browser.loading
    /\ browser' = [browser EXCEPT !.is = "downloading"] /\ unmount
    /\ UNCHANGED <<rows, filters, selected, picked, clicks>>

DownloadReturns ==
    /\ browser.is = "downloading"
    /\ \/ /\ picked' = {[row |-> r, tab |-> browser.tab] : r \in selected}
          /\ browser' = [browser EXCEPT !.is = "closed"]
          /\ UNCHANGED <<rows, fetches, filters, selected>>
       \/ mount /\ UNCHANGED picked
    /\ UNCHANGED clicks

BrowserNext ==
    \/ Open \/ Close \/ selectTab \/ handleStabilityChange \/ handleFilterChange \/ onSelectRow
    \/ FetchReturns \/ onConfirm \/ DownloadReturns

BrowserSpec == BrowserInit /\ [][BrowserNext]_browserVars

--------------------------------------------------------------------------------
\* What can be confirmed is in the table as it is shown, which lists the open tab's
\* rows only; an unstable build is in it only if it was asked for, and what was
\* downloaded is named by its own tab (jar-browser.tsx:78-104,
\* jar-version-selector-pane.tsx:143-149).
PickIsShown ==
    /\ browser.is = "open" =>
          /\ \A r \in visibleRows : r.tab = browser.tab /\ (Stable(r) \/ filters.scope # "stable")
          /\ selected \subseteq visibleRows
          /\ ~browser.loading <=> ~\E f \in fetches : f.live
    /\ \A p \in picked : p.row.tab = p.tab
================================================================================
