------------------------------- MODULE AppSettings -------------------------------
(* What the app remembers of its user: read once from localStorage, brought to *)
(* today's shape, and written back after every change the dashboard, the       *)
(* welcome tour, the hosting guide and the Settings page make. The Settings    *)
(* page also installs updates of the app.                                      *)
EXTENDS Naturals, FiniteSets, SequencesExt

CONSTANTS
    DASHBOARD_CARD_IDS,     \* the dashboard's cards, in their first order
    OldCards,               \* card orders an older or a newer version stored
    MaxPrefEdits, MaxReleases    \* bounds

VARIABLES
    user, stored, isReady,  \* the preferences, their copy in localStorage, and whether it was read
    tour,                   \* the welcome tour's slide and the level picked in it
    page,                   \* the page shown
    rootField,              \* the Settings page's field and the default it was told
    picked, kept,           \* the level last clicked; the levels clicked so far or read
    updater, mounts,        \* the Settings page's updater, and how often it was mounted
    released, calls,        \* updates of the app, and the plugin's calls on their way
    prefEdits

prefVars == <<user, stored, isReady, tour, page, rootField, picked, kept, updater, mounts,
              released, calls, prefEdits>>

Cards == ToSet(DASHBOARD_CARD_IDS)
SLIDES == <<"welcome", "level", "theme", "help", "goal">>
EXPERIENCE_LEVELS == <<"beginner", "standard", "advanced">>
Levels == ToSet(EXPERIENCE_LEVELS)
DefaultRoot == "home/servers"
LastPort == 65535
GamePort == 25565

\* A text that is empty is "blank".
createDefaultUserData ==
    [level |-> "standard", java |-> "blank", root |-> "blank", cards |-> DASHBOARD_CARD_IDS,
     hidden |-> {}, toured |-> FALSE, stats |-> "follow", ports |-> {}]

\* The k-th of a set of numbers; the elements of s at the indices in I, in their order.
nth(S, k) == CHOOSE n \in S : Cardinality({m \in S : m <= n}) = k
pick(s, I) == [k \in 1..Cardinality(I) |-> s[nth(I, k)]]

Without(s, ids) == pick(s, {i \in DOMAIN s : s[i] \notin ids})

\* Known cards in their stored order, once each, then the ones that were not stored.
normalizeDashboardCardOrder(order) ==
    LET once == pick(order, {i \in DOMAIN order :
                                order[i] \in Cards /\ \A j \in 1..(i - 1) : order[j] # order[i]})
    IN  once \o Without(DASHBOARD_CARD_IDS, ToSet(once))

normalizeUserData(u) ==
    [level  |-> IF u.level \in Levels THEN u.level ELSE "standard",
     java   |-> IF u.java \in {"absent", "java"} THEN "blank" ELSE u.java,
     root   |-> u.root,
     cards  |-> normalizeDashboardCardOrder(u.cards),
     hidden |-> u.hidden \cap Cards,
     toured |-> u.toured,
     stats  |-> u.stats,
     ports  |-> u.ports \cap 1..LastPort]

\* isServerPageSectionShownByDefault, resolveServerPageDisplay.
showLiveStats(u) == IF u.stats = "follow" THEN u.level # "beginner" ELSE u.stats = "shown"

NewUpdater == [status |-> "idle", available |-> 0, error |-> FALSE]
NewTour    == [slide |-> 1, choice |-> "none"]

\* What is stored is nothing yet, or what another version left.
PrefInit ==
    /\ user = createDefaultUserData /\ isReady = FALSE
    /\ \/ stored = createDefaultUserData
       \/ \E l \in {"absent", "expert", "advanced"}, j \in {"absent", "java"}, c \in OldCards,
             h \in {{}, {"gone", DASHBOARD_CARD_IDS[1]}} :
             stored = [createDefaultUserData EXCEPT !.level = l, !.java = j, !.cards = c,
                                                    !.hidden = h, !.toured = TRUE]
    /\ tour = NewTour /\ page = "dashboard" /\ rootField = [text |-> "blank", default |-> "blank", asked |-> FALSE]
    /\ picked = "none" /\ kept = {} /\ prefEdits = 0
    /\ updater = NewUpdater /\ mounts = 0 /\ released = 1 /\ calls = {}

SettingsPage == <<rootField, updater, mounts, released, calls>>

--------------------------------------------------------------------------------
\* loadUserData, and the save that follows it.
Load ==
    /\ ~isReady
    /\ isReady' = TRUE /\ user' = normalizeUserData(stored) /\ stored' = user'
    /\ kept' = {user'.level} /\ picked' = "none"
    /\ UNCHANGED <<tour, page, SettingsPage, prefEdits>>

\* mserve is closed and opened again.
Restart ==
    /\ isReady /\ prefEdits < MaxPrefEdits /\ prefEdits' = prefEdits + 1
    /\ isReady' = FALSE /\ user' = createDefaultUserData /\ tour' = NewTour
    /\ page' = "dashboard" /\ rootField' = [text |-> "blank", default |-> "blank", asked |-> FALSE]
    /\ updater' = NewUpdater /\ calls' = {}
    /\ UNCHANGED <<stored, picked, kept, mounts, released>>

\* updateUser and updateUserField; the effect on user writes it through.
updateUser(next) ==
    /\ isReady /\ prefEdits < MaxPrefEdits /\ prefEdits' = prefEdits + 1
    /\ user' = normalizeUserData(next) /\ stored' = user'

Picks(level) == picked' = level /\ kept' = kept \cup {level}

--------------------------------------------------------------------------------
\* The tour covers the window until it is finished.
Covered == isReady /\ ~user.toured
Clear(p) == isReady /\ user.toured /\ page = p

goTo(next) ==
    /\ Covered /\ next \in 1 .. Len(SLIDES)
    /\ \/ next = tour.slide - 1
       \/ next = tour.slide + 1 /\ tour.slide < Len(SLIDES)
    /\ tour' = [tour EXCEPT !.slide = next]
    /\ UNCHANGED <<user, stored, isReady, page, SettingsPage, picked, kept, prefEdits>>

setLevelChoice(level) ==
    /\ Covered /\ SLIDES[tour.slide] = "level"
    /\ tour' = [tour EXCEPT !.choice = level] /\ Picks(level)
    /\ UNCHANGED <<user, stored, isReady, page, SettingsPage, prefEdits>>

\* What finishing stores: a level only when one was picked.
finished == [user EXCEPT !.toured = TRUE, !.level = IF tour.choice = "none" THEN @ ELSE tour.choice]

\* "Skip tour" on the first slide, a goal on the last; the component stays mounted.
finish ==
    /\ Covered /\ SLIDES[tour.slide] \in {"welcome", "goal"}
    /\ updateUser(finished)
    /\ page' \in IF SLIDES[tour.slide] = "goal" THEN {"dashboard", "other"} ELSE {page}
    /\ IF page' = page THEN UNCHANGED <<rootField, updater, mounts>>
       ELSE mounts' = mounts + (IF page = "settings" THEN 1 ELSE 0) /\ updater' = NewUpdater
            /\ UNCHANGED rootField
    /\ UNCHANGED <<isReady, tour, picked, kept, released, calls>>

--------------------------------------------------------------------------------
\* The dashboard.
visibleIds(u) == Without(u.cards, u.hidden)

IndexIn(order, id) == CHOOSE i \in DOMAIN order : order[i] = id

\* @dnd-kit's arrayMove.
arrayMove(order, from, to) == InsertAt(RemoveAt(order, from), to, order[from])

\* variant: the indices of a drop are those of the cards shown
droppedAmongShown(active, over) ==
    arrayMove(user.cards, IndexIn(visibleIds(user), active), IndexIn(visibleIds(user), over))

\* The indices of a drop are those of the full order, hidden cards included.
dropped(active, over) ==
    arrayMove(user.cards, IndexIn(user.cards, active), IndexIn(user.cards, over))

handleDragEnd(active, over) ==
    /\ Clear("dashboard") /\ active # over
    /\ {active, over} \subseteq ToSet(visibleIds(user))
    /\ updateUser([user EXCEPT !.cards = dropped(active, over)])
    /\ UNCHANGED <<isReady, tour, page, SettingsPage, picked, kept>>

hide(id) ==
    /\ Clear("dashboard") /\ id \in ToSet(visibleIds(user))
    /\ updateUser([user EXCEPT !.hidden = @ \cup {id}])
    /\ UNCHANGED <<isReady, tour, page, SettingsPage, picked, kept>>

unhide(id) ==
    /\ Clear("dashboard") /\ id \in user.hidden
    /\ updateUser([user EXCEPT !.hidden = @ \ {id}])
    /\ UNCHANGED <<isReady, tour, page, SettingsPage, picked, kept>>

\* The guide's friend test records the port that worked.
handleWorked(port) ==
    /\ Clear("other")
    /\ updateUser([user EXCEPT !.ports = @ \cup {port}])
    /\ UNCHANGED <<isReady, tour, page, SettingsPage, picked, kept>>

\* The Settings page starts anew each time it is opened; what it left behind runs on.
navigate(to) ==
    /\ Clear(page) /\ to # page /\ page' = to
    /\ IF to = "settings"
       THEN rootField' = [text |-> user.root, default |-> "blank", asked |-> TRUE]
       ELSE UNCHANGED rootField
    /\ updater' = NewUpdater /\ mounts' = mounts + (IF page = "settings" THEN 1 ELSE 0)
    /\ mounts < MaxReleases
    /\ UNCHANGED <<user, stored, isReady, tour, picked, kept, released, calls, prefEdits>>

--------------------------------------------------------------------------------
\* The Settings page.
setLevel(level) ==
    /\ Clear("settings") /\ updateUser([user EXCEPT !.level = level]) /\ Picks(level)
    /\ UNCHANGED <<isReady, tour, page, SettingsPage>>

commitJavaDefault(java) ==
    /\ Clear("settings") /\ java # user.java
    /\ updateUser([user EXCEPT !.java = java])
    /\ UNCHANGED <<isReady, tour, page, SettingsPage, picked, kept>>

\* The checkbox shows what the overview shows; a click makes the opposite explicit.
handlePrefChange ==
    /\ Clear("settings")
    /\ updateUser([user EXCEPT !.stats = IF showLiveStats(user) THEN "hidden" ELSE "shown"])
    /\ UNCHANGED <<isReady, tour, page, SettingsPage, picked, kept>>

followLevel ==
    /\ Clear("settings") /\ user.stats # "follow"
    /\ updateUser([user EXCEPT !.stats = "follow"])
    /\ UNCHANGED <<isReady, tour, page, SettingsPage, picked, kept>>

replayTour ==
    /\ Clear("settings") /\ updateUser([user EXCEPT !.toured = FALSE])
    /\ UNCHANGED <<isReady, tour, page, SettingsPage, picked, kept>>

\* The default root arrives, or its request fails; the field follows the
\* saved root, or the default where there is none.
DefaultRootArrives ==
    /\ page = "settings" /\ isReady /\ rootField.asked
    /\ \E default \in {"blank", DefaultRoot} :
          rootField' = [text |-> IF default = rootField.default THEN rootField.text
                                 ELSE IF user.root = "blank" THEN default ELSE user.root,
                        default |-> default, asked |-> FALSE]
    /\ UNCHANGED <<user, stored, isReady, tour, page, picked, kept, updater, mounts, released,
                   calls, prefEdits>>

\* Typing and leaving the field; a blank one takes the saved root back.
commitServersRootPath(typed) ==
    /\ Clear("settings")
    /\ rootField' = [rootField EXCEPT !.text = IF typed = "blank" THEN user.root ELSE typed]
    /\ IF typed \notin {"blank", user.root}
       THEN updateUser([user EXCEPT !.root = typed])
       ELSE UNCHANGED <<user, stored, prefEdits>>
    /\ UNCHANGED <<isReady, tour, page, picked, kept, updater, mounts, released, calls>>

handleResetServersRootPath ==
    /\ Clear("settings") /\ rootField.default \notin {"blank", rootField.text}
    /\ rootField' = [rootField EXCEPT !.text = rootField.default]
    /\ updateUser([user EXCEPT !.root = rootField.default])
    /\ UNCHANGED <<isReady, tour, page, picked, kept, updater, mounts, released, calls>>

\* Clear All Data, with no server running: the storage is emptied, then the
\* defaults are written.
handleClearAllData ==
    /\ Clear("settings") /\ updateUser(createDefaultUserData)
    /\ rootField' = [rootField EXCEPT !.text = IF user.root # "blank" THEN rootField.default ELSE @]
    /\ kept' = kept \cup {"standard"} /\ picked' = "none"
    /\ UNCHANGED <<isReady, tour, page, updater, mounts, released, calls>>

--------------------------------------------------------------------------------
\* Updates of the app.
Idle == Clear("settings") /\ updater.status = "idle"

Release ==
    /\ released < MaxReleases /\ released' = released + 1
    /\ UNCHANGED <<user, stored, isReady, tour, page, rootField, picked, kept, updater, mounts,
                   calls, prefEdits>>

checkForUpdates ==
    /\ Idle
    /\ updater' = [updater EXCEPT !.status = "checking", !.error = FALSE]
    /\ calls' = calls \cup {[kind |-> "check", by |-> mounts, version |-> 0]}
    /\ UNCHANGED <<user, stored, isReady, tour, page, rootField, picked, kept, mounts, released,
                   prefEdits>>

installUpdate ==
    /\ Idle /\ updater.available # 0
    /\ updater' = [updater EXCEPT !.status = "installing", !.error = FALSE]
    /\ calls' = calls \cup {[kind |-> "install", by |-> mounts, version |-> updater.available]}
    /\ UNCHANGED <<user, stored, isReady, tour, page, rootField, picked, kept, mounts, released,
                   prefEdits>>

\* A page that is gone hears nothing of its call.
Answered(c) ==
    /\ isReady /\ calls' = calls \ {c}
    /\ IF c.by # mounts \/ page # "settings" THEN UNCHANGED updater
       ELSE \/ updater' = [status |-> "idle", error |-> FALSE,
                           available |-> IF c.kind = "check" /\ released > 1 THEN released ELSE 0]
            \/ updater' = [updater EXCEPT !.status = "idle", !.error = TRUE]
    /\ UNCHANGED <<user, stored, isReady, tour, page, rootField, picked, kept, mounts, released,
                   prefEdits>>

PrefNext ==
    \/ Load \/ Restart
    \/ \E next \in DOMAIN SLIDES : goTo(next)
    \/ \E l \in Levels : setLevelChoice(l) \/ setLevel(l)
    \/ finish
    \/ \E a, o \in Cards : handleDragEnd(a, o)
    \/ \E id \in Cards : hide(id) \/ unhide(id)
    \/ \E p \in {0, GamePort} : handleWorked(p)
    \/ \E to \in {"dashboard", "settings", "other"} : navigate(to)
    \/ \E j \in {"blank", "java", "jdk"} : commitJavaDefault(j)
    \/ handlePrefChange \/ followLevel \/ replayTour
    \/ DefaultRootArrives \/ handleResetServersRootPath \/ handleClearAllData
    \/ \E typed \in {"blank", "d:/mc"} : commitServersRootPath(typed)
    \/ Release \/ checkForUpdates \/ installUpdate
    \/ \E c \in calls : Answered(c)

PrefSpec == PrefInit /\ [][PrefNext]_prefVars

--------------------------------------------------------------------------------
\* What is read at the next start is what the user has now, and every card is
\* on the dashboard or in the tray, whatever version wrote the storage (user.tsx).
PrefsSurvive ==
    isReady => /\ normalizeUserData(stored) = user
               /\ Len(user.cards) = Len(DASHBOARD_CARD_IDS) /\ ToSet(user.cards) = Cards

\* A user's level is one that was read or clicked, never one the tour only showed
\* (onboarding-overlay.tsx: "their saved setting must not be replaced by the tour's default").
LevelWasChosen == isReady => user.level \in kept

\* A drop puts the card where the dashboard showed it, however many hidden cards lie
\* between, and the hidden cards keep their order (dashboard-bento.tsx).
DropLandsWhereShown ==
    [][\A a, o \in Cards : handleDragEnd(a, o) =>
          LET shown == visibleIds(user) IN
          /\ visibleIds(user') = arrayMove(shown, IndexIn(shown, a), IndexIn(shown, o))
          /\ Without(user'.cards, Cards \ user.hidden) = Without(user.cards, Cards \ user.hidden)]_prefVars

\* Does not hold: a tour that is replayed resumes at its last slide with the level of
\* its first run, and puts that level over the one chosen since.
LevelIsTheLastClicked == isReady /\ picked # "none" /\ user.toured => user.level = picked

\* Does not hold: leaving the Settings page forgets an installation under way.
InstallsOnce == Cardinality({c \in calls : c.kind = "install"}) <= 1

\* Does not hold: a blank field with no saved root stays blank, although new servers go
\* to the default root (settings-data-section.tsx, "Empty input reverts to the last saved value").
RootFieldShowsRoot ==
    page = "settings" /\ isReady /\ rootField.default # "blank"
        => rootField.text = IF user.root = "blank" THEN rootField.default ELSE user.root
================================================================================
