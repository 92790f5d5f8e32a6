------------------------------ MODULE ServerSettings ------------------------------
(* The settings page of one server: a draft over the saved settings, one save, *)
(* the Updates row that installs a newer jar beside it, and the manual sync.   *)
(* All three read the server at a click and write what they read when a slow   *)
(* command lands. A pending jar is exchanged with the server's own.            *)
EXTENDS Naturals, Sequences

CONSTANTS
    Rams,          \* values of what the form edits by typing
    Versions,      \* builds the provider has published, 1 being the first installed
    MaxTouches     \* things the user does on the page (bound)

VARIABLES
    conf,        \* mserve.json: [ram, ver]
    place,       \* where the server's directory is
    jar,         \* the build in the directory's jar file
    picks,       \* what each downloaded jar file holds by now
    shown,       \* the server list's entry: [ram, ver, place] and a telemetry sample
    online,
    form,        \* the draft: [ram, ver, place, swap]; swap is a pick, 0 for none
    saving,      \* the save in flight: a sequence of at most one payload
    updating,    \* the update in flight: at most one [ram, from, ver]
    syncing,     \* the sync in flight: what it read
    touches,     \* what the user did so far
    halfSaved,   \* history: a save failed after it had exchanged the jars
    crossed      \* history: two of save, update and sync overlapped

settingsVars == <<conf, place, jar, picks, shown, online, form, saving, updating,
                  syncing, touches, halfSaved, crossed>>

Places == {"home", "elsewhere"}
Quiet  == saving = <<>> /\ updating = <<>> /\ syncing = <<>>

buildSettingsFormFromServer(s) == [ram |-> s.ram, ver |-> s.ver, place |-> s.place, swap |-> 0]

SettingsInit ==
    /\ conf = [ram |-> CHOOSE r \in Rams : TRUE, ver |-> 1] /\ place = "home" /\ jar = 1
    /\ picks = <<>> /\ online = FALSE
    /\ shown = [ram |-> conf.ram, ver |-> 1, place |-> "home", sample |-> 0]
    /\ form = buildSettingsFormFromServer(shown)
    /\ saving = <<>> /\ updating = <<>> /\ syncing = <<>>
    /\ touches = 0 /\ halfSaved = FALSE /\ crossed = FALSE

\* The draft starts over when what would be saved changed under it.
resetToBaseline(s, f) ==
    IF buildSettingsFormFromServer(s) # buildSettingsFormFromServer(shown)
    THEN buildSettingsFormFromServer(s) ELSE f

updateServer(s, f) == shown' = s /\ form' = resetToBaseline(s, f)

Touch == touches < MaxTouches /\ touches' = touches + 1

\* The manual sync holds the page's busy lock.
isFormLocked == syncing # <<>> \/ saving # <<>> \/ online

Nothing == UNCHANGED <<conf, place, jar>>
NoCall  == UNCHANGED <<saving, updating, syncing, crossed>>

--------------------------------------------------------------------------------
\* The lock keeps the pointer out of the fields, and not the keyboard.
updateSettingsField ==
    /\ Touch
    /\ \/ \E r \in Rams : form' = [form EXCEPT !.ram = r]
       \/ \E p \in Places : form' = [form EXCEPT !.place = p]
    /\ UNCHANGED <<picks, shown, online, halfSaved>> /\ Nothing /\ NoCall

handleProviderJarDownloaded ==
    /\ ~isFormLocked /\ Touch
    /\ \E v \in Versions : picks' = Append(picks, v) /\ form' = [form EXCEPT !.ver = v, !.swap = Len(picks')]
    /\ UNCHANGED <<shown, online, halfSaved>> /\ Nothing /\ NoCall

handleResetSettingsForm ==
    /\ ~isFormLocked /\ Touch
    /\ form # buildSettingsFormFromServer(shown) /\ form' = buildSettingsFormFromServer(shown)
    /\ UNCHANGED <<picks, shown, online, halfSaved>> /\ Nothing /\ NoCall

handleSaveSettings ==
    /\ ~isFormLocked /\ Touch /\ form # buildSettingsFormFromServer(shown)
    /\ saving' = <<[ram |-> form.ram, ver |-> form.ver, swap |-> form.swap,
                    from |-> shown.place, to |-> form.place]>>
    /\ crossed' = (crossed \/ updating # <<>>)
    /\ UNCHANGED <<picks, shown, online, form, updating, syncing, halfSaved>> /\ Nothing

\* Offered while the form is unlocked; everything it writes later is read now.
runUpdate ==
    /\ ~isFormLocked /\ updating = <<>> /\ Touch
    /\ \E v \in Versions : v > shown.ver /\ updating' = <<[ram |-> shown.ram, from |-> shown.place, ver |-> v]>>
    /\ UNCHANGED <<picks, shown, online, form, saving, syncing, crossed, halfSaved>> /\ Nothing

handleManualSync ==
    /\ ~isFormLocked /\ Touch /\ syncing' = <<conf>>
    /\ crossed' = (crossed \/ updating # <<>>)
    /\ UNCHANGED <<picks, shown, online, form, saving, updating, halfSaved>> /\ Nothing

\* The backend's three writes, in the order it makes them: exchange the jars,
\* move the directory, write mserve.json.
recordFirst(w, ram, ver, file, to) ==    \* variant: writes mserve.json before it tries the rest
    /\ conf' = [ram |-> ram, ver |-> ver]
    /\ jar' = IF w # "refused" /\ file.some THEN file.holds ELSE jar
    /\ place' = IF w = "done" THEN to ELSE place

update_server_settings(w, ram, ver, file, to) ==
    /\ jar' = IF w # "refused" /\ file.some THEN file.holds ELSE jar
    /\ place' = IF w = "done" THEN to ELSE place
    /\ conf' = IF w = "done" THEN [ram |-> ram, ver |-> ver] ELSE conf

\* Refused when the server runs, or its directory was moved away meanwhile, or
\* the pending jar is gone; stopped half way when the move fails.
Outcome(w, from, to) ==
    /\ w \in {"refused", "stopped", "done"}
    /\ online \/ from # place => w = "refused"
    /\ to = from => w # "stopped"

SaveReturns(w) ==
    /\ saving # <<>>
    /\ LET p == saving[1]
           pick == [some |-> p.swap # 0, holds |-> IF p.swap # 0 THEN picks[p.swap] ELSE 0]
       IN /\ Outcome(w, p.from, p.to)
          /\ update_server_settings(w, p.ram, p.ver, pick, p.to)
          /\ picks' = IF w # "refused" /\ pick.some THEN [picks EXCEPT ![p.swap] = jar] ELSE picks
          /\ halfSaved' = (halfSaved \/ (w = "stopped" /\ pick.some))
          /\ IF w # "done" THEN UNCHANGED <<shown, form>>
             ELSE updateServer([shown EXCEPT !.ram = p.ram, !.ver = p.ver, !.place = p.to],
                               [form EXCEPT !.swap = 0, !.place = p.to])
    /\ saving' = <<>> /\ UNCHANGED <<online, updating, syncing, touches, crossed>>

\* Downloads to a file nobody else uses, then saves the settings read at the click.
UpdateReturns(w) ==
    /\ updating # <<>>
    /\ LET u == updating[1]
       IN /\ Outcome(w, u.from, u.from)
          /\ update_server_settings(w, u.ram, u.ver, [some |-> TRUE, holds |-> u.ver], u.from)
          /\ IF w # "done" THEN UNCHANGED <<shown, form>>
             ELSE updateServer([shown EXCEPT !.ver = u.ver, !.place = u.from], form)
    /\ updating' = <<>> /\ UNCHANGED <<picks, online, saving, syncing, touches, halfSaved, crossed>>

SyncReturns ==
    /\ syncing # <<>>
    /\ updateServer([shown EXCEPT !.ram = syncing[1].ram, !.ver = syncing[1].ver], form)
    /\ syncing' = <<>> /\ UNCHANGED <<picks, online, saving, updating, touches, halfSaved, crossed>> /\ Nothing

\* Every telemetry sample is a new object with the same settings.
TelemetrySample ==
    /\ online /\ updateServer([shown EXCEPT !.sample = 1 - @], form)
    /\ UNCHANGED <<picks, online, touches, halfSaved>> /\ Nothing /\ NoCall

StartOrStop ==
    /\ Touch /\ online' = ~online
    /\ UNCHANGED <<picks, shown, form, halfSaved>> /\ Nothing /\ NoCall

SettingsNext ==
    \/ updateSettingsField \/ handleProviderJarDownloaded \/ handleResetSettingsForm
    \/ handleSaveSettings \/ runUpdate \/ handleManualSync
    \/ \E w \in {"refused", "stopped", "done"} : SaveReturns(w) \/ UpdateReturns(w)
    \/ SyncReturns \/ TelemetrySample \/ StartOrStop

SettingsSpec == SettingsInit /\ [][SettingsNext]_settingsVars

--------------------------------------------------------------------------------
\* mserve.json names the build that the directory's jar is, unless a save stopped
\* after it had exchanged the jars, or overlapped an update.
JarIsRecorded == ~halfSaved /\ ~crossed => jar = conf.ver

\* A save that succeeds with a pending jar, beside no update, leaves the directory
\* with that build, the second attempt after a failure too.
SavedJarIsThePick ==
    [][\A p \in {saving[i] : i \in DOMAIN saving} :
        saving' = <<>> /\ p.swap # 0 /\ form'.swap = 0 /\ ~crossed => jar' = p.ver]_settingsVars

\* The list, and so the page, shows what mserve.json says, unless two of the
\* page's calls overlapped: each writes what it read at its click.
ShownIsSaved ==
    Quiet /\ ~crossed => shown.ram = conf.ram /\ shown.ver = conf.ver /\ shown.place = place

\* The Updates row changes the build and nothing else of mserve.json.
UpdateKeepsSettings ==
    [][updating # <<>> /\ updating' = <<>> => conf'.ram = conf.ram /\ place' = place]_settingsVars

\* What was typed is given up only for a reset, a save, or settings saved
\* elsewhere: never for a telemetry sample or a change of status.
TypingSurvives ==
    [][form' # form => \/ touches' # touches
                       \/ saving' # saving
                       \/ buildSettingsFormFromServer(shown') # buildSettingsFormFromServer(shown)]_settingsVars
================================================================================
