------------------------------- MODULE CreateServer -------------------------------
(* The wizard that creates a server. The draft lives above the page, so it      *)
(* survives leaving it; what its slides have started (a check of a path, the    *)
(* download of a jar, the creation) lands in whatever the draft is by then.     *)
EXTENDS Naturals, Sequences, SequencesExt

CONSTANTS
    Names,        \* names the user may type
    Sources,      \* what the provider slide offers: providers and "modpack"
    Advanced,     \* whether the manual fields are shown
    MaxCalls      \* asynchronous calls the slides may make (bound)

VARIABLES
    draft,      \* the form, the slide, the choice
    calls,      \* calls in flight
    folders,    \* per name: absent, files, server
    listed,     \* names of the servers mserve lists
    made,       \* calls made so far
    strayed     \* a call moved the draft on from a slide the user had left, or for a
                \* name or a jar the user had changed

wizardVars == <<draft, calls, folders, listed, made, strayed>>

--------------------------------------------------------------------------------
(* The catalogue of server software: what each provider is called in jar names,  *)
(* what kind it is, whether the wizard offers it, and which provider a jar name   *)
(* suggests.                                                                     *)
Descriptor(name, aliases, kind, selectable) ==
    [name |-> name, aliases |-> aliases, kind |-> kind, selectable |-> selectable]

PROVIDER_DESCRIPTORS == <<
    Descriptor("paper", {}, "plugin", TRUE),
    Descriptor("folia", {}, "plugin", TRUE),
    Descriptor("purpur", {}, "plugin", TRUE),
    Descriptor("vanilla", {"minecraft", "mojang", "minecraft_server", "server"}, "vanilla", TRUE),
    Descriptor("velocity", {}, "proxy", TRUE),
    Descriptor("fabric", {}, "modded", TRUE),
    Descriptor("neoforge", {}, "modded", FALSE),
    Descriptor("forge", {"minecraftforge"}, "modded", FALSE),
    Descriptor("spigot", {"bukkit", "craftbukkit"}, "plugin", FALSE),
    Descriptor("bungeecord", {"bungee", "waterfall"}, "proxy", TRUE) >>

\* What the wizard offers.
PROVIDER_NAMES == {d.name : d \in {e \in ToSet(PROVIDER_DESCRIPTORS) : e.selectable}}

NoDescriptor == Descriptor("none", {}, "unknown", FALSE)

\* By name or by alias, "none" for anything else.
getProviderDescriptor(name) ==
    LET named == {d \in ToSet(PROVIDER_DESCRIPTORS) : name = d.name \/ name \in d.aliases}
    IN  IF named = {} THEN NoDescriptor ELSE CHOOSE d \in named : TRUE

resolveProviderKind(name) == getProviderDescriptor(name).kind
isProxyProvider(name)     == resolveProviderKind(name) = "proxy"

\* A provider of a server: its canonical name, whether its versions are known.
createProvider(name) ==
    [name |-> IF getProviderDescriptor(name) = NoDescriptor THEN "vanilla"
              ELSE getProviderDescriptor(name).name,
     versioned |-> FALSE]

\* Vanilla is matched last: its aliases occur in the jar names of the others.
INFERENCE_ORDER ==
    SelectSeq(PROVIDER_DESCRIPTORS, LAMBDA d : d.name # "vanilla")
    \o SelectSeq(PROVIDER_DESCRIPTORS, LAMBDA d : d.name = "vanilla")

\* A jar name is the set of hints it spells; a long hint spells its parts too.
Spells(word) ==
    {word} \union CASE word = "neoforge" -> {"forge"}
                    [] word = "minecraftforge" -> {"forge", "minecraft"}
                    [] word = "minecraft_server" -> {"minecraft", "server"}
                    [] word = "bungeecord" -> {"bungee"}
                    [] word = "craftbukkit" -> {"bukkit"}
                    [] OTHER -> {}
JarName(words) == UNION {Spells(w) : w \in words}

inferProviderFromJarPath(jar) ==
    LET found == SelectSeq(INFERENCE_ORDER, LAMBDA d : ({d.name} \union d.aliases) \intersect jar # {})
    IN  IF found = <<>> THEN "none" ELSE Head(found).name

--------------------------------------------------------------------------------
(* The slides.                                                                  *)
SlideIndex == [intro |-> 0, directory |-> 1, provider |-> 2, version |-> 3, ram |-> 4,
               autoRestart |-> 5, backups |-> 6, review |-> 7, done |-> 8]

NoName     == ""    \* nothing typed
NoProvider == [name |-> "none", versioned |-> FALSE]

\* Proxies have no world to back up.
getCreateServerStepSlides(provider) ==
    IF isProxyProvider(provider) THEN 1..7 \ {SlideIndex.backups} ELSE 1..7
createServerNeedsEula(provider) == ~isProxyProvider(provider)

FlowSlides(provider) == getCreateServerStepSlides(provider) \union {0, SlideIndex.done}

\* A slide the provider has no use for shows the one after it.
getCreateServerVisibleSlide(slide, provider) ==
    LET after == {s \in FlowSlides(provider) : s >= slide}
    IN  IF after # {} THEN Min(after) ELSE Max(FlowSlides(provider))

getCreateServerNextSlide(slide, provider) ==
    LET after == {s \in FlowSlides(provider) : s > getCreateServerVisibleSlide(slide, provider)}
    IN  IF after # {} THEN Min(after) ELSE SlideIndex.done

getCreateServerPreviousSlide(slide, provider) ==
    LET before == {s \in FlowSlides(provider) : s < getCreateServerVisibleSlide(slide, provider)}
    IN  IF before # {} THEN Max(before) ELSE SlideIndex.intro

--------------------------------------------------------------------------------
(* The draft.                                                                   *)
EmptyDraft ==
    [slide |-> 0, name |-> NoName, choice |-> "none", provider |-> NoProvider, jar |-> "none",
     modpack |-> FALSE, eula |-> FALSE, created |-> "none", submitting |-> FALSE,
     manual |-> FALSE]

ActiveSlide == getCreateServerVisibleSlide(draft.slide, draft.provider.name)
hasStarted  == draft # EmptyDraft

\* A slide that is left is unmounted: its calls go on without it.
Unmounted(slide) == {IF c.here /\ slide # ActiveSlide THEN [c EXCEPT !.here = FALSE] ELSE c :
                     c \in calls}
Shows(d) ==    \* the draft becomes d
    /\ draft' = d
    /\ calls' = Unmounted(getCreateServerVisibleSlide(d.slide, d.provider.name))
Keeps == UNCHANGED <<folders, listed, made, strayed>>

WizardInit ==
    /\ draft = EmptyDraft /\ calls = {} /\ listed = {} /\ made = 0 /\ strayed = FALSE
    /\ folders \in [Names -> {"absent", "files"}]

startFlow == ActiveSlide = 0 /\ Shows([draft EXCEPT !.slide = 1]) /\ Keeps
prevSlide ==    \* the arrow: never disabled
    /\ ActiveSlide \in 1..7
    /\ Shows([draft EXCEPT !.slide = getCreateServerPreviousSlide(@, draft.provider.name)])
    /\ Keeps
nextSlide(d) == [d EXCEPT !.slide = getCreateServerNextSlide(@, d.provider.name)]

resetDraft == Shows(EmptyDraft) /\ strayed' = FALSE /\ UNCHANGED <<folders, listed, made>>
Reset      == ActiveSlide = 0 /\ hasStarted /\ resetDraft

LeavePage ==
    /\ calls # {} /\ calls' = {[c EXCEPT !.here = FALSE] : c \in calls}
    /\ UNCHANGED draft /\ Keeps

setServerName(n) ==    \* typed, or cleared
    /\ ActiveSlide = SlideIndex.directory /\ n # draft.name
    /\ Shows([draft EXCEPT !.name = n]) /\ Keeps

ChosenKeepingTheJar(d, choice) ==    \* a mutant: another choice keeps the jar
    IF choice = "modpack" THEN [d EXCEPT !.choice = choice, !.provider = NoProvider]
    ELSE [d EXCEPT !.choice = choice, !.provider = createProvider(choice)]

\* The same choice again keeps the jar or the modpack; another one drops both.
Chosen(d, choice) ==
    LET template == IF choice = "modpack" THEN NoProvider ELSE createProvider(choice)
    IN  IF d.choice = choice THEN d
        ELSE [d EXCEPT !.choice = choice, !.provider = template, !.jar = "none",
                       !.modpack = @ /\ choice = "modpack", !.manual = FALSE]

pick(choice) ==
    /\ ActiveSlide = SlideIndex.provider /\ choice \in PROVIDER_NAMES \union {"modpack"}
    /\ Shows(nextSlide(Chosen(draft, choice))) /\ Keeps

\* Another page preselects; a draft with a jar or a modpack keeps it.
Preset(choice) ==
    /\ draft.jar = "none" /\ ~draft.modpack /\ choice # draft.choice
    /\ draft' = Chosen(draft, choice)
    /\ calls' = {[c EXCEPT !.here = FALSE] : c \in calls}
    /\ Keeps

setModpack(on) ==
    /\ ActiveSlide = SlideIndex.version /\ draft.choice = "modpack" /\ draft.modpack # on
    /\ Shows(IF on THEN [draft EXCEPT !.modpack = TRUE, !.provider = NoProvider, !.jar = "none"]
             ELSE [draft EXCEPT !.modpack = FALSE])
    /\ Keeps

\* The manual fields: a jar, whose name suggests the provider even when it holds a
\* word of vanilla's, and the version, read from the name or typed.
PickJar(p) ==
    /\ Advanced /\ ActiveSlide = SlideIndex.version /\ draft.choice \notin {"none", "modpack"}
    /\ draft.jar # p
    /\ Shows([draft EXCEPT !.jar = p, !.manual = TRUE,
                           !.provider =
                  [name |-> inferProviderFromJarPath(JarName({p, "server"})), versioned |-> TRUE]])
    /\ Keeps

ClearJar ==    \* the field is emptied: the provider keeps what it was
    /\ Advanced /\ ActiveSlide = SlideIndex.version /\ draft.choice \notin {"none", "modpack"}
    /\ draft.jar # "none"
    /\ Shows([draft EXCEPT !.jar = "none", !.manual = TRUE]) /\ Keeps

AcceptEula(on) ==
    /\ ActiveSlide = SlideIndex.review /\ createServerNeedsEula(draft.provider.name)
    /\ ~draft.submitting /\ draft.eula # on
    /\ Shows([draft EXCEPT !.eula = on]) /\ Keeps

SettingsContinue ==    \* RAM, restarts, backups have defaults
    /\ ActiveSlide \in 4..6 /\ Shows(nextSlide(draft)) /\ Keeps

--------------------------------------------------------------------------------
(* Calls. Each keeps the form of the render it was clicked in.                  *)
Call(kind, of, at) == [id |-> made, kind |-> kind, of |-> of, at |-> at, here |-> TRUE,
                       form |-> [provider |-> draft.provider, jar |-> draft.jar,
                                 modpack |-> draft.modpack]]
Asks(c) ==
    /\ made < MaxCalls /\ made' = made + 1 /\ calls' = calls \union {c}
    /\ UNCHANGED <<folders, listed, strayed>>

validateServerName(n) == n # NoName /\ n \notin listed

\* The directory slide checks the folder, then continues.
CheckName ==
    /\ ActiveSlide = SlideIndex.directory /\ validateServerName(draft.name)
    /\ Asks(Call("name", draft.name, "asked")) /\ UNCHANGED draft

\* The version slide downloads the selected row, unless this slide already does.
DownloadJar ==
    /\ ActiveSlide = SlideIndex.version /\ draft.choice \notin {"none", "modpack"}
    /\ ~\E c \in calls : c.kind = "jar" /\ c.here
    /\ Asks(Call("jar", draft.choice, "asked")) /\ UNCHANGED draft

\* It checks a jar the form already has.
CheckJar ==
    /\ ActiveSlide = SlideIndex.version /\ draft.choice \notin {"none", "modpack"}
    /\ draft.jar # "none" /\ draft.provider.versioned
    /\ ~\E c \in calls : c.kind = "jar" /\ c.here
    /\ Asks(Call("file", draft.jar, "asked")) /\ UNCHANGED draft

ModpackContinue ==
    /\ ActiveSlide = SlideIndex.version /\ draft.choice = "modpack" /\ draft.modpack
    /\ Shows(nextSlide(draft)) /\ Keeps

canCreate == ~createServerNeedsEula(draft.provider.name) \/ draft.eula

\* A refused creation sends the user to the slide at fault.
createServer ==
    /\ ActiveSlide = SlideIndex.review /\ ~draft.submitting /\ canCreate
    /\ IF validateServerName(draft.name)
       THEN Asks(Call("create", draft.name, "folder")) /\ UNCHANGED draft
       ELSE Shows([draft EXCEPT !.slide = 1]) /\ Keeps

Done(c)   == calls \ {c}
AsAsked(c) == CASE c.kind = "name" -> draft.name = c.of
                [] c.kind = "file" -> draft.jar = c.of
                [] OTHER           -> TRUE
Strays(c) == strayed' = (strayed \/ ~c.here \/ ~AsAsked(c))

\* The draft becomes d, and the rest of the calls lose their slide if it goes.
Lands(c, d) ==
    /\ draft' = d
    /\ calls' = {IF k.here /\ getCreateServerVisibleSlide(d.slide, d.provider.name) # ActiveSlide
                 THEN [k EXCEPT !.here = FALSE] ELSE k : k \in Done(c)}

NameChecked(c) ==
    /\ c.kind = "name"
    /\ IF folders[c.of] # "absent" THEN calls' = Done(c) /\ UNCHANGED <<draft, strayed>>
       ELSE Lands(c, nextSlide(draft)) /\ Strays(c)
    /\ UNCHANGED <<folders, listed, made>>

JarDownloaded(c) ==
    /\ c.kind = "jar"
    /\ \/ /\ Lands(c, nextSlide([draft EXCEPT !.modpack = FALSE, !.jar = c.of, !.manual = FALSE,
                                              !.provider = [name |-> c.of, versioned |-> TRUE]]))
          /\ Strays(c)
       \/ calls' = Done(c) /\ UNCHANGED <<draft, strayed>>
    /\ UNCHANGED <<folders, listed, made>>

\* The provider of the click, the jar of now.
JarChecked(c) ==
    /\ c.kind = "file"
    /\ \/ /\ Lands(c, nextSlide([draft EXCEPT !.modpack = FALSE, !.provider = c.form.provider]))
          /\ Strays(c)
       \/ calls' = Done(c) /\ UNCHANGED <<draft, strayed>>
    /\ UNCHANGED <<folders, listed, made>>

Step(c, at) == calls' = Done(c) \union {[c EXCEPT !.at = at]}
Refused(c, slide) == Lands(c, [draft EXCEPT !.slide = slide]) /\ Strays(c)

\* The folder is free: a modpack installs itself, a jar is checked first.
FolderChecked(c) ==
    /\ c.kind = "create" /\ c.at = "folder"
    /\ \/ folders[c.of] # "absent" /\ Refused(c, 1)
       \/ calls' = Done(c) /\ UNCHANGED <<draft, strayed>>    \* the check failed
       \/ /\ folders[c.of] = "absent" /\ c.form.modpack /\ UNCHANGED strayed
          /\ Step(c, "install") /\ draft' = [draft EXCEPT !.submitting = TRUE]
       \/ /\ folders[c.of] = "absent" /\ ~c.form.modpack
          /\ IF c.form.jar = "none" \/ ~c.form.provider.versioned
             THEN Refused(c, SlideIndex.version)
             ELSE Step(c, "jar") /\ UNCHANGED <<draft, strayed>>
    /\ UNCHANGED <<folders, listed, made>>

FileChecked(c) ==
    /\ c.kind = "create" /\ c.at = "jar"
    /\ \/ Step(c, "init") /\ draft' = [draft EXCEPT !.submitting = TRUE] /\ UNCHANGED strayed
       \/ Refused(c, SlideIndex.version)
    /\ UNCHANGED <<folders, listed, made>>

Fails(c) == calls' = Done(c) /\ draft' = [draft EXCEPT !.submitting = FALSE]

\* The installer refuses a folder with files and removes what it half installed.
InstallModpack(c) ==
    /\ c.kind = "create" /\ c.at = "install"
    /\ IF folders[c.of] # "absent" THEN Fails(c) /\ UNCHANGED folders
       ELSE /\ folders' = [folders EXCEPT ![c.of] = "files"]
            /\ Step(c, "installing") /\ UNCHANGED draft
    /\ UNCHANGED <<listed, made, strayed>>

ModpackInstalled(c) ==
    /\ c.kind = "create" /\ c.at = "installing"
    /\ \/ Step(c, "init") /\ UNCHANGED <<draft, folders>>
       \/ Fails(c) /\ folders' = [folders EXCEPT ![c.of] = "absent"]
    /\ UNCHANGED <<listed, made, strayed>>

\* initialize_server refuses a folder that holds a server. The new server is
\* listed, and the wizard shows that it is done, wherever the user is.
ServerInitialized(c) ==
    /\ c.kind = "create" /\ c.at = "init"
    /\ \/ /\ folders[c.of] # "server"
          /\ folders' = [folders EXCEPT ![c.of] = "server"]
          /\ listed' = listed \union {c.of}
          /\ Lands(c, [draft EXCEPT !.created = c.of, !.slide = SlideIndex.done,
                                    !.submitting = FALSE])
          /\ Strays(c)
       \/ Fails(c) /\ UNCHANGED <<folders, listed, strayed>>
    /\ UNCHANGED made

\* By the button, or after five seconds.
goToCreatedServer ==
    /\ draft.slide = SlideIndex.done /\ draft.created # "none" /\ resetDraft

WizardNext ==
    \/ startFlow \/ prevSlide \/ Reset \/ LeavePage \/ SettingsContinue \/ ModpackContinue
    \/ CheckName \/ DownloadJar \/ CheckJar \/ createServer \/ goToCreatedServer \/ ClearJar
    \/ \E n \in Names \union {NoName} : setServerName(n)
    \/ \E choice \in Sources : pick(choice) \/ Preset(choice)
    \/ \E on \in BOOLEAN : setModpack(on) \/ AcceptEula(on)
    \/ \E p \in Sources \ {"modpack"} : PickJar(p)
    \/ \E c \in calls : NameChecked(c) \/ JarDownloaded(c) \/ JarChecked(c) \/ FolderChecked(c)
                        \/ FileChecked(c) \/ InstallModpack(c) \/ ModpackInstalled(c)
                        \/ ServerInitialized(c)

WizardSpec == WizardInit /\ [][WizardNext]_wizardVars

--------------------------------------------------------------------------------
HasSource == draft.modpack \/ (draft.jar # "none" /\ draft.provider.versioned)

\* The wizard says "Server created" only of a server it created.
DoneMeansCreated == draft.slide = SlideIndex.done => draft.created # "none"

\* What the slides behind the user asked for is still there, and fits together,
\* until a call lands on a slide the user has left, or for what the user has changed;
\* a server is made, even then, only of a name and of a source that were asked for.
DraftHoldsTogether ==
    /\ \A c \in calls : c.kind = "create" =>
          /\ c.of # NoName
          /\ c.at = "jar" => c.form.jar # "none" /\ c.form.provider.versioned
          /\ c.at \in {"install", "installing"} => c.form.modpack
    /\ ~strayed =>
          /\ DoneMeansCreated
          /\ ActiveSlide > SlideIndex.directory /\ draft.created = "none" => draft.name # NoName
          /\ ActiveSlide > SlideIndex.version => HasSource
          /\ draft.jar # "none" /\ ~draft.manual =>
                 draft.provider.name = draft.choice /\ draft.jar = draft.choice
================================================================================
