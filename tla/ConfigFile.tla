------------------------------ MODULE ConfigFile ------------------------------
(* One configuration file in its editor: load, type, reset, reload and save.   *)
(* The whole file is written from the draft and from what was loaded, while    *)
(* the game and mserve's own pages write the same file. Three editors share    *)
(* the plumbing: server.properties, velocity.toml, and a plain list of rows.   *)
EXTENDS Naturals, Sequences

CONSTANTS
    Flags,        \* featured settings with a checkbox or a number
    Enums,        \* featured settings with a list of options
    Others,       \* what is not featured: further keys, backends, or rows
    MaxTyping     \* cells the user changes, and writes of others (bounds)

VARIABLES
    kind,         \* which editor
    text,         \* the file: each key's value
    readable,     \* the file parses
    gameRuns,     \* the section is locked
    rows, originalRows,   \* the draft and what it is compared with
    source,       \* the file as parsed at the last load that worked
    reading,      \* the read in flight: at most one [text, readable]
    writing,      \* the write in flight: at most one [content, done]
    error,
    typing, outside,
    typed,        \* history: what the user last put in each cell since the load
    fresh         \* history: nobody else wrote the file since the load

configVars == <<kind, text, readable, gameRuns, rows, originalRows, source, reading,
                writing, error, typing, outside, typed, fresh>>

Keys     == Flags \union Enums \union Others
Featured == IF kind = "list" THEN {} ELSE Flags \union Enums
Values   == {"no", "yes"}
File     == [Keys -> Values \union {"absent"}]
Empty    == [k \in Keys |-> "absent"]
Default  == "yes"        \* what a missing setting means to the game
NotTyped == [k \in Keys |-> "-"]

\* The draft is the whole list, so what it lacks is deleted from the file.
DraftOwns(k) == kind = "list" \/ (kind = "velocity" /\ k \in Others)

ConfigInit ==
    /\ kind \in {"properties", "velocity", "list"}
    /\ text \in File /\ readable = TRUE /\ gameRuns = FALSE
    /\ rows = Empty /\ originalRows = Empty /\ source = Empty
    /\ reading = <<[text |-> text, readable |-> TRUE]>> /\ writing = <<>>   \* on mount
    /\ error = FALSE /\ typing = 0 /\ outside = 0 /\ typed = NotTyped /\ fresh = FALSE

\* server.properties and velocity.toml are locked while the server is not
\* offline; the lists stay editable.
disabled == kind # "list" /\ gameRuns
isLocked == disabled \/ reading # <<>> \/ writing # <<>>
isDirty  == rows # originalRows

\* velocity.toml shows a missing featured setting at its default.
parseVelocityEditorState(f) == [k \in Keys |->
    IF k \in Featured /\ f[k] = "absent" THEN Default ELSE f[k]]
parseState(f) == IF kind = "velocity" THEN parseVelocityEditorState(f) ELSE f

applyContent(f) ==
    /\ rows' = parseState(f) /\ originalRows' = parseState(f) /\ source' = f
    /\ typed' = NotTyped

buildOverSource(k) ==    \* variant: the loaded file under every draft
    IF rows[k] # "absent" THEN rows[k]
    ELSE IF k \in Flags \intersect Featured THEN "no" ELSE source[k]

\* Over what was loaded: a checkbox or a number without a value counts as off.
createServerPropertiesContent(k) ==
    IF rows[k] = "absent" THEN IF k \in Flags THEN "no" ELSE source[k] ELSE rows[k]
\* The same, but the list of backends is the draft's.
createVelocityTomlContent(k) ==
    IF k \in Others THEN rows[k] ELSE createServerPropertiesContent(k)
jsonRowsToRecords(k) == rows[k]

buildCell(k) ==
    CASE kind = "properties" -> createServerPropertiesContent(k)
      [] kind = "velocity"   -> createVelocityTomlContent(k)
      [] kind = "list"       -> jsonRowsToRecords(k)

\* What buildContent throws for: a number that is none, an option that is none,
\* a touched row without a UUID.
parsePropertyNumber(k) == k \in Flags \intersect Featured /\ rows[k] = "bad"
isNoOption(k)          == k \in Enums \intersect Featured /\ rows[k] \in {"bad", "absent"}
validateJsonRecords(k) == kind = "list" /\ rows[k] = "bad" /\ rows[k] # originalRows[k]
Rejected == \E k \in Keys : parsePropertyNumber(k) \/ isNoOption(k) \/ validateJsonRecords(k)

OnlyTheFile == UNCHANGED <<kind, gameRuns, rows, originalRows, source, error, typing, typed>>
FileStays   == UNCHANGED <<kind, text, readable, gameRuns, outside>>

reload ==
    /\ ~isLocked
    /\ reading' = <<[text |-> text, readable |-> readable]>> /\ error' = FALSE
    /\ FileStays /\ UNCHANGED <<rows, originalRows, source, writing, typing, typed, fresh>>

ReadLands ==
    /\ reading # <<>> /\ reading' = <<>>
    /\ IF Head(reading).readable
       THEN applyContent(Head(reading).text) /\ error' = FALSE
            /\ fresh' = (Head(reading) = [text |-> text, readable |-> readable])
       ELSE error' = TRUE /\ UNCHANGED <<rows, originalRows, source, typed, fresh>>
    /\ FileStays /\ UNCHANGED <<writing, typing>>

Types(k, v) ==
    /\ ~isLocked /\ typing < MaxTyping /\ v # rows[k]
    /\ rows' = [rows EXCEPT ![k] = v] /\ typed' = [typed EXCEPT ![k] = v]
    /\ typing' = typing + 1 /\ error' = FALSE
    /\ FileStays /\ UNCHANGED <<originalRows, source, reading, writing, fresh>>

PropertyField(k, v) ==    \* the map of backends is one of the featured fields
    /\ k \in Featured \/ (kind = "velocity" /\ k \in Others)
    /\ v = "absent" => DraftOwns(k)
    /\ v = "bad" => k \in Featured
    /\ Types(k, v)

AdvancedPropertiesSection(k, v) ==    \* the further keys the file was loaded with
    /\ kind = "properties" /\ k \in Others /\ source[k] # "absent" /\ v \in Values
    /\ Types(k, v)

updateRowValue(k, v) ==    \* a row is changed, added or deleted
    kind = "list" /\ Types(k, v)

reset ==
    /\ ~isLocked /\ isDirty
    /\ rows' = originalRows /\ typed' = NotTyped /\ error' = FALSE
    /\ FileStays /\ UNCHANGED <<originalRows, source, reading, writing, typing, fresh>>

\* The button is in the toast, which shows while dirty and unlocked.
save ==
    /\ ~isLocked /\ isDirty
    /\ IF Rejected THEN error' = TRUE /\ UNCHANGED writing
       ELSE /\ error' = FALSE
            /\ writing' = <<[content |-> [k \in Keys |-> buildCell(k)], done |-> FALSE]>>
    /\ FileStays /\ UNCHANGED <<rows, originalRows, source, reading, typing, typed, fresh>>

Writes ==
    /\ writing # <<>> /\ ~Head(writing).done
    /\ text' = Head(writing).content /\ readable' = TRUE
    /\ writing' = <<[Head(writing) EXCEPT !.done = TRUE]>>
    /\ OnlyTheFile /\ UNCHANGED <<reading, outside, fresh>>

SaveLands ==
    /\ writing # <<>> /\ Head(writing).done /\ writing' = <<>>
    /\ applyContent(Head(writing).content)
    /\ fresh' = (readable /\ text = Head(writing).content)
    /\ FileStays /\ UNCHANGED <<reading, error, typing>>

\* fs::write empties the file before it writes, so a failure may leave a stump.
SaveFails ==
    /\ writing # <<>> /\ ~Head(writing).done /\ writing' = <<>>
    /\ \/ UNCHANGED <<readable, fresh>>
       \/ readable' = FALSE /\ fresh' = FALSE
    /\ error' = TRUE
    /\ UNCHANGED <<kind, text, gameRuns, rows, originalRows, source, reading, typing,
                   outside, typed>>

\* The game, the security audit, a network's plan, or a text editor.
OthersWrite ==
    /\ outside < MaxTyping /\ outside' = outside + 1 /\ fresh' = FALSE
    /\ \/ readable' = TRUE /\ \E k \in Keys, v \in Values : text' = [text EXCEPT ![k] = v]
       \/ readable' = FALSE /\ text' = text
    /\ OnlyTheFile /\ UNCHANGED <<reading, writing>>

GameTurns ==
    /\ gameRuns' = ~gameRuns
    /\ UNCHANGED <<kind, text, readable, rows, originalRows, source, reading, writing,
                   error, typing, outside, typed, fresh>>

ConfigNext ==
    \/ reload \/ ReadLands \/ reset \/ save \/ Writes \/ SaveLands \/ SaveFails
    \/ \E k \in Keys, v \in Values \union {"absent", "bad"} : 
           PropertyField(k, v) \/ AdvancedPropertiesSection(k, v) \/ updateRowValue(k, v)
    \/ OthersWrite \/ GameTurns

ConfigSpec == ConfigInit /\ [][ConfigNext]_configVars

--------------------------------------------------------------------------------
\* A save of a file nobody else wrote puts what the user typed into the cells
\* the user touched, deletions included, and leaves every other value that was
\* in the file alone.
SaveWritesOnlyEdits == [][
    Writes /\ fresh => \A k \in Keys :
        IF typed[k] # "-" THEN text'[k] = typed[k]
        ELSE text[k] # "absent" => text'[k] = text[k]]_configVars

InForce(f, k) == IF f[k] = "absent" /\ k \in Featured THEN Default ELSE f[k]

\* Saving one setting does not change another: a setting the file leaves out
\* stays at the default the editor's own definition gives for it.
AbsentKeepsItsDefault == [][
    Writes /\ fresh => \A k \in Keys :
        typed[k] = "-" => InForce(text', k) = InForce(text, k)]_configVars
================================================================================
