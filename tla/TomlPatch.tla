------------------------------- MODULE TomlPatch -------------------------------
(* patchTomlText: editing a TOML document by changing only the lines of the    *)
(* entries that changed. A document is a sequence of lines: comments, headers  *)
(* of tables and entries, each entry on one line. The root table is "".        *)
EXTENDS Integers, Sequences, SequencesExt, FiniteSets, FiniteSetsExt

CONSTANTS TomlKeys, Tables, TomlValues

Root  == ""
Sections == {Root} \union Tables
Absent == "absent"      \* no such entry; a table that is not there has none
Line == [is : {"comment"}, name : {""}, value : {Absent}, note : {FALSE}]
        \union [is : {"header"}, name : Tables, value : {Absent}, note : {FALSE}]
        \union [is : {"entry"}, name : TomlKeys, value : TomlValues, note : BOOLEAN]

EntryLine(key, value, note) == [is |-> "entry", name |-> key, value |-> value, note |-> note]

\* The section each line belongs to: that of the last header up to it.
HeadersUpTo(doc, i) == {h \in 1..i : doc[h].is = "header"}
SectionAt(doc, i) == IF HeadersUpTo(doc, i) = {} THEN Root ELSE doc[Max(HeadersUpTo(doc, i))].name
Entries(doc, section) ==
    {i \in DOMAIN doc : doc[i].is = "entry" /\ SectionAt(doc, i) = section}
HeaderOf(doc, section) == {h \in DOMAIN doc : doc[h].is = "header" /\ doc[h].name = section}

\* What TOML.parse refuses: a table or a key given twice.
Parses(doc) ==
    /\ \A t \in Tables : Cardinality(HeaderOf(doc, t)) <= 1
    /\ \A s \in Sections, k \in TomlKeys :
          Cardinality({i \in Entries(doc, s) : doc[i].name = k}) <= 1

Location(doc, s, k) == {i \in Entries(doc, s) : doc[i].name = k}

\* The parsed document: which tables there are, and every value.
TomlParse(doc) ==
    [tables |-> {t \in Tables : HeaderOf(doc, t) # {}},
     at |-> [s \in Sections |-> [k \in TomlKeys |->
                IF Location(doc, s, k) = {} THEN Absent
                ELSE doc[Max(Location(doc, s, k))].value]]]

\* The last line that belongs to an entry of the section, or its header.
lastEntry(doc, s) == Max({0} \union HeaderOf(doc, s) \union Entries(doc, s))

\* New root keys go before the first header and above the comments over it.
AboveFirstHeader(doc) ==
    LET headers == {i \in DOMAIN doc : doc[i].is = "header"}
        before  == (IF headers = {} THEN Len(doc) + 1 ELSE Min(headers)) - 1
    IN  Max({0} \union {i \in 1..before : doc[i].is # "comment"})

insertAtFirstHeader(doc, s) ==    \* variant: straight before the header
    LET headers == {i \in DOMAIN doc : doc[i].is = "header"}
    IN  IF s = Root /\ lastEntry(doc, s) = 0
        THEN (IF headers = {} THEN Len(doc) + 1 ELSE Min(headers)) - 1
        ELSE lastEntry(doc, s)

insertAfter(doc, s) ==
    IF s = Root /\ lastEntry(doc, s) = 0 THEN AboveFirstHeader(doc) ELSE lastEntry(doc, s)

NoPatch == <<[is |-> "null", name |-> "", value |-> Absent, note |-> FALSE]>>

\* A line of the document after the edits: replaced with its trailing comment
\* kept, dropped when its entry is gone, or as it was.
Replaced(doc, i, next) ==
    LET s == SectionAt(doc, i) k == doc[i].name
    IN  IF doc[i].is # "entry" \/ next.at[s][k] = doc[i].value THEN <<doc[i]>>
        ELSE IF next.at[s][k] = Absent THEN <<>>
        ELSE <<EntryLine(k, next.at[s][k], doc[i].note)>>

\* The entries a section gains, in the order the keys are met.
Inserted(doc, after, next) ==
    LET new(s) == {k \in TomlKeys : Location(doc, s, k) = {} /\ next.at[s][k] # Absent}
        here == {s \in Sections : (s = Root \/ HeaderOf(doc, s) # {}) /\ insertAfter(doc, s) = after}
        lines(s) == [n \in 1..Cardinality(new(s)) |->
                        EntryLine(SetToSeq(new(s))[n], next.at[s][SetToSeq(new(s))[n]], FALSE)]
    IN  FlattenSeq([n \in 1..Cardinality(here) |-> lines(SetToSeq(here)[n])])

\* Tables that come or go make it a rewrite of the whole file.
patchTomlText(doc, next) ==
    LET patched == Inserted(doc, 0, next) \o
                   FlattenSeq([i \in DOMAIN doc |-> Replaced(doc, i, next) \o Inserted(doc, i, next)])
    IN  IF TomlParse(doc).tables # next.tables THEN NoPatch
        ELSE IF Parses(patched) /\ TomlParse(patched) = next THEN patched ELSE NoPatch
================================================================================
