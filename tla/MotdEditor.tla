--------------------------------- MODULE MotdEditor ---------------------------------
(* The editor of a server's message (MOTD): styled lines the user edits, the     *)
(* text with formatting codes they are written as, and what the host stores.     *)
(* A line of source is a sequence of tokens, a code or a character each; a line  *)
(* of the editor is a sequence of glyphs, each with its style.                   *)
EXTENDS Naturals, Sequences, SequencesExt, FiniteSetsExt

CONSTANTS
    Chars,        \* the characters that are typed, " " among them
    LineBudget,   \* MOTD_LINE_PIXEL_BUDGET
    MaxEdits      \* bound

MOTD_CHAR_ADVANCE       == 6
MOTD_SPACE_ADVANCE      == 4
MOTD_BOLD_EXTRA_ADVANCE == 1

VARIABLES
    host,           \* who embeds the editor: "properties", "toml" or "literal"
    value,          \* the source of the two lines
    shown,          \* the glyphs the editor last put on the page
    pendingStyle,   \* the style of what is typed next
    sourceMode, motdEdits

motdVars == <<host, value, shown, pendingStyle, sourceMode, motdEdits>>

format == IF host = "toml" THEN "minimessage" ELSE "legacy"
Two    == {1, 2}

baseMotdStyle == [color |-> "none", bold |-> FALSE, effect |-> "none"]
Glyph(c, style) == [ch |-> c, style |-> style]

--------------------------------------------------------------------------------
(* Widths. *)

motdCharAdvance(g) ==
    (IF g.ch = " " THEN MOTD_SPACE_ADVANCE ELSE MOTD_CHAR_ADVANCE)
      + (IF g.style.bold THEN MOTD_BOLD_EXTRA_ADVANCE ELSE 0)

measureMotdRunsWidth(line) == FoldLeft(LAMBDA w, g : w + motdCharAdvance(g), 0, line)

\* The last glyph may tip over the budget.
sliceToBudget(line, budget) ==
    SubSeq(line, 1, Max({n \in 0..Len(line) :
        n = 0 \/ measureMotdRunsWidth(SubSeq(line, 1, n - 1)) < budget}))

clampRunsToWidth(line) == sliceToBudget(line, LineBudget)

--------------------------------------------------------------------------------
(* Source to glyphs. *)

\* The backslash that keeps a first line's indentation in server.properties.
applyMotdAlignmentEscape(line) ==
    IF line # <<>> /\ Head(line) = " " THEN <<"\\">> \o line ELSE line
stripMotdAlignmentEscape(line) ==
    IF line # <<>> /\ Head(line) = "\\" /\ (Len(line) = 1 \/ line[2] = " ") THEN Tail(line) ELSE line

\* A colour clears the decorations.
parseLegacyPreviewLine(line) ==
    FoldLeft(LAMBDA at, token :
        CASE token = "&c" -> [at EXCEPT !.style = [baseMotdStyle EXCEPT !.color = "red"]]
          [] token = "&l" -> [at EXCEPT !.style.bold = TRUE]
          [] token = "&r" -> [at EXCEPT !.style = baseMotdStyle]
          [] OTHER -> [at EXCEPT !.out = Append(@, Glyph(token, at.style))],
        [out |-> <<>>, style |-> baseMotdStyle], line).out

\* Closing a tag closes what was opened inside it; an unknown tag does nothing.
Frame(kind, style) == [kind |-> kind, style |-> style]
popMatchingFrame(stack, kind) ==
    LET at == {i \in 2..Len(stack) : stack[i].kind = kind}
    IN  IF at = {} THEN stack ELSE SubSeq(stack, 1, Max(at) - 1)

parseMiniMessageOpeningTag(tag, top) ==
    CASE tag = "<red>"      -> Frame("color", [top EXCEPT !.color = "red"])
      [] tag = "<bold>"     -> Frame("bold", [top EXCEPT !.bold = TRUE])
      [] tag = "<gradient>" -> Frame("effect", [top EXCEPT !.effect = "gradient"])

closeMiniMessageFrame(stack, tag) ==
    popMatchingFrame(stack, CASE tag = "</red>" -> "color" [] tag = "</bold>" -> "bold"
                              [] tag = "</gradient>" -> "effect")

parseMiniMessagePreviewLine(line) ==
    FoldLeft(LAMBDA at, token :
        LET top == Last(at.stack).style IN
        CASE token \in {"<red>", "<bold>", "<gradient>"} ->
                 [at EXCEPT !.stack = Append(@, parseMiniMessageOpeningTag(token, top))]
          [] token \in {"</red>", "</bold>", "</gradient>"} ->
                 [at EXCEPT !.stack = closeMiniMessageFrame(@, token)]
          [] token = "<reset>" -> [at EXCEPT !.stack = <<Frame("base", baseMotdStyle)>>]
          [] token = "<odd>" -> at
          [] token = "\\<" -> [at EXCEPT !.out = Append(@, Glyph("<", top))]
          [] OTHER -> [at EXCEPT !.out = Append(@, Glyph(token, top))],
        [out |-> <<>>, stack |-> <<Frame("base", baseMotdStyle)>>], line).out

parseMotdPreviewLines(source, fmt) ==
    [i \in Two |-> IF fmt = "minimessage" THEN parseMiniMessagePreviewLine(source[i])
                   ELSE parseLegacyPreviewLine(IF i = 1 THEN stripMotdAlignmentEscape(source[i])
                                               ELSE source[i])]

getEditorLinesFromValue(source, fmt) ==
    [i \in Two |-> clampRunsToWidth(parseMotdPreviewLines(source, fmt)[i])]

--------------------------------------------------------------------------------
(* Glyphs to source. *)

StyleAt(line, i) == IF i \in DOMAIN line THEN line[i].style ELSE baseMotdStyle
If(cond, token)  == IF cond THEN <<token>> ELSE <<>>

serializeWithoutReset(line) ==    \* variant: a style is written over the one before it
    LET Codes(style, previous) ==
          IF style = previous THEN <<>> ELSE If(style = baseMotdStyle, "&r")
              \o If(style.color = "red", "&c") \o If(style.bold, "&l")
    IN  FlattenSeq([i \in DOMAIN line |->
            Append(Codes(line[i].style, StyleAt(line, i - 1)), line[i].ch)])

serializeLegacyRuns(line) ==
    LET Codes(style, previous) ==
          IF style = previous THEN <<>>
          ELSE IF style = baseMotdStyle THEN <<"&r">>
          ELSE If(previous # baseMotdStyle, "&r") \o If(style.color = "red", "&c") \o If(style.bold, "&l")
    IN  FlattenSeq([i \in DOMAIN line |->
            Append(Codes(line[i].style, StyleAt(line, i - 1)), line[i].ch)])

\* Every run opens its own tags and resets them.
serializeMiniMessageRuns(line) ==
    LET Tags(s) == If(s.effect # "none", "<gradient>") \o If(s.color = "red", "<red>") \o If(s.bold, "<bold>")
        Escaped(c) == IF c = "<" THEN "\\<" ELSE c
        Starts(i) == i = 1 \/ line[i - 1].style # line[i].style
        Ends(i)   == i = Len(line) \/ line[i + 1].style # line[i].style
    IN  FlattenSeq([i \in DOMAIN line |->
            (IF Starts(i) THEN Tags(line[i].style) ELSE <<>>) \o <<Escaped(line[i].ch)>>
            \o If(Ends(i) /\ line[i].style # baseMotdStyle, "<reset>")])

serializeLines(lines, fmt) ==
    [i \in Two |->
        LET line == clampRunsToWidth(lines[i]) IN
        IF fmt = "minimessage" THEN serializeMiniMessageRuns(line)
        ELSE IF i = 1 THEN applyMotdAlignmentEscape(serializeLegacyRuns(line))
        ELSE serializeLegacyRuns(line)]

--------------------------------------------------------------------------------
(* What the hosts keep. *)

\* server.properties: one line, the two parts apart by a literal \n.
getStoredMotdValue(source) ==
    applyMotdAlignmentEscape(IF source[2] = <<>> THEN source[1]
                             ELSE source[1] \o <<"\\n">> \o source[2])

getEditableMotdValue(stored) ==
    LET breaks == {i \in DOMAIN stored : stored[i] = "\\n"}
        at == IF breaks = {} THEN Len(stored) + 1 ELSE Min(breaks)
    IN  <<SubSeq(stored, 1, at - 1), SubSeq(stored, at + 1, Len(stored))>>

\* mserve.json: verbatim, so the escape goes and comes back.
getStoredLiteralMotdValue(source) == <<stripMotdAlignmentEscape(source[1]), source[2]>>
getEditableLiteralMotdValue(stored) == <<applyMotdAlignmentEscape(stored[1]), stored[2]>>

\* Java's reading of a property: no leading space, and a backslash escapes.
ServerReads(stored) ==
    LET read == FoldLeft(LAMBDA at, token :
          CASE at.escaped -> [at EXCEPT !.escaped = FALSE, !.lines[at.line] = Append(@, token)]
            [] ~at.escaped /\ token = "\\" -> [at EXCEPT !.escaped = TRUE]
            [] ~at.escaped /\ token = "\\n" -> [at EXCEPT !.line = 2]
            [] ~at.escaped /\ token = " " /\ at.line = 1 /\ at.lines[1] = <<>> -> at
            [] OTHER -> [at EXCEPT !.lines[at.line] = Append(@, token)],
          [lines |-> <<<<>>, <<>>>>, line |-> 1, escaped |-> FALSE], stored)
    IN  read.lines

\* What comes back to the editor from a change.
Hosted(source) ==
    IF host = "literal" THEN getEditableLiteralMotdValue(getStoredLiteralMotdValue(source)) ELSE source

--------------------------------------------------------------------------------
(* Edits. *)

MotdInit ==
    /\ host \in {"properties", "toml", "literal"}
    /\ value \in {<<<<>>, <<>>>>,
                  IF host = "toml" THEN <<<<"<gradient>", "x", "<red>", "<bold>", "x", "</red>", "x">>, <<"<odd>", "x">>>>
                  ELSE <<<<"\\", " ", "&l", "x", "&c", "x">>, <<" ", "x">>>>}
    /\ shown = getEditorLinesFromValue(value, format)
    /\ pendingStyle = baseMotdStyle /\ sourceMode = FALSE /\ motdEdits = 0

Edit == motdEdits < MaxEdits /\ motdEdits' = motdEdits + 1 /\ UNCHANGED host

Selections ==
    {[startLine |-> l, startOffset |-> a, endLine |-> m, endOffset |-> b] :
        l \in Two, m \in Two, a \in 0..Len(shown[1]) + Len(shown[2]), b \in 0..Len(shown[1]) + Len(shown[2])}
Selected(s) ==
    /\ s.startOffset <= Len(shown[s.startLine]) /\ s.endOffset <= Len(shown[s.endLine])
    /\ s.startLine < s.endLine \/ (s.startLine = s.endLine /\ s.startOffset <= s.endOffset)
isSelectionCollapsed(s) == s.startLine = s.endLine /\ s.startOffset = s.endOffset

sliceRuns(line, from, to) == SubSeq(line, from + 1, IF to < Len(line) THEN to ELSE Len(line))
replaceRunsInRange(line, from, to, inserted) ==
    sliceRuns(line, 0, from) \o inserted \o sliceRuns(line, to, Len(line))
availableInsertWidth(line, from, to) ==
    LET kept == measureMotdRunsWidth(replaceRunsInRange(line, from, to, <<>>))
    IN  IF kept < LineBudget THEN LineBudget - kept ELSE 0
Styled(text, style) == [i \in DOMAIN text |-> Glyph(text[i], style)]

\* The part of each line that is selected.
From(s, i) == IF i = s.startLine THEN s.startOffset ELSE 0
To(s, i)   == IF i = s.endLine THEN s.endOffset ELSE Len(shown[i])

\* "change" is the part of a style that is set; the rest of each style is kept.
transformSelectedRuns(s, change) ==
    [i \in Two |-> IF i < s.startLine \/ i > s.endLine THEN shown[i]
                   ELSE replaceRunsInRange(shown[i], From(s, i), To(s, i),
                          [k \in 1..(To(s, i) - From(s, i)) |->
                              [shown[i][From(s, i) + k] EXCEPT !.style = change @@ @]])]

commitLines(lines) ==
    /\ shown' = [i \in Two |-> clampRunsToWidth(lines[i])]
    /\ value' = Hosted(serializeLines(shown', format))

\* Over a selection of both lines, the text replaces what the end's offset spans in the first.
insertTextAtSelection(first, second, s, style) ==
    IF second = <<>> \/ s.startLine = 2
    THEN LET line == shown[s.startLine]
             text == sliceToBudget(Styled(first, style), availableInsertWidth(line, s.startOffset, s.endOffset))
         IN  commitLines([shown EXCEPT ![s.startLine] =
                 replaceRunsInRange(line, s.startOffset, s.endOffset, text)])
    ELSE LET firstEnd  == IF s.endLine = 1 THEN s.endOffset ELSE Len(shown[1])
             text      == sliceToBudget(Styled(first, style), availableInsertWidth(shown[1], s.startOffset, firstEnd))
             remainder == IF s.endLine = 2 THEN sliceRuns(shown[2], s.endOffset, Len(shown[2])) ELSE shown[2]
             room      == availableInsertWidth(remainder, 0, 0)
         IN  commitLines(<<replaceRunsInRange(shown[1], s.startOffset, firstEnd, text),
                           clampRunsToWidth(sliceToBudget(Styled(second, style), room) \o remainder)>>)

\* A character that does not fit, or has a style of its own, is the editor's to insert;
\* any other is the browser's, which gives it the style of a neighbour.
handleBeforeInput(c, s) ==
    /\ ~sourceMode /\ Selected(s) /\ s.startLine = s.endLine /\ Edit
    /\ LET line  == shown[s.startLine]
           room  == availableInsertWidth(line, s.startOffset, s.endOffset)
           text  == sliceToBudget(<<Glyph(c, pendingStyle)>>, room)
       IN  IF room = 0 \/ text = <<>> \/ pendingStyle # baseMotdStyle
           THEN IF text = <<>> THEN UNCHANGED <<value, shown>>
                ELSE insertTextAtSelection(<<c>>, <<>>, s, pendingStyle)
           ELSE \E near \in {StyleAt(line, s.startOffset), StyleAt(line, s.endOffset + 1)} :
                    commitLines([shown EXCEPT ![s.startLine] =
                        replaceRunsInRange(line, s.startOffset, s.endOffset, <<Glyph(c, near)>>)])
    /\ UNCHANGED <<pendingStyle, sourceMode>>

\* The browser deletes within a line.
handleRichInput(s) ==
    /\ ~sourceMode /\ Selected(s) /\ s.startLine = s.endLine /\ ~isSelectionCollapsed(s) /\ Edit
    /\ commitLines([shown EXCEPT ![s.startLine] = replaceRunsInRange(@, s.startOffset, s.endOffset, <<>>)])
    /\ UNCHANGED <<pendingStyle, sourceMode>>

handlePaste(first, second, s) ==
    /\ ~sourceMode /\ Selected(s) /\ Edit
    /\ insertTextAtSelection(first, second, s, pendingStyle)
    /\ UNCHANGED <<pendingStyle, sourceMode>>

\* With nothing selected the style is that of what is typed next.
updateSelectedText(s, change, fallback) ==
    /\ ~sourceMode /\ Selected(s) /\ Edit /\ UNCHANGED sourceMode
    /\ IF isSelectionCollapsed(s)
       THEN pendingStyle' = fallback @@ pendingStyle /\ UNCHANGED <<value, shown>>
       ELSE commitLines(transformSelectedRuns(s, change)) /\ UNCHANGED pendingStyle

applyColor(s) == updateSelectedText(s, [color |-> "red"], [color |-> "red"])

\* A selection that is bold throughout is made plain.
applyDecoration(s) ==
    LET chosen  == UNION {{shown[i][k] : k \in (From(s, i) + 1)..To(s, i)} : i \in s.startLine..s.endLine}
        enable  == chosen = {} \/ \E g \in chosen : ~g.style.bold
    IN  updateSelectedText(s, [bold |-> enable], [bold |-> ~pendingStyle.bold])

applyMotdAlignment(source, fmt, alignment) ==
    [i \in Two |->
        LET first   == fmt = "legacy" /\ i = 1
            line    == IF first THEN stripMotdAlignmentEscape(source[i]) ELSE source[i]
            text    == {k \in DOMAIN line : line[k] # " "}
            trimmed == IF text = {} THEN <<>> ELSE SubSeq(line, Min(text), Len(line))
            width   == measureMotdRunsWidth(parseMotdPreviewLines(<<trimmed, <<>>>>, fmt)[1])
            padding == IF width < LineBudget THEN LineBudget - width ELSE 0
            wide    == CASE alignment = "left" -> 0 [] alignment = "center" -> padding \div 2
                         [] alignment = "right" -> padding
            moved   == [k \in 1..(wide \div MOTD_SPACE_ADVANCE) |-> " "] \o trimmed
        IN  IF trimmed = <<>> THEN <<>> ELSE IF first THEN applyMotdAlignmentEscape(moved) ELSE moved]

applyAlignment(alignment) ==
    /\ Edit /\ value' = Hosted(applyMotdAlignment(value, format, alignment))
    /\ shown' = getEditorLinesFromValue(value', format)
    /\ UNCHANGED <<pendingStyle, sourceMode>>

--------------------------------------------------------------------------------
(* The source. *)

Codes == IF format = "legacy" THEN {"&c", "&l", "&r"}
         ELSE {"<red>", "<bold>", "</bold>", "<reset>"}
IsCode(token) == token \in {"&c", "&l", "&r", "<red>", "<bold>", "<gradient>", "</red>", "</bold>",
                            "</gradient>", "<reset>", "<odd>"}

\* Codes have no width, and a line is cut at the first character past the budget.
clampRawLine(line, isFirst) ==
    LET step(at, k) ==
          LET token == line[k] IN
          CASE at.full -> at
            [] ~at.full /\ IsCode(token) ->
                 [at EXCEPT !.out = Append(@, token),
                            !.bold = token \in {"&l", "<bold>"}
                                     \/ (@ /\ token \notin {"&c", "&r", "</bold>", "<reset>"})]
            [] ~at.full /\ format = "legacy" /\ isFirst /\ k = 1 /\ token = "\\"
               /\ stripMotdAlignmentEscape(line) # line -> [at EXCEPT !.out = Append(@, token)]
            [] OTHER ->
                 IF at.used >= LineBudget THEN [at EXCEPT !.full = TRUE]
                 ELSE [at EXCEPT !.out = Append(@, token),
                         !.used = @ + motdCharAdvance(Glyph(token, [baseMotdStyle EXCEPT !.bold = at.bold]))]
    IN  FoldLeft(step, [out |-> <<>>, used |-> 0, bold |-> FALSE, full |-> FALSE],
                 [k \in DOMAIN line |-> k]).out

\* Typing in the line, deleting, or a button of the toolbar.
updateSourceLine(i, line) ==
    /\ sourceMode /\ Edit
    /\ value' = Hosted([k \in Two |-> clampRawLine(IF k = i THEN line ELSE value[k], k = 1)])
    /\ shown' = getEditorLinesFromValue(value', format)
    /\ UNCHANGED <<pendingStyle, sourceMode>>

insertSourceCode(code, i, at) == updateSourceLine(i, InsertAt(value[i], at, code))

setSourceMode ==
    /\ Edit /\ sourceMode' = ~sourceMode
    /\ shown' = getEditorLinesFromValue(value, format)
    /\ UNCHANGED <<value, pendingStyle>>

MotdNext ==
    \/ \E s \in Selections :
         \/ \E c \in Chars : handleBeforeInput(c, s)
         \/ handleRichInput(s) \/ applyColor(s) \/ applyDecoration(s)
         \/ \E second \in {<<>>, <<"x">>} : handlePaste(<<"x", "x">>, second, s)
    \/ \E alignment \in {"left", "center", "right"} : applyAlignment(alignment)
    \/ \E i \in Two :
         \/ \E at \in 1..(Len(value[i]) + 1), token \in Codes \union (Chars \ {"<"}) : insertSourceCode(token, i, at)
         \/ \E at \in DOMAIN value[i] : updateSourceLine(i, RemoveAt(value[i], at))
    \/ setSourceMode

MotdSpec == MotdInit /\ [][MotdNext]_motdVars

--------------------------------------------------------------------------------
\* What the editor shows after an edit is what it shows when it reads its own source
\* back: no style leaks into a neighbour, no character or indentation is lost
\* (motd-editor.tsx:302-394, motd-format.ts:287-558).
EditorReadsItself == ~sourceMode => shown = getEditorLinesFromValue(value, format)

\* Every backslash is the escape of an indentation: one of the text itself, and one
\* alone on its line, are read as escapes of what follows.
EscapesOnly(source) ==
    \A i \in Two : \A k \in DOMAIN source[i] :
        source[i][k] = "\\" => i = 1 /\ k = 1 /\ Len(source[1]) > 1 /\ source[1][2] = " "

\* What is stored is what was edited: on reopening, and as the server reads its
\* properties file, escape and all (motd-format.ts:245-282).
StoredIsEdited ==
    LET now == parseMotdPreviewLines(value, format) IN
    host = "properties" /\ EscapesOnly(value) =>
      /\ parseMotdPreviewLines(getEditableMotdValue(getStoredMotdValue(value)), "legacy") = now
      /\ [i \in Two |-> parseLegacyPreviewLine(ServerReads(getStoredMotdValue(value))[i])] = now

\* Aligning moves a line and changes none of its glyphs (motd-format.ts:596-620).
AlignmentMovesOnly ==
    LET Text(line) == LET inked == {k \in DOMAIN line : line[k].ch # " "}
                      IN  IF inked = {} THEN <<>> ELSE SubSeq(line, Min(inked), Len(line))
        Inked(source) == [i \in Two |-> Text(parseMotdPreviewLines(source, format)[i])]
    IN  EscapesOnly(value) =>
        \A alignment \in {"left", "center", "right"} :
            Inked(applyMotdAlignment(value, format, alignment)) = Inked(value)

--------------------------------------------------------------------------------
(* What the code does not keep. *)

\* A line aligned left begins with its text: an indentation that was given a style
\* stands behind a code, and stays.
LeftIsLeft ==
    EscapesOnly(value) =>
        \A i \in Two : LET line == parseMotdPreviewLines(applyMotdAlignment(value, format, "left"), format)[i]
                      IN  line # <<>> => line[1].ch # " "

\* What is inserted replaces the selection, on both lines.
PasteReplacesSelection ==
    [][\A s \in Selections : handlePaste(<<"x", "x">>, <<>>, s) /\ s.startLine < s.endLine =>
          shown'[2] = sliceRuns(shown[2], s.endOffset, Len(shown[2]))]_motdVars
================================================================================
