------------------------------ MODULE ServerTerminal ------------------------------
(* The console of a server's page. Lines wait 120 ms to be shown and 1.5 s to  *)
(* be stored under the server's key; one page shows server after server, and a *)
(* command it left behind still reports through the key it was given.          *)
EXTENDS Naturals, Sequences, FiniteSets

CONSTANTS
    Keys,                   \* directories of servers
    TERMINAL_LINE_LIMIT,    \* lines kept per server
    MaxSteps                \* lines and clicks (bound)

VARIABLES
    storeKey,        \* whose console is open, or NoKey
    allLines, pendingLines,
    flushTimer, persistTimer,    \* the key each timer was set with, or NoKey
    stored,          \* local storage
    waiting,         \* commands that report later: of which key, and to which page
    heard,           \* the lines each server was given since its console was cleared
    missed,          \* keys whose last write failed
    late,            \* a command reported to a console that is open no more
    steps

terminalVars == <<storeKey, allLines, pendingLines, flushTimer, persistTimer, stored,
                  waiting, heard, missed, late, steps>>

NoKey == ""

Kept(lines) ==
    IF Len(lines) <= TERMINAL_LINE_LIMIT THEN lines
    ELSE SubSeq(lines, Len(lines) - TERMINAL_LINE_LIMIT + 1, Len(lines))

TerminalInit ==
    /\ storeKey = NoKey /\ allLines = <<>> /\ pendingLines = <<>>
    /\ flushTimer = NoKey /\ persistTimer = NoKey
    /\ stored = [k \in Keys |-> <<>>] /\ waiting = {}
    /\ heard = stored /\ missed = {} /\ late = FALSE /\ steps = 0

Steps == steps < MaxSteps /\ steps' = steps + 1

--------------------------------------------------------------------------------
\* An empty list removes the key; a write that fails is ignored.
writeStoredLines(k, lines) ==
    \/ stored' = [stored EXCEPT ![k] = lines] /\ missed' = missed \ {k}
    \/ lines # <<>> /\ missed' = missed \union {k} /\ UNCHANGED stored

\* As a caller that was given key k appends.
appendTerminalLine(k) ==
    LET line == [of |-> k, no |-> steps]
    IN  /\ pendingLines' = Append(pendingLines, line)
        /\ flushTimer' = IF flushTimer = NoKey THEN k ELSE flushTimer
        /\ heard' = [heard EXCEPT ![k] = Append(@, line)]

RuntimeLine ==
    /\ storeKey # NoKey /\ Steps /\ appendTerminalLine(storeKey)
    /\ UNCHANGED <<storeKey, allLines, persistTimer, stored, waiting, missed, late>>

flushPendingLines ==
    /\ flushTimer # NoKey /\ flushTimer' = NoKey
    /\ allLines' = Kept(allLines \o pendingLines) /\ pendingLines' = <<>>
    /\ persistTimer' = flushTimer
    /\ UNCHANGED <<storeKey, stored, waiting, heard, missed, late, steps>>

\* What is written is the list as it is when the timer fires.
schedulePersist ==
    /\ persistTimer # NoKey /\ persistTimer' = NoKey
    /\ writeStoredLines(persistTimer, allLines)
    /\ UNCHANGED <<storeKey, allLines, pendingLines, flushTimer, waiting, heard, late, steps>>

Switched(k) == allLines' = IF k = NoKey THEN <<>> ELSE stored'[k]

\* Clean-up for the old key, then the effect for the new one. Behind a page that
\* is gone (k is NoKey) its commands keep the list they had.
Open(k) ==
    LET left == Kept(allLines \o pendingLines)
    IN  /\ IF storeKey = NoKey THEN UNCHANGED <<stored, missed>>
           ELSE writeStoredLines(storeKey, left)
        /\ storeKey' = k /\ Switched(k)
        /\ pendingLines' = <<>> /\ flushTimer' = NoKey /\ persistTimer' = NoKey
        /\ waiting' = IF k # NoKey THEN waiting
                      ELSE {IF w.page = "open" THEN [w EXCEPT !.page = "gone", !.lines = left]
                            ELSE w : w \in waiting}
        /\ heard' = IF k \in missed' THEN [heard EXCEPT ![k] = stored'[k]] ELSE heard

Navigate ==
    /\ Steps /\ \E k \in (Keys \union {NoKey}) \ {storeKey} : Open(k)
    /\ UNCHANGED late

clearTerminalSession ==
    /\ storeKey # NoKey /\ Steps
    /\ pendingLines' = <<>> /\ allLines' = <<>> /\ flushTimer' = NoKey /\ persistTimer' = NoKey
    /\ writeStoredLines(storeKey, <<>>)
    /\ heard' = [heard EXCEPT ![storeKey] = <<>>]
    /\ UNCHANGED <<storeKey, waiting, late>>

\* The app ends; nothing is cleaned up.
Quit ==
    /\ Steps
    /\ storeKey' = NoKey /\ allLines' = <<>> /\ pendingLines' = <<>>
    /\ flushTimer' = NoKey /\ persistTimer' = NoKey /\ waiting' = {}
    /\ heard' = stored /\ missed' = {} /\ late' = FALSE
    /\ UNCHANGED stored

--------------------------------------------------------------------------------
\* handleStart and the other commands write a line now, and one when they are told.
Command ==
    /\ storeKey # NoKey /\ Steps /\ appendTerminalLine(storeKey)
    /\ waiting' = waiting \union {[of |-> storeKey, page |-> "open", lines |-> <<>>]}
    /\ UNCHANGED <<storeKey, allLines, persistTimer, stored, missed, late>>

CommandReports ==
    /\ Steps
    /\ \E w \in waiting :
          /\ waiting' = waiting \ {w}
          /\ late' = (late \/ w.page = "gone" \/ w.of # storeKey)
          /\ \/ /\ w.page = "open" /\ appendTerminalLine(w.of)
                /\ UNCHANGED <<allLines, persistTimer, stored, missed>>
             \/ /\ w.page = "gone"
                /\ writeStoredLines(w.of, Kept(Append(w.lines, [of |-> w.of, no |-> steps])))
                /\ UNCHANGED <<allLines, pendingLines, flushTimer, persistTimer, heard>>
    /\ UNCHANGED storeKey

TerminalNext ==
    \/ RuntimeLine \/ flushPendingLines \/ schedulePersist \/ Navigate
    \/ clearTerminalSession \/ Quit \/ Command \/ CommandReports

TerminalSpec == TerminalInit /\ [][TerminalNext]_terminalVars

--------------------------------------------------------------------------------
\* The console shows the last lines its server was given, and so will the console
\* of every other server once it is opened, whatever timers were pending when the
\* page turned; unless storage failed, or a command reported too late.
TerminalKeepsLines ==
    ~late =>
        /\ storeKey # NoKey => Kept(allLines \o pendingLines) = Kept(heard[storeKey])
        /\ \A k \in Keys \ ({storeKey} \union missed) : stored[k] = Kept(heard[k])

\* "Lines kept per server": none is stored under another one's key.
LinesKeptPerServer == \A k \in Keys : \A i \in DOMAIN stored[k] : stored[k][i].of = k
================================================================================
