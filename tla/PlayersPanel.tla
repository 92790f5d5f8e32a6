------------------------------- MODULE PlayersPanel -------------------------------
(* The players panel of a server's page: one question to the server at a time, *)
(* asked on opening, every 15 s, when telemetry counts other players and after *)
(* each command, and a checkbox that shows the answer before it is there.      *)
EXTENDS FiniteSets, Naturals

CONSTANTS
    Servers,      \* directories of servers that are online
    MaxEvents     \* clicks, and what happens in the games (bound)

VARIABLES
    game,         \* per server, one player's standing and the rule keepInventory
    directory,    \* whose page is open
    data, error,  \* the last answer, and whether the last question failed
    keep,         \* the checkbox
    counted,      \* whether telemetry counts the player
    call, queued, \* the question in flight, and whether another one is due
    timers,       \* refreshes due after a command, by the directory they ask
    isSending, sent,    \* commands on their way
    banTarget,    \* the confirmation of a ban is open
    blind, undone,      \* the game changed since it was last read; a toggle was taken back
    events

panelVars == <<game, directory, data, error, keep, counted, call, queued, timers,
               isSending, sent, banTarget, blind, undone, events>>
Panel     == <<data, error, keep, counted, isSending, banTarget>>

None   == [of |-> "none"]
NoCall == [at |-> "none"]

\* Commands, by what they do; "say" stands for those that change nothing the panel
\* shows.
Toggles(a) == a \in {"keep-on", "keep-off"}
Toggled(a) == IF a = "keep-on" THEN "on" ELSE "off"

\* What the game makes of a command.
Obeys(g, a) ==
    CASE a = "op" -> [g EXCEPT !.op = TRUE]
      [] a = "deop" -> [g EXCEPT !.op = FALSE]
      [] a = "whitelist-add" -> [g EXCEPT !.white = TRUE]
      [] a = "kick" -> [g EXCEPT !.online = FALSE]
      [] a = "ban" -> [g EXCEPT !.online = FALSE, !.banned = TRUE]
      [] a = "pardon" -> [g EXCEPT !.banned = FALSE]
      [] Toggles(a) -> [g EXCEPT !.keep = Toggled(a)]
      [] a = "say" -> g

PanelInit ==
    /\ game = [d \in Servers |-> [online |-> d = CHOOSE s \in Servers : TRUE, op |-> FALSE,
                                  white |-> FALSE, banned |-> FALSE, keep |-> "off"]]
    /\ directory \in Servers
    /\ data = None /\ error = FALSE /\ keep = "unknown" /\ counted = game[directory].online
    /\ call = [at |-> "asked", dir |-> directory] /\ queued = FALSE /\ timers = {}
    /\ isSending = FALSE /\ sent = {} /\ banTarget = FALSE
    /\ blind = FALSE /\ undone = FALSE /\ events = 0

Spends == events < MaxEvents /\ events' = events + 1

--------------------------------------------------------------------------------
\* refresh as it was created for directory d.
refresh(d) ==
    IF call = NoCall THEN call' = [at |-> "asked", dir |-> d] /\ UNCHANGED queued
    ELSE queued' = TRUE /\ UNCHANGED call

get_online_players ==
    /\ call.at = "asked"
    /\ \E answer \in {"all", "noRule", "failed"} :
          call' = [at |-> "read", dir |-> call.dir, ok |-> answer # "failed",
                   got |-> IF answer = "all" THEN game[call.dir]
                           ELSE [game[call.dir] EXCEPT !.keep = "unknown"]]
    /\ blind' = (blind /\ call.dir # directory)
    /\ UNCHANGED <<game, directory, Panel, queued, timers, sent, undone, events>>

isCurrentAlways == TRUE    \* variant: shows whatever answer comes

\* An answer for a server the page has left is dropped.
isCurrent == call.dir = directory

Answered ==
    /\ call.at = "read"
    /\ IF isCurrent /\ call.ok
       THEN /\ data' = [of |-> call.dir, is |-> call.got] /\ error' = FALSE
            /\ keep' = call.got.keep /\ undone' = FALSE
       ELSE error' = (error \/ isCurrent) /\ UNCHANGED <<data, keep, undone>>
    /\ queued' = FALSE
    /\ call' = IF queued THEN [at |-> "asked", dir |-> directory] ELSE NoCall
    /\ UNCHANGED <<game, directory, counted, timers, isSending, sent, banTarget, blind, events>>

\* The page turns to another server without leaving the screen.
Switch ==
    /\ Spends /\ ~banTarget
    /\ \E d \in Servers \ {directory} : directory' = d /\ counted' = game[d].online /\ refresh(d)
    /\ data' = None /\ error' = FALSE /\ blind' = FALSE
    /\ keep' = IF data = None THEN keep ELSE "unknown"
    /\ UNCHANGED <<game, timers, isSending, sent, banTarget, undone>>

\* Another tab and back: what the old panel waits for no longer shows.
Reopen ==
    /\ Spends /\ ~banTarget
    /\ data' = None /\ error' = FALSE /\ keep' = "unknown" /\ counted' = game[directory].online
    /\ call' = [at |-> "asked", dir |-> directory] /\ queued' = FALSE /\ timers' = {}
    /\ sent' = {[s EXCEPT !.mine = FALSE] : s \in sent}
    /\ isSending' = FALSE /\ blind' = FALSE /\ undone' = FALSE
    /\ UNCHANGED <<game, directory, banTarget>>

Telemetry ==
    /\ counted # game[directory].online
    /\ counted' = game[directory].online /\ refresh(directory)
    /\ UNCHANGED <<game, directory, data, error, keep, timers, isSending, sent, banTarget,
                   blind, undone, events>>

Poll ==
    /\ Spends /\ refresh(directory)
    /\ UNCHANGED <<game, directory, Panel, timers, sent, blind, undone>>

AfterAction ==
    \E d \in timers :
        /\ timers' = timers \ {d} /\ refresh(d)
        /\ UNCHANGED <<game, directory, Panel, sent, blind, undone, events>>

--------------------------------------------------------------------------------
\* What a player's row and its menu offer, and the rest of the panel: the banned
\* players, the world's buttons, the checkbox and the message to everyone.
RowOffers ==
    {a \in {"op", "deop", "whitelist-add", "kick", "ban"} :
        /\ data # None /\ data.is.online
        /\ a = "op" => ~data.is.op
        /\ a = "deop" => data.is.op
        /\ a = "whitelist-add" => ~data.is.white}

PanelOffers ==
    {a \in {"pardon", "keep-on", "keep-off", "say"} :
        /\ a = "pardon" => data # None /\ data.is.banned
        /\ Toggles(a) =>
               data # None /\ data.is.keep # "unknown" /\ keep \notin {"unknown", Toggled(a)}}

send(a) ==
    /\ isSending' = TRUE
    /\ sent' = sent \union {[dir |-> directory, does |-> a, at |-> "sent", mine |-> TRUE,
                             previous |-> keep]}
    /\ keep' = IF Toggles(a) THEN Toggled(a) ELSE keep

handlePlayerAction ==
    /\ ~isSending /\ ~banTarget /\ Spends
    /\ \E a \in RowOffers \union PanelOffers :
          IF a = "ban" THEN banTarget' = TRUE /\ UNCHANGED <<isSending, sent, keep>>
          ELSE send(a) /\ UNCHANGED banTarget
    /\ UNCHANGED <<game, directory, data, error, counted, call, queued, timers, blind, undone>>

handleConfirmBan ==
    /\ banTarget /\ banTarget' = FALSE
    /\ send("ban") \/ UNCHANGED <<isSending, sent, keep>>
    /\ UNCHANGED <<game, directory, data, error, counted, call, queued, timers, blind,
                   undone, events>>

\* The game takes the command, or the sending fails.
send_server_command ==
    \E s \in sent :
        /\ s.at = "sent"
        /\ \/ /\ game' = [game EXCEPT ![s.dir] = Obeys(@, s.does)]
              /\ sent' = (sent \ {s}) \union {[s EXCEPT !.at = "ok"]}
              /\ blind' = (blind \/ (~s.mine /\ s.dir = directory))
           \/ /\ sent' = (sent \ {s}) \union {[s EXCEPT !.at = "failed"]}
              /\ UNCHANGED <<game, blind>>
        /\ UNCHANGED <<directory, Panel, call, queued, timers, undone, events>>

Replied ==
    \E s \in sent :
        /\ s.at # "sent" /\ sent' = sent \ {s}
        /\ isSending' = (isSending /\ ~s.mine)
        /\ timers' = IF s.mine /\ s.at = "ok" THEN timers \union {s.dir} ELSE timers
        /\ IF s.mine /\ s.at = "failed" /\ Toggles(s.does)
           THEN keep' = s.previous /\ undone' = TRUE
           ELSE UNCHANGED <<keep, undone>>
        /\ UNCHANGED <<game, directory, data, error, counted, call, queued, banTarget,
                       blind, events>>

--------------------------------------------------------------------------------
\* Players join and leave, which telemetry tells, unless the count is back before
\* it looks; the rest nobody tells.
GameChanges ==
    /\ Spends
    /\ \E d \in Servers :
          \/ /\ ~game[d].banned /\ game' = [game EXCEPT ![d].online = ~@]
             /\ blind' = (blind \/ (d = directory /\ game[d].online # counted))
          \/ /\ game' = [game EXCEPT ![d].keep = IF @ = "on" THEN "off" ELSE "on"]
             /\ blind' = (blind \/ d = directory)
    /\ UNCHANGED <<directory, Panel, call, queued, timers, sent, undone>>

PanelNext ==
    \/ get_online_players \/ Answered \/ Switch \/ Reopen \/ Telemetry \/ Poll \/ AfterAction
    \/ handlePlayerAction \/ handleConfirmBan \/ send_server_command \/ Replied \/ GameChanges

PanelSpec == PanelInit /\ [][PanelNext]_panelVars

--------------------------------------------------------------------------------
IsQuiet == call = NoCall /\ timers = {} /\ ~isSending /\ counted = game[directory].online

\* With no question in flight or due the panel shows this server as it is, unless
\* its last question failed or the game changed unheard of; the checkbox agrees,
\* unless a toggle was taken back since.
QuietPanelIsTrue ==
    IsQuiet =>
        /\ data # None => data.of = directory
        /\ ~error => data # None
        /\ ~error /\ ~blind => data.is \in {game[directory], [game[directory] EXCEPT !.keep = "unknown"]}
        /\ ~error /\ ~undone => keep = IF data = None THEN "unknown" ELSE data.is.keep

\* The checkbox shows what the server last said, after a failed toggle too.
ToggleIsTakenBack ==
    IsQuiet /\ ~error => keep = IF data = None THEN "unknown" ELSE data.is.keep
================================================================================
