------------------------------ MODULE HostingSetup ------------------------------
(* The guide to hosting: its slides and branches, the firewall step, the       *)
(* playit.gg account, the tunnel of the server picked, the addresses it shows, *)
(* and the friend's test. Every slide is mounted anew when it is reached; the  *)
(* calls of a slide that is gone run on. The tunnel's own life is ServerTunnel. *)
EXTENDS FiniteSets, Naturals, Sequences

CONSTANTS
    MaxMoves     \* clicks, and what the servers do by themselves (bound)

VARIABLES
    place, slide, path, port,   \* the page, the slide's index, the branch, the port set up
    seat,                       \* counts mounts
    acct, tun, ip, outcome,     \* what the mounted slide holds
    lookup, calls, wire,        \* the address lookup, the calls and the events on their way
    secret, claims,             \* the account on this install, and the claims being driven
    flag, agent, running,       \* the server's tunnel_enabled, its agent, and whether it runs
    rules, worked, taught, reached,   \* firewall rules, ports recorded, the guide done, a player got in
    moves

hostVars == <<place, slide, path, port, seat, acct, tun, ip, outcome, lookup, calls, wire, secret,
              claims, flag, agent, running, rules, worked, taught, reached, moves>>
Guide    == <<place, slide, path, port, seat>>
Mounted  == <<acct, tun, ip, outcome>>
Backend  == <<secret, claims, flag, agent, running, rules>>
Done     == <<worked, taught, reached>>

\* resolveSetupSteps.
SHARED_STEPS == <<"intro", "choose">>
BRANCH_STEPS == [tunnel |-> <<"tunnel-account", "tunnel-server">>,
                 forward |-> <<"forward-prereq", "forward-router", "forward-firewall",
                               "forward-address", "forward-start", "forward-test">>]
Steps(p) == IF p = "none" THEN SHARED_STEPS ELSE SHARED_STEPS \o BRANCH_STEPS[p]
StepAt(p, i) == IF i \in DOMAIN Steps(p) THEN Steps(p)[i] ELSE "blank"
Step  == StepAt(path, slide)
On(s) == place = "guide" /\ Step = s
isValidPort(p) == p \in 1 .. 65535

HasAccount(pl, s) == pl = "settings" \/ s = "tunnel-account"
HasTunnel(pl, s)  == pl = "guide" /\ s = "tunnel-server"
HasAddress(pl, s) == pl = "guide" /\ s \in {"forward-prereq", "forward-address", "forward-test"}

NewAcct == [claimed |-> "loading", status |-> "idle", url |-> FALSE, busy |-> FALSE]
NewTun  == [enabled |-> FALSE, status |-> "disabled", address |-> FALSE, busy |-> FALSE]

\* The guide was just opened, or stands where the forwarding steps have been skipped
\* as far as the address.
HostInit ==
    /\ place = "guide" /\ port = 25565 /\ seat = 0
    /\ \/ path = "none" /\ slide = 1 /\ lookup = "none"
       \/ path = "forward" /\ slide = 6 /\ lookup = "asked"
    /\ acct = NewAcct /\ tun = NewTun /\ ip = "loading" /\ outcome = "testing"
    /\ calls = {} /\ wire = <<>>
    /\ secret \in BOOLEAN /\ claims = {} /\ flag \in BOOLEAN /\ agent = "none" /\ running \in BOOLEAN
    /\ rules = {} /\ worked = {} /\ taught = FALSE /\ reached = FALSE /\ moves = 0

Spends == moves < MaxMoves /\ moves' = moves + 1

Ask(kind) == [kind |-> kind, seat |-> seat', at |-> "asked", on |-> FALSE, was |-> "none", port |-> 0]

\* The slide at i of branch p is mounted (or the Settings page's tunnel section):
\* it asks for what it shows.
Mount(pl, p, i, also) ==
    LET s == StepAt(p, i) IN
    /\ place' = pl /\ path' = p /\ slide' = i
    /\ IF place = pl /\ Step = s THEN UNCHANGED <<seat, Mounted, lookup>> /\ calls' = also
       ELSE /\ seat' = seat + 1
            /\ acct' = NewAcct /\ tun' = NewTun /\ ip' = "loading" /\ outcome' = "testing"
            /\ lookup' = IF HasAddress(pl, s) /\ lookup = "none" THEN "asked" ELSE lookup
            /\ calls' = also \cup (IF HasAccount(pl, s) THEN {Ask("status")} ELSE {})
                             \cup (IF HasTunnel(pl, s) THEN {Ask("tunnel")} ELSE {})

--------------------------------------------------------------------------------
(* The slides. *)

\* useSlideshow.
nextSlide == Mount("guide", path, slide + 1, calls)

Continues ==
    /\ place = "guide" /\ Spends
    /\ \/ Step \in {"intro", "forward-prereq", "forward-address"}
       \/ Step = "forward-router" /\ isValidPort(port)
       \/ Step = "forward-firewall"      \* "Skip step", or "Continue" past a port that worked
       \/ Step = "forward-start" /\ running
       \/ Step = "tunnel-account" /\ acct.claimed = "yes"
    /\ nextSlide
    /\ UNCHANGED <<port, wire, Backend, Done>>

prevSlide ==
    /\ place = "guide" /\ slide > 1 /\ Spends
    /\ Mount("guide", path, slide - 1, calls)
    /\ UNCHANGED <<port, wire, Backend, Done>>

choosePath(p) ==
    /\ place = "guide" /\ Spends
    /\ \/ Step = "choose"
       \/ Step \in {"forward-prereq", "forward-router", "forward-address"} /\ p = "tunnel"
       \/ Step = "forward-test" /\ outcome = "failed" /\ p = "tunnel"
    /\ Mount("guide", p, Len(SHARED_STEPS) + 1, calls)
    /\ UNCHANGED <<port, wire, Backend, Done>>

\* The guide's answers are lost with the page.
navigate ==
    /\ Spends
    /\ IF place = "guide" THEN Mount("settings", "none", 1, calls) ELSE Mount("guide", "none", 1, calls)
    /\ port' = 25565
    /\ UNCHANGED <<wire, Backend, Done>>

updatePort(p) ==
    /\ On("forward-router") /\ p # port /\ Spends /\ port' = p
    /\ UNCHANGED <<place, slide, path, seat, Mounted, lookup, calls, wire, Backend, Done>>

--------------------------------------------------------------------------------
(* The firewall step. *)

isSubmitting == \E c \in calls : c.kind = "firewall" /\ c.seat = seat

handleAllow ==
    /\ On("forward-firewall") /\ ~isSubmitting /\ isValidPort(port) /\ Spends
    /\ calls' = calls \cup {[kind |-> "firewall", seat |-> seat, at |-> "asked", on |-> FALSE,
                             was |-> "none", port |-> port]}
    /\ UNCHANGED <<Guide, Mounted, lookup, wire, Backend, Done>>

\* The rules are there, after the administrator's consent: the guide goes on by one
\* slide, wherever it is by now. The guide must still be open to go on.
Allowed(c) ==
    /\ c.kind = "firewall"
    /\ rules' = rules \cup {c.port}
    /\ IF place = "guide" THEN Mount("guide", path, slide + 1, calls \ {c})
       ELSE calls' = calls \ {c} /\ UNCHANGED <<place, slide, path, seat, Mounted, lookup>>
    /\ UNCHANGED <<port, wire, secret, claims, flag, agent, running, Done, moves>>

Refused(c) ==
    /\ c.kind = "firewall" /\ calls' = calls \ {c}
    /\ UNCHANGED <<Guide, Mounted, lookup, wire, Backend, Done, moves>>

--------------------------------------------------------------------------------
(* useIpAddress: one lookup for all slides, kept when it succeeded. *)

\* What a failed lookup leaves behind: the next slide asks again.
forgotten == "none"

LookupAnswered ==
    /\ lookup = "asked"
    /\ \E found \in BOOLEAN :
          /\ lookup' = IF found THEN "got" ELSE forgotten
          /\ ip' = IF HasAddress(place, Step) THEN (IF found THEN "known" ELSE "unavailable") ELSE ip
    /\ UNCHANGED <<Guide, acct, tun, outcome, calls, wire, Backend, Done, moves>>

\* A lookup that is there answers the slide at once.
LookupKept ==
    /\ lookup = "got" /\ HasAddress(place, Step) /\ ip = "loading" /\ ip' = "known"
    /\ UNCHANGED <<Guide, acct, tun, outcome, lookup, calls, wire, Backend, Done, moves>>

--------------------------------------------------------------------------------
(* usePlayitAccount, in the guide and on the Settings page. *)

AccountShown == HasAccount(place, Step)

connectAccount ==
    /\ AccountShown /\ acct.claimed = "no" /\ ~acct.busy /\ acct.status # "pending" /\ Spends
    /\ acct' = [acct EXCEPT !.busy = TRUE, !.status = "pending", !.url = FALSE]
    /\ calls' = calls \cup {[kind |-> "connect", seat |-> seat, at |-> "asked", on |-> FALSE,
                             was |-> "none", port |-> 0]}
    /\ UNCHANGED <<Guide, tun, ip, outcome, lookup, wire, Backend, Done>>

\* start_playit_claim: a task drives the claim, the answer is its address.
start_playit_claim(c) ==
    /\ c.kind = "connect" /\ c.at = "asked"
    /\ calls' = (calls \ {c}) \cup {[c EXCEPT !.at = "read"]}
    /\ \E n \in 1 .. 2 : n \notin {d.id : d \in claims} /\ claims' = claims \cup {[id |-> n, opened |-> FALSE]}
    /\ wire' = Append(wire, "pending")
    /\ UNCHANGED <<Guide, Mounted, lookup, secret, flag, agent, running, rules, Done, moves>>

\* The answer: the approval page is opened, or the browser refuses. Approval takes
\* the page, which takes the answer.
Connected(c) ==
    /\ c.kind = "connect" /\ c.at = "read" /\ calls' = calls \ {c}
    /\ \E opens \in BOOLEAN :
          /\ claims' = IF opens THEN {[d EXCEPT !.opened = TRUE] : d \in claims} ELSE claims
          /\ acct' = IF c.seat # seat THEN acct
                     ELSE [acct EXCEPT !.busy = FALSE, !.status = IF opens THEN "pending" ELSE "error",
                                       !.url = opens]
    /\ UNCHANGED <<Guide, tun, ip, outcome, lookup, wire, secret, flag, agent, running, rules, Done,
                   moves>>

\* drive_claim ends: approved and exchanged, rejected, not saved, or out of time. Each
\* takes a poll of playit.gg at least, and start_playit_claim has answered by then.
Tell(event) == wire' = Append(wire, event)

\* variant: a claim that runs out of time ends without a word
drive_claimSilently(d) ==
    /\ \/ d.opened /\ secret' = TRUE /\ Tell("claimed")
       \/ UNCHANGED <<secret, wire>>
    /\ \A c \in calls : c.kind # "connect"
    /\ claims' = claims \ {d}
    /\ UNCHANGED <<Guide, Mounted, lookup, calls, flag, agent, running, rules, Done, moves>>

drive_claim(d) ==
    /\ \/ d.opened /\ secret' = TRUE /\ Tell("claimed")
       \/ UNCHANGED secret /\ Tell("claimError")
    /\ \A c \in calls : c.kind # "connect"
    /\ claims' = claims \ {d}
    /\ UNCHANGED <<Guide, Mounted, lookup, calls, flag, agent, running, rules, Done, moves>>

\* On the Settings page.
disconnectAccount ==
    /\ place = "settings" /\ acct.claimed = "yes" /\ ~acct.busy /\ Spends
    /\ acct' = [NewAcct EXCEPT !.claimed = "no"] /\ secret' = FALSE
    /\ UNCHANGED <<Guide, tun, ip, outcome, lookup, calls, wire, claims, flag, agent, running, rules,
                   Done>>

get_playit_status(c) ==
    /\ c.kind = "status" /\ c.at = "asked"
    /\ calls' = (calls \ {c}) \cup {[c EXCEPT !.at = "read", !.on = secret]}
    /\ UNCHANGED <<Guide, Mounted, lookup, wire, Backend, Done, moves>>

StatusAnswered(c) ==
    /\ c.kind = "status" /\ c.at = "read" /\ calls' = calls \ {c}
    /\ acct' = IF c.seat # seat THEN acct ELSE [acct EXCEPT !.claimed = IF c.on THEN "yes" ELSE "no"]
    /\ UNCHANGED <<Guide, tun, ip, outcome, lookup, wire, Backend, Done, moves>>

--------------------------------------------------------------------------------
(* useServerTunnel, and the server behind it. *)

setEnabled(next) ==
    /\ On("tunnel-server") /\ ~tun.busy /\ next # tun.enabled /\ Spends
    /\ tun' = [tun EXCEPT !.busy = TRUE]
    /\ calls' = calls \cup {[kind |-> "set", seat |-> seat, at |-> "asked", on |-> next,
                             was |-> tun.status, port |-> 0]}
    /\ UNCHANGED <<Guide, acct, ip, outcome, lookup, wire, Backend, Done>>

\* launch_tunnel.
Launch(on) ==
    IF ~on THEN UNCHANGED <<agent, wire>>
    ELSE IF secret THEN agent' = "starting" /\ Tell("starting")
    ELSE UNCHANGED agent /\ Tell("error")

set_server_tunnel(c) ==
    /\ c.kind = "set" /\ c.at = "asked"
    /\ IF c.on /\ ~secret
       THEN calls' = (calls \ {c}) \cup {[c EXCEPT !.at = "failed"]} /\ UNCHANGED <<flag, agent, wire>>
       ELSE /\ calls' = (calls \ {c}) \cup {[c EXCEPT !.at = "read"]}
            /\ flag' = c.on
            /\ \/ c.on /\ running /\ agent # "up" /\ Launch(TRUE)
               \/ c.on /\ ~(running /\ agent # "up") /\ UNCHANGED <<agent, wire>>
               \/ ~c.on /\ agent = "up" /\ agent' = "none" /\ Tell("offline")
               \/ ~c.on /\ agent # "up" /\ UNCHANGED <<agent, wire>>
    /\ UNCHANGED <<Guide, Mounted, lookup, secret, claims, running, rules, Done, moves>>

SetAnswered(c) ==
    /\ c.kind = "set" /\ c.at \in {"read", "failed"} /\ calls' = calls \ {c}
    /\ tun' = IF c.seat # seat THEN tun
              ELSE IF c.at = "failed" THEN [tun EXCEPT !.busy = FALSE]
              ELSE [tun EXCEPT !.busy = FALSE, !.enabled = c.on,
                               !.status = IF ~c.on \/ c.was = "disabled" THEN "offline" ELSE @]
    /\ UNCHANGED <<Guide, acct, ip, outcome, lookup, wire, Backend, Done, moves>>

\* The snapshot of a tunnel that is coming up says "offline".
get_server_tunnel(c) ==
    /\ c.kind = "tunnel" /\ c.at = "asked"
    /\ calls' = (calls \ {c}) \cup {[c EXCEPT !.at = "read", !.on = flag,
                    !.was = IF agent = "up" THEN "online" ELSE IF flag THEN "offline" ELSE "disabled"]}
    /\ UNCHANGED <<Guide, Mounted, lookup, wire, Backend, Done, moves>>

TunnelAnswered(c) ==
    /\ c.kind = "tunnel" /\ c.at = "read" /\ calls' = calls \ {c}
    /\ tun' = IF c.seat # seat THEN tun
              ELSE [tun EXCEPT !.enabled = c.on, !.status = c.was, !.address = @ \/ c.was = "online"]
    /\ UNCHANGED <<Guide, acct, ip, outcome, lookup, wire, Backend, Done, moves>>

\* The agent is up, or it fails; the run it is for is still there.
AgentSettles ==
    /\ agent = "starting"
    /\ \/ agent' = "up" /\ reached' = TRUE /\ Tell("online")
       \/ agent' = "none" /\ UNCHANGED reached /\ Tell("error")
    /\ UNCHANGED <<Guide, Mounted, lookup, calls, secret, claims, flag, running, rules, worked, taught,
                   moves>>

\* useSetupStartServer: one start at a time, of a server that can start.
isStarting == \E c \in calls : c.kind = "start" /\ c.seat = seat

start ==
    /\ On("tunnel-server") \/ On("forward-start")
    /\ ~running /\ ~isStarting /\ Spends
    /\ calls' = calls \cup {[kind |-> "start", seat |-> seat, at |-> "asked", on |-> FALSE,
                             was |-> "none", port |-> 0]}
    /\ UNCHANGED <<Guide, Mounted, lookup, wire, Backend, Done>>

Started(c) ==
    /\ c.kind = "start" /\ calls' = calls \ {c}
    /\ \/ ~running /\ running' = TRUE /\ Launch(flag)
       \/ UNCHANGED <<running, agent, wire>>
    /\ UNCHANGED <<Guide, Mounted, lookup, secret, claims, flag, rules, Done, moves>>

ServerStops ==
    /\ running /\ Spends /\ running' = FALSE /\ agent' = "none" /\ Tell("offline")
    /\ UNCHANGED <<Guide, Mounted, lookup, calls, secret, claims, flag, rules, Done>>

\* The panel's effect on what it shows.
isShareable == tun.enabled /\ tun.status = "online" /\ tun.address

SharesAddress ==
    /\ On("tunnel-server") /\ isShareable /\ ~taught /\ taught' = TRUE
    /\ UNCHANGED <<Guide, Mounted, lookup, calls, wire, Backend, worked, reached, moves>>

--------------------------------------------------------------------------------
(* Events, heard by what is mounted. *)

Heard ==
    /\ wire # <<>> /\ wire' = Tail(wire)
    /\ LET event == Head(wire) IN
       /\ acct' = IF ~AccountShown \/ event \notin {"pending", "claimed", "claimError"} THEN acct
                  ELSE IF event = "claimed" THEN [acct EXCEPT !.status = "claimed", !.claimed = "yes"]
                  ELSE [acct EXCEPT !.status = IF event = "pending" THEN "pending" ELSE "error",
                                    !.url = event = "pending"]
       /\ tun' = IF ~On("tunnel-server") \/ event \notin {"starting", "online", "error", "offline"} THEN tun
                 ELSE [tun EXCEPT !.status = event, !.enabled = @ \/ event = "online",
                                  !.address = @ \/ event = "online"]
    /\ UNCHANGED <<Guide, ip, outcome, lookup, calls, Backend, Done, moves>>

--------------------------------------------------------------------------------
(* The friend's test. *)

setOutcome(o) ==
    /\ On("forward-test") /\ outcome # "worked" /\ outcome # o /\ Spends
    /\ outcome' = o
    /\ IF o = "worked"    \* handleWorked: the friend joined
       THEN taught' = TRUE /\ worked' = worked \cup {port} /\ reached' = TRUE
       ELSE UNCHANGED Done
    /\ UNCHANGED <<Guide, acct, tun, ip, lookup, calls, wire, Backend>>

HostNext ==
    \/ Continues \/ prevSlide \/ navigate
    \/ \E p \in {"tunnel", "forward"} : choosePath(p)
    \/ \E p \in {0, 25566} : updatePort(p)
    \/ handleAllow \/ LookupAnswered \/ LookupKept
    \/ connectAccount \/ disconnectAccount
    \/ \E on \in BOOLEAN : setEnabled(on)
    \/ \E c \in calls : \/ Allowed(c) \/ Refused(c) \/ start_playit_claim(c) \/ Connected(c)
                        \/ get_playit_status(c) \/ StatusAnswered(c)
                        \/ set_server_tunnel(c) \/ SetAnswered(c)
                        \/ get_server_tunnel(c) \/ TunnelAnswered(c) \/ Started(c)
    \/ \E d \in claims : drive_claim(d)
    \/ AgentSettles \/ start \/ ServerStops \/ SharesAddress \/ Heard
    \/ \E o \in {"testing", "failed", "worked"} : setOutcome(o)

HostSpec == HostInit /\ [][HostNext]_hostVars

--------------------------------------------------------------------------------
\* A spinner waits for something: an account being read for its answer, a connection
\* being approved for a claim someone drives or for its end, an address for its lookup
\* (use-playit-account.ts, playit.rs, use-ip-address.ts).
NothingSpinsAlone ==
    /\ AccountShown /\ acct.claimed = "loading"
          => (\E c \in calls : c.kind = "status" /\ c.seat = seat)
    /\ AccountShown /\ acct.status = "pending" /\ acct.claimed # "yes"
          => \/ claims # {}
             \/ \E c \in calls : c.kind = "connect" /\ c.seat = seat
             \/ \E i \in DOMAIN wire : wire[i] \in {"claimed", "claimError"}
    /\ HasAddress(place, Step) /\ ip = "loading" => lookup \in {"asked", "got"}

\* The guide counts as done only after a player could get in: a tunnel was up, or the
\* friend joined (SlideTunnelServer.tsx, SlideFriendTest.tsx).
TaughtMeansReached == taught => reached

\* Does not hold: the firewall's late answer takes the guide past its last slide, to a
\* blank page (SlideFirewall.tsx, Setup.tsx).
GuideShowsASlide == place = "guide" => Step # "blank"

\* Does not hold: a tunnel that failed is shown as starting by the next visit
\* (tunnel-settings-section.tsx: "an idle tunnel is about to start").
SpinningTunnelIsComing ==
    On("tunnel-server") /\ tun.enabled /\ ~tun.busy /\ running /\ tun.status \in {"starting", "offline"}
        => agent # "none" \/ wire # <<>> \/ calls # {}

\* Does not hold: the snapshot and the switch's answer overwrite newer events
\* (use-server-tunnel.ts).
TunnelShownIsTrue ==
    On("tunnel-server") /\ wire = <<>> /\ calls = {} => (tun.status = "online") = (agent = "up")

\* Does not hold: a claim that was left behind runs out of time after its successor
\* connected the account, and complains (use-playit-account.ts).
NoErrorOnceConnected == AccountShown /\ acct.status = "error" => acct.claimed # "yes"
================================================================================
