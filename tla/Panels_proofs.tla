------------------------------ MODULE Panels_proofs ------------------------------
(***************************************************************************)
(* Proofs about the window's panels, for every bound: the guide to hosting   *)
(* waits for nothing in vain and is done only when a player got in; the      *)
(* players panel at rest is true and the console keeps its server's lines;   *)
(* what is offered fits what was asked; a fix of the settings check helps;   *)
(* a picked duration and a recommended limit are what they claim to be.      *)
(***************************************************************************)
EXTENDS MCPanels, SequenceTheorems, FiniteSetTheorems, WellFoundedInduction, TLAPS

AllVars == <<focus, playerVars, terminalVars, feedVars, updateVars, browserVars, modrinthVars,
             auditVars, motdVars, prefVars, hostVars, pickVars, adviceVars>>

--------------------------------------------------------------------------------
(* The guide to hosting.                                                        *)

TunnelStates == {"none", "disabled", "offline", "starting", "online", "error"}
Accounts  == [claimed : {"loading", "yes", "no"}, status : {"idle", "pending", "claimed", "error"},
              url : BOOLEAN, busy : BOOLEAN]
Tunnels   == [enabled : BOOLEAN, status : TunnelStates, address : BOOLEAN, busy : BOOLEAN]
HostCalls == [kind : {"firewall", "status", "connect", "tunnel", "set", "start"}, seat : Nat,
              at : {"asked", "read", "failed"}, on : BOOLEAN, was : TunnelStates, port : Nat]
Told      == {"pending", "claimed", "claimError", "starting", "online", "error", "offline"}

HostTypeOK ==
    /\ seat \in Nat /\ port \in Nat /\ acct \in Accounts /\ tun \in Tunnels
    /\ calls \subseteq HostCalls /\ wire \in Seq(Told)
    /\ lookup \in {"none", "asked", "got"} /\ secret \in BOOLEAN /\ flag \in BOOLEAN

Ends == {"claimed", "claimError"}
CallOfSeat(kind) == \E c \in calls : c.kind = kind /\ c.seat = seat

AccountIsRead    == Hosting!AccountShown /\ acct.claimed = "loading" => CallOfSeat("status")
ApprovalIsDriven ==
    Hosting!AccountShown /\ acct.status = "pending"
        => \/ claims # {} \/ CallOfSeat("connect")
           \/ \E i \in DOMAIN wire : wire[i] \in Ends
AddressIsLookedUp == Hosting!HasAddress(place, Hosting!Step) /\ ip = "loading" => lookup # "none"

\* A claim is driven until its connection was answered, and its end is told after it.
ConnectedIsDriven == (\E c \in calls : c.kind = "connect" /\ c.at = "read") => claims # {}
PendingEnds ==
    \A i \in DOMAIN wire : wire[i] = "pending"
        => claims # {} \/ \E j \in DOMAIN wire : j > i /\ wire[j] \in Ends

\* Whatever says that the tunnel is up was said once a player could get in.
UpMeansReached ==
    \/ taught \/ tun.address \/ agent = "up"
    \/ \E i \in DOMAIN wire : wire[i] = "online"
    \/ \E c \in calls : c.kind = "tunnel" /\ c.was = "online"
    => reached

HostInv ==
    /\ HostTypeOK /\ AccountIsRead /\ ApprovalIsDriven /\ AddressIsLookedUp
    /\ ConnectedIsDriven /\ PendingEnds /\ UpMeansReached

LEMMA HostStarts == Init => HostInv
<1> SUFFICES ASSUME Init PROVE HostInv
  OBVIOUS
<1>1. Hosting!HostInit
  BY DEF Init
<1>2. HostTypeOK
  BY <1>1 DEF Hosting!HostInit, HostTypeOK, Accounts, Tunnels, TunnelStates, Hosting!NewAcct, Hosting!NewTun
<1>3. ~Hosting!AccountShown /\ (lookup # "none" \/ ~Hosting!HasAddress(place, Hosting!Step))
  BY <1>1 DEF Hosting!HostInit, Hosting!AccountShown, Hosting!HasAccount, Hosting!HasAddress,
     Hosting!Step, Hosting!StepAt, Hosting!Steps, Hosting!SHARED_STEPS, Hosting!BRANCH_STEPS
<1> QED
  BY <1>1, <1>2, <1>3 DEF HostInv, Hosting!HostInit, AccountIsRead, ApprovalIsDriven,
     AddressIsLookedUp, ConnectedIsDriven, PendingEnds, UpMeansReached, Hosting!NewAcct, Hosting!NewTun

\* Where the guide goes by itself or is taken, what is under way but for an answered
\* request to the firewall runs on.
LEMMA MountKeeps ==
    ASSUME HostInv, NEW pl, NEW p, NEW i, NEW also, Hosting!Mount(pl, p, i, also),
           also \subseteq calls, \A c \in calls \ also : c.kind = "firewall",
           port' \in Nat, UNCHANGED <<wire, secret, claims, flag, agent, taught, reached>>
    PROVE  HostInv'
<1> DEFINE s == Hosting!StepAt(p, i)
<1>1. Hosting!Step' = s /\ place' = pl
  BY DEF Hosting!Mount, Hosting!Step
<1>2. Hosting!AccountShown' = Hosting!HasAccount(pl, s)
  BY <1>1 DEF Hosting!AccountShown, Hosting!HasAccount
<1>3. CASE place = pl /\ Hosting!Step = s
  <2>1. UNCHANGED <<seat, acct, tun, ip, outcome, lookup>> /\ calls' = also
    BY <1>3 DEF Hosting!Mount, Hosting!Mounted
  <2>2. Hosting!AccountShown' = Hosting!AccountShown
    BY <1>2, <1>3 DEF Hosting!AccountShown
  <2>3. \A k \in {"status", "connect"} : CallOfSeat(k) => CallOfSeat(k)'
    BY <2>1 DEF CallOfSeat
  <2> QED
    BY <2>1, <2>2, <2>3, <1>1, <1>3 DEF HostInv, HostTypeOK, AccountIsRead, ApprovalIsDriven,
       AddressIsLookedUp, Hosting!HasAddress, ConnectedIsDriven, PendingEnds, UpMeansReached
<1>4. CASE ~(place = pl /\ Hosting!Step = s)
  <2>1. /\ seat' = seat + 1 /\ acct' = Hosting!NewAcct /\ tun' = Hosting!NewTun
        /\ lookup' = IF Hosting!HasAddress(pl, s) /\ lookup = "none" THEN "asked" ELSE lookup
        /\ calls' = also \cup (IF Hosting!HasAccount(pl, s) THEN {Hosting!Ask("status")} ELSE {})
                         \cup (IF Hosting!HasTunnel(pl, s) THEN {Hosting!Ask("tunnel")} ELSE {})
    BY <1>4 DEF Hosting!Mount, Hosting!Mounted
  <2>2. \A k \in {"status", "tunnel"} : /\ Hosting!Ask(k) \in HostCalls /\ Hosting!Ask(k).was = "none"
                                         /\ Hosting!Ask(k).kind = k /\ Hosting!Ask(k).seat = seat'
    BY <2>1 DEF Hosting!Ask, HostCalls, TunnelStates, HostInv, HostTypeOK
  <2>3. HostTypeOK'
    BY <2>1, <2>2 DEF HostInv, HostTypeOK, Hosting!NewAcct, Hosting!NewTun, Accounts, Tunnels,
       TunnelStates
  <2>4. AccountIsRead' /\ ApprovalIsDriven'
    BY <2>1, <2>2, <1>2 DEF AccountIsRead, ApprovalIsDriven, CallOfSeat, Hosting!NewAcct
  <2>5. AddressIsLookedUp'
    BY <2>1, <1>1 DEF AddressIsLookedUp, Hosting!HasAddress
  <2>6. ConnectedIsDriven' /\ PendingEnds'
    BY <2>1, <2>2 DEF HostInv, ConnectedIsDriven, PendingEnds
  <2>7. UpMeansReached'
    BY <2>1, <2>2 DEF HostInv, UpMeansReached, Hosting!NewTun
  <2> QED
    BY <2>3, <2>4, <2>5, <2>6, <2>7 DEF HostInv
<1> QED BY <1>3, <1>4

\* A call that goes on, or ends, touches no other call.
LEMMA CallGoesOn ==
    ASSUME NEW c \in calls, NEW d, calls' = (calls \ {c}) \cup {d} \/ calls' = calls \ {c},
           d.kind = c.kind, d.seat = c.seat, UNCHANGED seat
    PROVE  /\ \A k : k # c.kind => (CallOfSeat(k)' <=> CallOfSeat(k))
           /\ c.seat # seat => \A k : CallOfSeat(k) => CallOfSeat(k)'
           /\ calls' = (calls \ {c}) \cup {d} => \A k : CallOfSeat(k) => CallOfSeat(k)'
BY DEF CallOfSeat

LEMMA GuideShown ==
    UNCHANGED <<place, slide, path>> =>
        /\ UNCHANGED Hosting!AccountShown
        /\ UNCHANGED Hosting!Step
        /\ UNCHANGED Hosting!HasAddress(place, Hosting!Step)
BY DEF Hosting!AccountShown, Hosting!HasAccount, Hosting!HasAddress, Hosting!Step, Hosting!StepAt

\* What is appended to what is told comes after it.
LEMMA TellKeeps ==
    ASSUME wire \in Seq(Told), NEW event \in Told, Hosting!Tell(event)
    PROVE  /\ wire' \in Seq(Told) /\ Len(wire') = Len(wire) + 1 /\ Len(wire) \in Nat
           /\ DOMAIN wire = 1..Len(wire) /\ DOMAIN wire' = 1..(Len(wire) + 1)
           /\ \A i \in DOMAIN wire : wire'[i] = wire[i]
           /\ wire'[Len(wire) + 1] = event
BY AppendProperties, LenProperties DEF Hosting!Tell

\* Most of what the guide does leaves the claims and what is told of them alone.
LEMMA NoNews ==
    ASSUME HostInv, UNCHANGED <<wire, claims>>
    PROVE  PendingEnds'
BY DEF HostInv, PendingEnds

LEMMA GuideMoves ==
    ASSUME HostInv,
           \/ Hosting!Continues \/ Hosting!prevSlide \/ Hosting!navigate
           \/ \E p \in {"tunnel", "forward"} : Hosting!choosePath(p)
           \/ \E p \in {0, 25566} : Hosting!updatePort(p)
           \/ \E c \in calls : Hosting!Allowed(c) \/ Hosting!Refused(c)
    PROVE  HostInv'
<1>0. port \in Nat /\ 25565 \in Nat
  BY DEF HostInv, HostTypeOK
<1>1. CASE Hosting!Continues
  BY <1>0, <1>1, MountKeeps DEF Hosting!Continues, Hosting!nextSlide, Hosting!Backend, Hosting!Done
<1>2. CASE Hosting!prevSlide
  BY <1>0, <1>2, MountKeeps DEF Hosting!prevSlide, Hosting!Backend, Hosting!Done
<1>3. CASE Hosting!navigate
  <2>1. /\ Hosting!Mount("settings", "none", 1, calls) \/ Hosting!Mount("guide", "none", 1, calls)
        /\ port' = 25565 /\ UNCHANGED <<wire, secret, claims, flag, agent, taught, reached>>
    BY <1>3 DEF Hosting!navigate, Hosting!Backend, Hosting!Done
  <2> QED BY <1>0, <2>1, MountKeeps
<1>4. CASE \E p \in {"tunnel", "forward"} : Hosting!choosePath(p)
  BY <1>0, <1>4, MountKeeps DEF Hosting!choosePath, Hosting!Backend, Hosting!Done
<1>5. CASE \E p \in {0, 25566} : Hosting!updatePort(p)
  <2>1. /\ port' \in Nat
        /\ UNCHANGED <<place, slide, path, seat, acct, tun, ip, lookup, calls, wire, secret,
                       claims, flag, agent, taught, reached>>
    BY <1>5 DEF Hosting!updatePort, Hosting!Mounted, Hosting!Backend, Hosting!Done
  <2> QED
    BY <2>1, GuideShown DEF HostInv, HostTypeOK, AccountIsRead, ApprovalIsDriven, CallOfSeat,
       AddressIsLookedUp, ConnectedIsDriven, PendingEnds, UpMeansReached
<1>6. ASSUME NEW c \in calls, Hosting!Allowed(c) PROVE HostInv'
  <2>1. /\ c.kind = "firewall" /\ port' = port
        /\ UNCHANGED <<wire, secret, claims, flag, agent, taught, reached>>
    BY <1>6 DEF Hosting!Allowed, Hosting!Done
  <2>2. CASE place = "guide"
    <3>1. Hosting!Mount("guide", path, slide + 1, calls \ {c})
      BY <1>6, <2>2 DEF Hosting!Allowed
    <3> QED BY <1>0, <2>1, <3>1, MountKeeps
  <2>3. CASE place # "guide"
    <3>1. calls' = calls \ {c} /\ UNCHANGED <<place, slide, path, seat, acct, tun, ip, lookup>>
      BY <1>6, <2>3 DEF Hosting!Allowed, Hosting!Mounted
    <3>2. \A k \in {"status", "connect"} : CallOfSeat(k) => CallOfSeat(k)'
      BY <2>1, <3>1 DEF CallOfSeat
    <3> QED
      BY <2>1, <3>1, <3>2, GuideShown DEF HostInv, HostTypeOK, AccountIsRead, ApprovalIsDriven,
         AddressIsLookedUp, ConnectedIsDriven, PendingEnds, UpMeansReached
  <2> QED BY <2>2, <2>3
<1>7. ASSUME NEW c \in calls, Hosting!Refused(c) PROVE HostInv'
  <2>1. /\ c.kind = "firewall" /\ calls' = calls \ {c}
        /\ UNCHANGED <<port, place, slide, path, seat, acct, tun, ip, lookup, wire, secret, claims,
                       flag, agent, taught, reached>>
    BY <1>7 DEF Hosting!Refused, Hosting!Guide, Hosting!Mounted, Hosting!Backend, Hosting!Done
  <2>2. \A k \in {"status", "connect"} : CallOfSeat(k) => CallOfSeat(k)'
    BY <2>1 DEF CallOfSeat
  <2> QED
    BY <2>1, <2>2, GuideShown DEF HostInv, HostTypeOK, AccountIsRead, ApprovalIsDriven,
       AddressIsLookedUp, ConnectedIsDriven, PendingEnds, UpMeansReached
<1> QED
  BY <1>1, <1>2, <1>3, <1>4, <1>5, <1>6, <1>7

\* A call of the mounted slide.
LEMMA CallBegins ==
    ASSUME HostInv, NEW k \in {"firewall", "connect", "set", "start"}, NEW on \in BOOLEAN,
           NEW was \in TunnelStates, NEW n \in Nat,
           calls' = calls \cup {[kind |-> k, seat |-> seat, at |-> "asked", on |-> on,
                                 was |-> was, port |-> n]},
           UNCHANGED <<place, slide, path, port, seat, ip, lookup, wire, secret, claims, flag, agent,
                       taught, reached>>,
           acct' \in Accounts, acct'.claimed = acct.claimed,
           acct'.status # acct.status => k = "connect",
           tun' \in Tunnels, tun'.address = tun.address
    PROVE  HostInv'
<1> DEFINE c == [kind |-> k, seat |-> seat, at |-> "asked", on |-> on, was |-> was, port |-> n]
<1>1. c \in HostCalls
  BY DEF HostInv, HostTypeOK, HostCalls
<1>2. /\ \A m : CallOfSeat(m) => CallOfSeat(m)'
      /\ k = "connect" => CallOfSeat("connect")'
  <2>1. c \in calls' /\ calls \subseteq calls' /\ c.kind = k /\ c.seat = seat /\ seat' = seat
    OBVIOUS
  <2> HIDE DEF c
  <2> QED BY <2>1 DEF CallOfSeat
<1>3. HostTypeOK'
  BY <1>1 DEF HostInv, HostTypeOK
<1>4. AccountIsRead' /\ AddressIsLookedUp'
  BY <1>2, GuideShown DEF HostInv, AccountIsRead, AddressIsLookedUp
<1>5. ApprovalIsDriven'
  BY <1>2, GuideShown DEF HostInv, ApprovalIsDriven
<1>6. ConnectedIsDriven' /\ PendingEnds' /\ UpMeansReached'
  BY DEF HostInv, ConnectedIsDriven, PendingEnds, UpMeansReached
<1> QED BY <1>3, <1>4, <1>5, <1>6 DEF HostInv

\* Everything the guide's promises are about.
HostKept == <<place, slide, path, seat, acct, tun, ip, lookup, calls, wire, secret, claims, flag,
          agent, taught, reached>>

LEMMA GuideAsks ==
    ASSUME HostInv,
           \/ Hosting!handleAllow \/ Hosting!connectAccount \/ Hosting!start
           \/ \E on \in BOOLEAN : Hosting!setEnabled(on)
    PROVE  HostInv'
<1>0. /\ acct \in Accounts /\ tun \in Tunnels /\ port \in Nat /\ 0 \in Nat /\ FALSE \in BOOLEAN
      /\ "none" \in TunnelStates
  BY DEF HostInv, HostTypeOK, TunnelStates
<1>1. CASE Hosting!handleAllow
  <2>1. /\ calls' = calls \cup {[kind |-> "firewall", seat |-> seat, at |-> "asked", on |-> FALSE,
                                 was |-> "none", port |-> port]}
        /\ UNCHANGED <<place, slide, path, port, seat, acct, tun, ip, lookup, wire, secret, claims,
                       flag, agent, taught, reached>>
    BY <1>1 DEF Hosting!handleAllow, Hosting!Guide, Hosting!Mounted, Hosting!Backend, Hosting!Done
  <2> QED BY <1>0, <2>1, CallBegins
<1>2. CASE Hosting!connectAccount
  <2>1. /\ calls' = calls \cup {[kind |-> "connect", seat |-> seat, at |-> "asked", on |-> FALSE,
                                 was |-> "none", port |-> 0]}
        /\ acct' = [acct EXCEPT !.busy = TRUE, !.status = "pending", !.url = FALSE]
        /\ UNCHANGED <<place, slide, path, port, seat, tun, ip, lookup, wire, secret, claims,
                       flag, agent, taught, reached>>
    BY <1>2 DEF Hosting!connectAccount, Hosting!Guide, Hosting!Backend, Hosting!Done
  <2>2. acct' \in Accounts /\ acct'.claimed = acct.claimed
    BY <1>0, <2>1 DEF Accounts
  <2> QED BY <1>0, <2>1, <2>2, CallBegins
<1>3. CASE Hosting!start
  <2>1. /\ calls' = calls \cup {[kind |-> "start", seat |-> seat, at |-> "asked", on |-> FALSE,
                                 was |-> "none", port |-> 0]}
        /\ UNCHANGED <<place, slide, path, port, seat, acct, tun, ip, lookup, wire, secret, claims,
                       flag, agent, taught, reached>>
    BY <1>3 DEF Hosting!start, Hosting!Guide, Hosting!Mounted, Hosting!Backend, Hosting!Done
  <2> QED BY <1>0, <2>1, CallBegins
<1>4. ASSUME NEW on \in BOOLEAN, Hosting!setEnabled(on) PROVE HostInv'
  <2>1. /\ calls' = calls \cup {[kind |-> "set", seat |-> seat, at |-> "asked", on |-> on,
                                 was |-> tun.status, port |-> 0]}
        /\ tun' = [tun EXCEPT !.busy = TRUE]
        /\ UNCHANGED <<place, slide, path, port, seat, acct, ip, lookup, wire, secret, claims,
                       flag, agent, taught, reached>>
    BY <1>4 DEF Hosting!setEnabled, Hosting!Guide, Hosting!Backend, Hosting!Done
  <2>2. tun' \in Tunnels /\ tun'.address = tun.address /\ tun.status \in TunnelStates
    BY <1>0, <2>1 DEF Tunnels
  <2> QED BY <1>0, <2>1, <2>2, CallBegins
<1> QED BY <1>1, <1>2, <1>3, <1>4

LEMMA GuideIsAnswered ==
    ASSUME HostInv,
           \/ Hosting!LookupAnswered \/ Hosting!LookupKept \/ Hosting!disconnectAccount
           \/ Hosting!SharesAddress
           \/ \E o \in {"testing", "failed", "worked"} : Hosting!setOutcome(o)
    PROVE  HostInv'
<1>1. CASE Hosting!LookupAnswered \/ Hosting!LookupKept
  <2>1. /\ lookup' \in {"none", "asked", "got"}
        /\ lookup = "got" => lookup' = "got"
        /\ Hosting!HasAddress(place, Hosting!Step) => ip' # "loading"
        /\ UNCHANGED <<place, slide, path, port, seat, acct, tun, calls, wire, secret, claims, flag,
                       agent, taught, reached>>
    BY <1>1 DEF Hosting!LookupAnswered, Hosting!LookupKept, Hosting!forgotten, Hosting!Guide,
       Hosting!Backend, Hosting!Done
  <2>2. HostTypeOK'
    BY <2>1 DEF HostInv, HostTypeOK
  <2>4. AddressIsLookedUp'
    <3>1. Hosting!HasAddress(place, Hosting!Step)' = Hosting!HasAddress(place, Hosting!Step)
      BY <2>1, GuideShown
    <3> QED BY <2>1, <3>1 DEF HostInv, AddressIsLookedUp
  <2>3. AccountIsRead' /\ ApprovalIsDriven'
    BY <2>1, GuideShown DEF HostInv, AccountIsRead, ApprovalIsDriven, CallOfSeat
  <2> QED
    BY <2>1, <2>2, <2>3, <2>4 DEF HostInv, ConnectedIsDriven, PendingEnds, UpMeansReached
<1>2. CASE Hosting!disconnectAccount
  <2>1. /\ acct' = [claimed |-> "no", status |-> "idle", url |-> FALSE, busy |-> FALSE]
        /\ secret' = FALSE
        /\ UNCHANGED <<place, slide, path, port, seat, tun, ip, lookup, calls, wire, claims, flag,
                       agent, taught, reached>>
    BY <1>2 DEF Hosting!disconnectAccount, Hosting!NewAcct, Hosting!Guide, Hosting!Done
  <2>2. acct' \in Accounts /\ acct'.claimed = "no" /\ acct'.status = "idle"
    BY <2>1 DEF Accounts
  <2> QED
    BY <2>1, <2>2, GuideShown DEF HostInv, HostTypeOK, AccountIsRead, ApprovalIsDriven,
       AddressIsLookedUp, ConnectedIsDriven, PendingEnds, UpMeansReached
<1>3. CASE Hosting!SharesAddress \/ \E o \in {"testing", "failed", "worked"} : Hosting!setOutcome(o)
  <2>1. /\ UNCHANGED <<place, slide, path, port, seat, acct, tun, ip, lookup, calls, wire, secret,
                       claims, flag, agent>>
        /\ \/ taught' /\ tun.address /\ reached' = reached
           \/ reached'
           \/ UNCHANGED <<taught, reached>>
    BY <1>3 DEF Hosting!SharesAddress, Hosting!isShareable, Hosting!setOutcome, Hosting!Guide,
       Hosting!Mounted, Hosting!Backend, Hosting!Done
  <2>2. UpMeansReached'
    BY <2>1 DEF HostInv, UpMeansReached
  <2> QED
    BY <2>1, <2>2, GuideShown DEF HostInv, HostTypeOK, AccountIsRead, ApprovalIsDriven, CallOfSeat,
       AddressIsLookedUp, ConnectedIsDriven, PendingEnds
<1> QED BY <1>1, <1>2, <1>3

LEMMA AccountCalls ==
    ASSUME HostInv, NEW c \in calls,
           \/ Hosting!start_playit_claim(c) \/ Hosting!Connected(c)
           \/ Hosting!get_playit_status(c) \/ Hosting!StatusAnswered(c)
    PROVE  HostInv'
<1>0. /\ c \in HostCalls /\ acct \in Accounts /\ "pending" \in Told
      /\ HostTypeOK /\ wire \in Seq(Told) /\ secret \in BOOLEAN
  BY DEF HostInv, HostTypeOK, Told
<1>1. CASE Hosting!start_playit_claim(c)
  <2> DEFINE d == [c EXCEPT !.at = "read"]
  <2>1. /\ c.kind = "connect" /\ calls' = (calls \ {c}) \cup {d} /\ claims' # {}
        /\ Hosting!Tell("pending")
        /\ UNCHANGED <<place, slide, path, port, seat, acct, tun, ip, lookup, secret, flag, agent,
                       taught, reached>>
    BY <1>1 DEF Hosting!start_playit_claim, Hosting!Tell, Hosting!Guide, Hosting!Mounted, Hosting!Done
  <2>2. d \in HostCalls /\ d.kind = c.kind /\ d.seat = c.seat /\ d.was = c.was
    BY <1>0 DEF HostCalls
  <2>3. \A k : CallOfSeat(k) => CallOfSeat(k)'
    BY <2>1, <2>2, CallGoesOn
  <2>4. HostTypeOK'
    BY <1>0, <2>1, <2>2, TellKeeps DEF HostTypeOK
  <2>5. UpMeansReached'
    <3>1. \A i \in DOMAIN wire' : wire'[i] = "online" => \E j \in DOMAIN wire : wire[j] = "online"
      BY <1>0, <2>1, TellKeeps
    <3>2. \A e \in calls' : e.kind = "tunnel" => e \in calls
      BY <2>1, <2>2
    <3> QED BY <2>1, <3>1, <3>2 DEF HostInv, UpMeansReached
  <2> QED
    BY <2>1, <2>3, <2>4, <2>5, GuideShown DEF HostInv, AccountIsRead, ApprovalIsDriven,
       AddressIsLookedUp, ConnectedIsDriven, PendingEnds
<1>2. CASE Hosting!Connected(c)
  <2>1. /\ c.kind = "connect" /\ c.at = "read" /\ calls' = calls \ {c}
        /\ claims' # {}
        /\ \/ c.seat # seat /\ acct' = acct
           \/ c.seat = seat /\ \E opens \in BOOLEAN : acct' = [acct EXCEPT !.busy = FALSE,
                 !.status = IF opens THEN "pending" ELSE "error", !.url = opens]
        /\ UNCHANGED <<place, slide, path, port, seat, tun, ip, lookup, wire, secret, flag, agent,
                       taught, reached>>
    <3>1. claims # {}
      BY <1>2 DEF HostInv, ConnectedIsDriven, Hosting!Connected
    <3>2. PICK opens \in BOOLEAN :
            /\ claims' = IF opens THEN {[e EXCEPT !.opened = TRUE] : e \in claims} ELSE claims
            /\ acct' = IF c.seat # seat THEN acct
                       ELSE [acct EXCEPT !.busy = FALSE, !.status = IF opens THEN "pending" ELSE "error",
                                         !.url = opens]
      BY <1>2 DEF Hosting!Connected
    <3>3. claims' # {}
      BY <3>1, <3>2
    <3> QED BY <1>2, <3>2, <3>3 DEF Hosting!Connected, Hosting!Guide, Hosting!Done
  <2>2. acct' \in Accounts /\ acct'.claimed = acct.claimed
    BY <1>0, <2>1 DEF Accounts
  <2>3. \A k : k # "connect" => (CallOfSeat(k) => CallOfSeat(k)')
    BY <2>1, CallGoesOn
  <2>4. HostTypeOK'
    BY <1>0, <2>1, <2>2 DEF HostTypeOK
  <2>5. AccountIsRead' /\ AddressIsLookedUp'
    <3>1. CallOfSeat("status") => CallOfSeat("status")'
      BY <2>3
    <3>2. AccountIsRead'
      BY <2>1, <2>2, <3>1, GuideShown DEF HostInv, AccountIsRead
    <3>3. AddressIsLookedUp'
      BY <2>1, GuideShown DEF HostInv, AddressIsLookedUp
    <3> QED BY <3>2, <3>3
  <2>6. ApprovalIsDriven' /\ ConnectedIsDriven' /\ PendingEnds'
    BY <2>1 DEF ApprovalIsDriven, ConnectedIsDriven, PendingEnds
  <2>7. UpMeansReached'
    BY <2>1 DEF HostInv, UpMeansReached
  <2> QED BY <2>4, <2>5, <2>6, <2>7 DEF HostInv
<1>3. CASE Hosting!get_playit_status(c)
  <2> DEFINE d == [c EXCEPT !.at = "read", !.on = secret]
  <2>1. /\ c.kind = "status" /\ calls' = (calls \ {c}) \cup {d}
        /\ UNCHANGED <<place, slide, path, port, seat, acct, tun, ip, lookup, wire, secret, claims,
                       flag, agent, taught, reached>>
    BY <1>3 DEF Hosting!get_playit_status, Hosting!Guide, Hosting!Mounted, Hosting!Backend, Hosting!Done
  <2>2. d \in HostCalls /\ d.kind = c.kind /\ d.seat = c.seat
    BY <1>0 DEF HostCalls
  <2>3. \A k : CallOfSeat(k) => CallOfSeat(k)'
    BY <2>1, <2>2, CallGoesOn
  <2>4. HostTypeOK'
    BY <1>0, <2>1, <2>2 DEF HostTypeOK
  <2>5. ConnectedIsDriven' /\ UpMeansReached'
    BY <2>1, <2>2 DEF HostInv, ConnectedIsDriven, UpMeansReached
  <2> QED
    BY <2>1, <2>3, <2>4, <2>5, GuideShown DEF HostInv, AccountIsRead, ApprovalIsDriven,
       AddressIsLookedUp, PendingEnds
<1>4. CASE Hosting!StatusAnswered(c)
  <2>1. /\ c.kind = "status" /\ calls' = calls \ {c}
        /\ acct' = IF c.seat # seat THEN acct
                   ELSE [acct EXCEPT !.claimed = IF c.on THEN "yes" ELSE "no"]
        /\ UNCHANGED <<place, slide, path, port, seat, tun, ip, lookup, wire, secret, claims,
                       flag, agent, taught, reached>>
    BY <1>4 DEF Hosting!StatusAnswered, Hosting!Guide, Hosting!Backend, Hosting!Done
  <2>2. /\ acct' \in Accounts /\ acct'.status = acct.status
        /\ c.seat = seat => acct'.claimed # "loading"
    BY <1>0, <2>1 DEF Accounts
  <2>3. /\ \A k : k # "status" => (CallOfSeat(k) => CallOfSeat(k)')
        /\ c.seat # seat => \A k : CallOfSeat(k) => CallOfSeat(k)'
    BY <2>1, CallGoesOn
  <2>4. HostTypeOK'
    BY <1>0, <2>1, <2>2 DEF HostTypeOK
  <2>5. AccountIsRead' /\ ApprovalIsDriven'
    BY <2>1, <2>2, <2>3, GuideShown DEF HostInv, AccountIsRead, ApprovalIsDriven
  <2> QED
    BY <2>1, <2>4, <2>5, GuideShown DEF HostInv, AddressIsLookedUp, ConnectedIsDriven,
       PendingEnds, UpMeansReached
<1> QED BY <1>1, <1>2, <1>3, <1>4

LEMMA TunnelCalls ==
    ASSUME HostInv, NEW c \in calls,
           \/ Hosting!set_server_tunnel(c) \/ Hosting!SetAnswered(c)
           \/ Hosting!get_server_tunnel(c) \/ Hosting!TunnelAnswered(c) \/ Hosting!Started(c)
    PROVE  HostInv'
<1>0. /\ c \in HostCalls /\ tun \in Tunnels /\ {"starting", "error", "offline"} \subseteq Told
      /\ HostTypeOK /\ wire \in Seq(Told) /\ flag \in BOOLEAN
  BY DEF HostInv, HostTypeOK, Told
<1>1. CASE Hosting!set_server_tunnel(c) \/ Hosting!Started(c)
  <2>1. /\ c.kind \in {"set", "start"}
        /\ \/ calls' = calls \ {c}
           \/ \E at \in {"failed", "read"} : calls' = (calls \ {c}) \cup {[c EXCEPT !.at = at]}
        /\ flag' \in BOOLEAN
        /\ UNCHANGED <<place, slide, path, port, seat, acct, tun, ip, lookup, secret, claims,
                       taught, reached>>
    BY <1>0, <1>1 DEF Hosting!set_server_tunnel, Hosting!Started, Hosting!Guide, Hosting!Mounted,
       Hosting!Done, HostCalls
  <2>2. PICK e \in {"starting", "error", "offline"} : UNCHANGED wire \/ Hosting!Tell(e)
    BY <1>1 DEF Hosting!set_server_tunnel, Hosting!Started, Hosting!Launch
  <2>3. agent' = "up" => agent = "up"
    BY <1>1 DEF Hosting!set_server_tunnel, Hosting!Started, Hosting!Launch
  <2>4. \A d \in calls' : d \in calls \/ (d \in HostCalls /\ d.kind \in {"set", "start"})
    BY <1>0, <2>1 DEF HostCalls
  <2>5. \A k \in {"status", "connect"} : CallOfSeat(k) => CallOfSeat(k)'
    BY <2>1 DEF CallOfSeat
  <2>6. /\ wire' \in Seq(Told) /\ Len(wire) \in Nat /\ DOMAIN wire = 1..Len(wire)
        /\ \A i \in DOMAIN wire : i \in DOMAIN wire' /\ wire'[i] = wire[i]
        /\ \A i \in DOMAIN wire' : i \in DOMAIN wire \/ wire'[i] = e
    BY <1>0, <2>2, TellKeeps, LenProperties
  <2>7. HostTypeOK'
    BY <1>0, <2>1, <2>4, <2>6 DEF HostTypeOK
  <2>8. AccountIsRead' /\ AddressIsLookedUp'
    BY <2>1, <2>5, GuideShown DEF HostInv, AccountIsRead, AddressIsLookedUp
  <2>9. ApprovalIsDriven'
    BY <2>1, <2>5, <2>6, GuideShown DEF HostInv, ApprovalIsDriven
  <2>10. ConnectedIsDriven'
    BY <2>1, <2>4 DEF HostInv, ConnectedIsDriven
  <2>11. PendingEnds'
    BY <2>1, <2>6 DEF HostInv, PendingEnds
  <2>12. UpMeansReached'
    BY <2>1, <2>3, <2>4, <2>6 DEF HostInv, UpMeansReached
  <2> QED BY <2>7, <2>8, <2>9, <2>10, <2>11, <2>12 DEF HostInv
<1>2. CASE Hosting!SetAnswered(c) \/ Hosting!TunnelAnswered(c)
  <2>1. /\ c.kind \in {"set", "tunnel"} /\ calls' = calls \ {c}
        /\ UNCHANGED <<place, slide, path, port, seat, acct, ip, lookup, wire, secret, claims, flag,
                       agent, taught, reached>>
    BY <1>2 DEF Hosting!SetAnswered, Hosting!TunnelAnswered, Hosting!Guide, Hosting!Backend, Hosting!Done
  <2>2. /\ tun' \in Tunnels
        /\ tun'.address => tun.address \/ (c.kind = "tunnel" /\ c.was = "online")
    <3>1. CASE Hosting!SetAnswered(c)
      BY <1>0, <3>1 DEF Hosting!SetAnswered, HostCalls, Tunnels, TunnelStates
    <3>2. CASE Hosting!TunnelAnswered(c)
      BY <1>0, <3>2 DEF Hosting!TunnelAnswered, HostCalls, Tunnels
    <3> QED BY <1>2, <3>1, <3>2
  <2>3. \A k \in {"status", "connect"} : CallOfSeat(k) => CallOfSeat(k)'
    BY <2>1 DEF CallOfSeat
  <2>4. HostTypeOK'
    BY <1>0, <2>1, <2>2 DEF HostTypeOK
  <2>5. AccountIsRead' /\ ApprovalIsDriven' /\ AddressIsLookedUp'
    BY <2>1, <2>3, GuideShown DEF HostInv, AccountIsRead, ApprovalIsDriven, AddressIsLookedUp
  <2>6. ConnectedIsDriven' /\ PendingEnds'
    BY <2>1 DEF HostInv, ConnectedIsDriven, PendingEnds
  <2>7. UpMeansReached'
    BY <2>1, <2>2 DEF HostInv, UpMeansReached
  <2> QED BY <2>4, <2>5, <2>6, <2>7 DEF HostInv
<1>3. CASE Hosting!get_server_tunnel(c)
  <2> DEFINE w == IF agent = "up" THEN "online" ELSE IF flag THEN "offline" ELSE "disabled"
             d == [c EXCEPT !.at = "read", !.on = flag, !.was = w]
  <2>1. /\ c.kind = "tunnel" /\ calls' = (calls \ {c}) \cup {d}
        /\ UNCHANGED <<place, slide, path, port, seat, acct, tun, ip, lookup, wire, secret, claims,
                       flag, agent, taught, reached>>
    BY <1>3 DEF Hosting!get_server_tunnel, Hosting!Guide, Hosting!Mounted, Hosting!Backend, Hosting!Done
  <2>2. d \in HostCalls /\ d.kind = c.kind /\ d.seat = c.seat /\ d.was = w
    BY <1>0 DEF HostCalls, TunnelStates
  <2>3. \A k : CallOfSeat(k) => CallOfSeat(k)'
    BY <2>1, <2>2, CallGoesOn
  <2>4. HostTypeOK'
    BY <1>0, <2>1, <2>2 DEF HostTypeOK
  <2>5. ConnectedIsDriven' /\ PendingEnds'
    BY <2>1, <2>2 DEF HostInv, ConnectedIsDriven, PendingEnds
  <2>6. UpMeansReached'
    <3>1. \A e \in calls' : e \in calls \/ e = d
      BY <2>1
    <3>2. d.was = "online" => agent = "up"
      BY <2>2
    <3> HIDE DEF d
    <3> QED BY <2>1, <3>1, <3>2 DEF HostInv, UpMeansReached
  <2> QED
    BY <2>1, <2>3, <2>4, <2>5, <2>6, GuideShown DEF HostInv, AccountIsRead, ApprovalIsDriven,
       AddressIsLookedUp
<1> QED BY <1>1, <1>2, <1>3

LEMMA BackendActs ==
    ASSUME HostInv,
           (\E d \in claims : Hosting!drive_claim(d)) \/ Hosting!AgentSettles \/ Hosting!ServerStops
    PROVE  HostInv'
<1>0. HostTypeOK /\ wire \in Seq(Told) /\ {"claimed", "claimError", "online", "error", "offline"} \subseteq Told
  BY DEF HostInv, HostTypeOK, Told
<1>1. ASSUME NEW d \in claims, Hosting!drive_claim(d) PROVE HostInv'
  <2>1. PICK e \in Ends : Hosting!Tell(e)
    BY <1>1 DEF Hosting!drive_claim, Ends
  <2>2. /\ \A c \in calls : c.kind # "connect"
        /\ UNCHANGED <<place, slide, path, port, seat, acct, tun, ip, lookup, calls, flag, agent,
                       taught, reached>>
        /\ secret' \in BOOLEAN
    BY <1>0, <1>1 DEF Hosting!drive_claim, Hosting!Guide, Hosting!Mounted, Hosting!Done, HostTypeOK
  <2>3. /\ wire' \in Seq(Told) /\ Len(wire) \in Nat /\ DOMAIN wire = 1..Len(wire)
        /\ DOMAIN wire' = 1..(Len(wire) + 1)
        /\ \A i \in DOMAIN wire : wire'[i] = wire[i]
        /\ wire'[Len(wire) + 1] = e
    BY <1>0, <2>1, TellKeeps DEF Ends
  <2>4. Len(wire) + 1 \in DOMAIN wire' /\ wire'[Len(wire) + 1] \in Ends
    BY <2>3
  <2>5. HostTypeOK' /\ ApprovalIsDriven' /\ ConnectedIsDriven'
    BY <1>0, <2>2, <2>3, <2>4 DEF HostTypeOK, ApprovalIsDriven, ConnectedIsDriven
  <2>6. PendingEnds'
    <3> SUFFICES ASSUME NEW i \in DOMAIN wire', wire'[i] = "pending"
                 PROVE  \E j \in DOMAIN wire' : j > i /\ wire'[j] \in Ends
      BY DEF PendingEnds
    <3>1. i # Len(wire) + 1
      BY <2>4 DEF Ends
    <3> QED BY <2>3, <2>4, <3>1
  <2>7. AccountIsRead' /\ AddressIsLookedUp'
    BY <2>2, GuideShown DEF HostInv, AccountIsRead, AddressIsLookedUp, CallOfSeat
  <2>8. UpMeansReached'
    BY <2>1, <2>2, <2>3 DEF HostInv, UpMeansReached, Ends
  <2> QED BY <2>5, <2>6, <2>7, <2>8 DEF HostInv
<1>2. CASE Hosting!AgentSettles \/ Hosting!ServerStops
  <2>1. /\ UNCHANGED <<place, slide, path, port, seat, acct, tun, ip, lookup, calls, secret, claims,
                       flag, taught>>
        /\ \E e \in {"online", "error", "offline"} :
              /\ Hosting!Tell(e)
              /\ \/ e = "online" /\ reached'
                 \/ e # "online" /\ agent' = "none" /\ reached' = reached
    BY <1>2 DEF Hosting!AgentSettles, Hosting!ServerStops, Hosting!Guide, Hosting!Mounted, Hosting!Done
  <2>2. PICK e \in {"online", "error", "offline"} :
              /\ Hosting!Tell(e)
              /\ \/ e = "online" /\ reached'
                 \/ e # "online" /\ agent' = "none" /\ reached' = reached
    BY <2>1
  <2>3. /\ wire' \in Seq(Told) /\ Len(wire) \in Nat /\ DOMAIN wire = 1..Len(wire)
        /\ \A i \in DOMAIN wire : i \in DOMAIN wire' /\ wire'[i] = wire[i]
        /\ \A i \in DOMAIN wire' : i \in DOMAIN wire \/ wire'[i] = e
    BY <1>0, <2>2, TellKeeps
  <2>4. HostTypeOK' /\ ConnectedIsDriven'
    BY <1>0, <2>1, <2>3 DEF HostInv, HostTypeOK, ConnectedIsDriven
  <2>5. ApprovalIsDriven' /\ PendingEnds'
    BY <2>1, <2>2, <2>3, GuideShown DEF HostInv, ApprovalIsDriven, PendingEnds, CallOfSeat
  <2>6. AccountIsRead' /\ AddressIsLookedUp'
    BY <2>1, GuideShown DEF HostInv, AccountIsRead, AddressIsLookedUp, CallOfSeat
  <2>7. UpMeansReached'
    BY <2>1, <2>2, <2>3 DEF HostInv, UpMeansReached
  <2> QED BY <2>4, <2>5, <2>6, <2>7 DEF HostInv
<1> QED BY <1>1, <1>2

LEMMA GuideHears == HostInv /\ Hosting!Heard => HostInv'
<1> SUFFICES ASSUME HostInv, Hosting!Heard PROVE HostInv'
  OBVIOUS
<1> DEFINE event == Head(wire)
<1>0. HostTypeOK /\ wire \in Seq(Told) /\ wire # <<>> /\ acct \in Accounts /\ tun \in Tunnels
  BY DEF HostInv, HostTypeOK, Hosting!Heard
<1>1. /\ wire' \in Seq(Told) /\ event \in Told /\ event = wire[1] /\ 1 \in DOMAIN wire
      /\ DOMAIN wire' = 1..(Len(wire) - 1) /\ DOMAIN wire = 1..Len(wire) /\ Len(wire) \in Nat
      /\ \A i \in DOMAIN wire' : wire'[i] = wire[i + 1]
  BY <1>0, HeadTailProperties, LenProperties DEF Hosting!Heard
<1>2. UNCHANGED <<place, slide, path, port, seat, ip, lookup, calls, secret, claims, flag, agent,
                  taught, reached>>
  BY DEF Hosting!Heard, Hosting!Guide, Hosting!Backend, Hosting!Done
<1>3. /\ acct' \in Accounts
      /\ acct'.claimed = "loading" => acct.claimed = "loading"
      /\ Hosting!AccountShown /\ acct'.status = "pending" =>
            event = "pending" \/ (event \notin Ends /\ acct.status = "pending")
  BY <1>0, <1>1 DEF Hosting!Heard, Accounts, Ends, Told
<1>4. tun' \in Tunnels /\ (tun'.address => tun.address \/ event = "online")
  BY <1>0, <1>1 DEF Hosting!Heard, Tunnels, TunnelStates, Told
<1>5. HostTypeOK' /\ ConnectedIsDriven'
  BY <1>0, <1>1, <1>2, <1>3, <1>4 DEF HostInv, HostTypeOK, ConnectedIsDriven
<1>6. AccountIsRead' /\ AddressIsLookedUp'
  BY <1>2, <1>3, GuideShown DEF HostInv, AccountIsRead, AddressIsLookedUp, CallOfSeat
<1>7. \A i \in DOMAIN wire : i > 1 => i - 1 \in DOMAIN wire' /\ wire'[i - 1] = wire[i]
  BY <1>1
<1>8. ApprovalIsDriven'
  <2> SUFFICES ASSUME Hosting!AccountShown, acct'.status = "pending", claims = {},
                      ~CallOfSeat("connect")
               PROVE  \E i \in DOMAIN wire' : wire'[i] \in Ends
    BY <1>2, GuideShown DEF ApprovalIsDriven, CallOfSeat
  <2>1. CASE event = "pending"
    <3>1. PICK j \in DOMAIN wire : j > 1 /\ wire[j] \in Ends
      BY <1>1, <2>1 DEF HostInv, PendingEnds
    <3> QED BY <3>1, <1>7
  <2>2. CASE event \notin Ends /\ acct.status = "pending"
    <3>1. PICK j \in DOMAIN wire : wire[j] \in Ends
      BY <2>2 DEF HostInv, ApprovalIsDriven
    <3>2. j > 1
      BY <3>1, <1>1, <2>2
    <3> QED BY <3>1, <3>2, <1>7
  <2> QED BY <1>3, <2>1, <2>2
<1>9. PendingEnds'
  <2> SUFFICES ASSUME NEW i \in DOMAIN wire', wire'[i] = "pending", claims = {}
               PROVE  \E j \in DOMAIN wire' : j > i /\ wire'[j] \in Ends
    BY <1>2 DEF PendingEnds
  <2>1. i + 1 \in DOMAIN wire /\ wire[i + 1] = "pending"
    BY <1>1
  <2>2. PICK j \in DOMAIN wire : j > i + 1 /\ wire[j] \in Ends
    BY <2>1 DEF HostInv, PendingEnds
  <2> QED BY <2>2, <1>1, <1>7
<1>10. UpMeansReached'
  <2>1. \A i \in DOMAIN wire' : i + 1 \in DOMAIN wire /\ wire'[i] = wire[i + 1]
    BY <1>1
  <2> QED BY <1>1, <1>2, <1>4, <2>1 DEF HostInv, UpMeansReached
<1> QED BY <1>5, <1>6, <1>8, <1>9, <1>10 DEF HostInv

LEMMA HostSteps == HostInv /\ [Next]_AllVars => HostInv'
<1> SUFFICES ASSUME HostInv, [Next]_AllVars PROVE HostInv'
  OBVIOUS
<1>1. CASE At("hosting") /\ Hosting!HostNext
  BY <1>1, GuideMoves, GuideAsks, GuideIsAnswered, AccountCalls, TunnelCalls, BackendActs, GuideHears
  DEF Hosting!HostNext
<1>2. CASE UNCHANGED hostVars
  <2>1. /\ UNCHANGED HostKept /\ UNCHANGED port
    BY <1>2 DEF hostVars, HostKept
  <2> QED
    BY <2>1, GuideShown DEF HostKept, HostInv, HostTypeOK, AccountIsRead, ApprovalIsDriven, CallOfSeat,
       AddressIsLookedUp, ConnectedIsDriven, PendingEnds, UpMeansReached
<1>3. (At("hosting") /\ Hosting!HostNext) \/ UNCHANGED hostVars
  BY DEF Next, AllVars
<1> QED BY <1>1, <1>2, <1>3

LEMMA HostPromises == HostInv => GuideKeepsItsWord
BY DEF HostInv, HostTypeOK, GuideKeepsItsWord, Hosting!NothingSpinsAlone, Hosting!TaughtMeansReached,
   AccountIsRead, ApprovalIsDriven, AddressIsLookedUp, UpMeansReached, CallOfSeat, Ends

\* In the hosting guide every spinner waits for something that is under way, and the
\* guide is done only once a player could get in (use-playit-account.ts, playit.rs,
\* use-ip-address.ts, SlideTunnelServer.tsx, SlideFriendTest.tsx).
THEOREM PanelsGuideKeepsItsWord == Spec => []GuideKeepsItsWord
<1>1. Spec => []HostInv
  BY HostStarts, HostSteps, PTL DEF Spec, AllVars
<1> QED BY <1>1, HostPromises, PTL

--------------------------------------------------------------------------------
(* The console.                                                                 *)

TerminalLines == [of : TerminalKeys, no : Nat]
Logs == Seq(TerminalLines)

\* What is kept of the lines is their end.
Less(n) == IF n <= TERMINAL_LINE_LIMIT THEN n ELSE TERMINAL_LINE_LIMIT

LEMMA LessIsLess ==
    ASSUME NEW n \in Nat
    PROVE  /\ Less(n) \in Nat /\ Less(n) <= n /\ Less(n) <= TERMINAL_LINE_LIMIT
           /\ Less(n) = n \/ (Less(n) = TERMINAL_LINE_LIMIT /\ n > TERMINAL_LINE_LIMIT)
           /\ TERMINAL_LINE_LIMIT \in Nat
<1>1. TERMINAL_LINE_LIMIT \in Nat
  BY TerminalAssumption
<1>2. CASE n <= TERMINAL_LINE_LIMIT
  BY <1>1, <1>2 DEF Less
<1>3. CASE n > TERMINAL_LINE_LIMIT
  <2>1. Less(n) = TERMINAL_LINE_LIMIT
    BY <1>1, <1>3 DEF Less
  <2> QED BY <1>1, <1>3, <2>1
<1> QED BY <1>1, <1>2, <1>3

LEMMA KeptIsTheEnd ==
    ASSUME NEW s \in Logs
    PROVE  /\ Terminal!Kept(s) \in Logs /\ Len(s) \in Nat
           /\ Len(Terminal!Kept(s)) = Less(Len(s))
           /\ \A i \in 1..Less(Len(s)) : Terminal!Kept(s)[i] = s[Len(s) - Less(Len(s)) + i]
<1> DEFINE n == Len(s)
           m == n - TERMINAL_LINE_LIMIT + 1
<1>1. n \in Nat /\ TERMINAL_LINE_LIMIT \in Nat /\ m \in Int /\ DOMAIN s = 1..n
  BY TerminalAssumption, LenProperties DEF Logs
<1>2. CASE n <= TERMINAL_LINE_LIMIT
  <2>1. Less(n) = n /\ Terminal!Kept(s) = s
    BY <1>1, <1>2 DEF Terminal!Kept, Less
  <2>2. \A i \in 1..n : n - n + i = i
    BY <1>1
  <2> QED BY <1>1, <2>1, <2>2
<1>3. CASE n > TERMINAL_LINE_LIMIT
  <2>1. \A i \in m..n : s[i] \in TerminalLines
    BY <1>1, <1>3, ElementOfSeq DEF Logs
  <2>2. /\ SubSeq(s, m, n) \in Logs
        /\ Len(SubSeq(s, m, n)) = IF m <= n THEN n - m + 1 ELSE 0
        /\ \A i \in 1..n - m + 1 : SubSeq(s, m, n)[i] = s[m + i - 1]
    BY <1>1, <2>1, SubSeqProperties DEF Logs
  <2>3. Terminal!Kept(s) = SubSeq(s, m, n)
    BY <1>1, <1>3 DEF Terminal!Kept
  <2>4. Less(n) = TERMINAL_LINE_LIMIT
    <3>1. n \in Nat /\ TERMINAL_LINE_LIMIT \in Nat
      BY <1>1
    <3> QED BY <1>3, <3>1 DEF Less
  <2>5. n - m + 1 = TERMINAL_LINE_LIMIT
    <3>1. n \in Nat /\ TERMINAL_LINE_LIMIT \in Nat
      BY <1>1
    <3> QED BY <3>1
  <2>6. Len(Terminal!Kept(s)) = TERMINAL_LINE_LIMIT
    <3>1. m <= n \/ TERMINAL_LINE_LIMIT = 0
      BY <1>1
    <3> QED BY <1>1, <2>2, <2>3, <2>5, <3>1
  <2>7. \A i \in 1..TERMINAL_LINE_LIMIT : m + i - 1 = n - TERMINAL_LINE_LIMIT + i
    BY <1>1
  <2>8. \A i \in 1..TERMINAL_LINE_LIMIT : Terminal!Kept(s)[i] = s[n - TERMINAL_LINE_LIMIT + i]
    BY <2>2, <2>3, <2>5, <2>7
  <2> QED BY <1>1, <2>2, <2>3, <2>4, <2>6, <2>8
<1> QED BY <1>1, <1>2, <1>3

LEMMA KeptOfLength ==
    ASSUME NEW s \in Logs, NEW k \in Nat, Len(s) = k
    PROVE  /\ Terminal!Kept(s) \in Logs /\ Len(Terminal!Kept(s)) = Less(k)
           /\ \A i \in 1..Less(k) : Terminal!Kept(s)[i] = s[k - Less(k) + i]
<1> QED BY KeptIsTheEnd

LEMMA KeptOfAppended ==
    ASSUME NEW s \in Logs, NEW l \in TerminalLines, NEW n \in Nat, Len(s) = n,
           NEW b \in Nat, b = Less(n + 1)
    PROVE  /\ Terminal!Kept(Append(s, l)) \in Logs /\ Len(Terminal!Kept(Append(s, l))) = b
           /\ \A i \in 1..b : Terminal!Kept(Append(s, l))[i] = Append(s, l)[n + 1 - b + i]
<1> DEFINE k == n + 1
           u == Append(s, l)
<1>1. k \in Nat /\ b = Less(k)
  OBVIOUS
<1>2. u \in Logs /\ Len(u) = k
  <2>1. Append(s, l) \in Logs /\ Len(Append(s, l)) = Len(s) + 1
    BY AppendProperties DEF Logs
  <2> QED BY <2>1
<1>3. k = n + 1 /\ u = Append(s, l)
  OBVIOUS
<1> HIDE DEF k, u
<1>4. /\ Terminal!Kept(u) \in Logs /\ Len(Terminal!Kept(u)) = b
      /\ \A i \in 1..b : Terminal!Kept(u)[i] = u[k - b + i]
  BY <1>1, <1>2, KeptOfLength
<1>5. /\ Terminal!Kept(Append(s, l)) \in Logs /\ Len(Terminal!Kept(Append(s, l))) = b
      /\ \A i \in 1..b : Terminal!Kept(Append(s, l))[i] = Append(s, l)[k - b + i]
  BY <1>3, <1>4, Zenon
<1>6. \A i \in 1..b : k - b + i = n + 1 - b + i
  BY <1>1, <1>3
<1> QED BY <1>5, <1>6

\* Keeping what is kept changes nothing, and what is kept is at most so much.
LEMMA KeptOnce ==
    ASSUME NEW s \in Logs
    PROVE  /\ Terminal!Kept(Terminal!Kept(s)) = Terminal!Kept(s)
           /\ Len(Terminal!Kept(s)) <= TERMINAL_LINE_LIMIT
<1>1. Len(s) \in Nat /\ Len(Terminal!Kept(s)) = Less(Len(s))
  BY KeptIsTheEnd
<1>2. Len(Terminal!Kept(s)) <= TERMINAL_LINE_LIMIT
  BY <1>1, LessIsLess
<1> QED BY <1>2 DEF Terminal!Kept

\* A line more at the end of lists that end alike.
LEMMA KeptAppends ==
    ASSUME NEW s \in Logs, NEW t \in Logs, Terminal!Kept(s) = Terminal!Kept(t), NEW l \in TerminalLines
    PROVE  Terminal!Kept(Append(s, l)) = Terminal!Kept(Append(t, l))
<1> DEFINE n == Len(s)
           m == Len(t)
           a == Less(n)
           b == Less(n + 1)
<1>1. /\ n \in Nat /\ m \in Nat /\ a = Less(m)
      /\ \A i \in 1..a : s[n - a + i] = t[m - a + i]
  BY KeptIsTheEnd
<1>2. /\ Append(s, l) \in Logs /\ Append(t, l) \in Logs
      /\ Len(Append(s, l)) = n + 1 /\ Len(Append(t, l)) = m + 1
      /\ \A i \in 1..n : Append(s, l)[i] = s[i]
      /\ \A i \in 1..m : Append(t, l)[i] = t[i]
      /\ Append(s, l)[n + 1] = l /\ Append(t, l)[m + 1] = l
  BY AppendProperties DEF Logs
<1>3. /\ a \in Nat /\ b \in Nat /\ a <= n /\ a <= m /\ b <= a + 1 /\ Less(m + 1) = b
  <2>1. /\ a \in Nat /\ a <= n /\ a <= m /\ TERMINAL_LINE_LIMIT \in Nat
        /\ a = n \/ (a = TERMINAL_LINE_LIMIT /\ n > TERMINAL_LINE_LIMIT)
        /\ a = m \/ (a = TERMINAL_LINE_LIMIT /\ m > TERMINAL_LINE_LIMIT)
        /\ a <= TERMINAL_LINE_LIMIT
    BY <1>1, LessIsLess
  <2>2. /\ b \in Nat /\ b <= TERMINAL_LINE_LIMIT
        /\ b = n + 1 \/ (b = TERMINAL_LINE_LIMIT /\ n + 1 > TERMINAL_LINE_LIMIT)
    BY <1>1, LessIsLess
  <2>3. /\ Less(m + 1) \in Nat /\ Less(m + 1) <= TERMINAL_LINE_LIMIT
        /\ Less(m + 1) = m + 1 \/ (Less(m + 1) = TERMINAL_LINE_LIMIT /\ m + 1 > TERMINAL_LINE_LIMIT)
    BY <1>1, LessIsLess
  <2> QED BY <1>1, <2>1, <2>2, <2>3
<1> HIDE DEF n, m, a, b
<1>4. ASSUME NEW i \in 1..b
      PROVE  Append(s, l)[n + 1 - b + i] = Append(t, l)[m + 1 - b + i]
  <2>1. CASE i = b
    <3>1. n + 1 - b + i = n + 1 /\ m + 1 - b + i = m + 1
      BY <1>1, <1>3, <2>1
    <3> QED BY <1>2, <3>1
  <2>2. CASE i < b
    <3> DEFINE j == i + 1 - b + a
    <3>1. /\ j \in 1..a /\ n - a + j = n + 1 - b + i /\ m - a + j = m + 1 - b + i
          /\ n - a + j \in 1..n /\ m - a + j \in 1..m
      BY <1>1, <1>3, <2>2
    <3>2. s[n - a + j] = t[m - a + j]
      BY <1>1, <3>1
    <3> HIDE DEF j
    <3>3. Append(s, l)[n - a + j] = Append(t, l)[m - a + j]
      BY <1>2, <3>1, <3>2
    <3> QED BY <3>1, <3>3
  <2>3. i = b \/ i < b
    BY <1>3
  <2> QED BY <2>1, <2>2, <2>3
<1>5. b = Less(n + 1)
  BY DEF b
<1>6. /\ Terminal!Kept(Append(s, l)) \in Logs /\ Len(Terminal!Kept(Append(s, l))) = b
      /\ \A i \in 1..b : Terminal!Kept(Append(s, l))[i] = Append(s, l)[n + 1 - b + i]
  <2>1. Len(s) = n
    BY DEF n
  <2>2. n \in Nat /\ b \in Nat
    BY <1>1, <1>3
  <2> QED BY <1>5, <2>1, <2>2, KeptOfAppended
<1>7. /\ Terminal!Kept(Append(t, l)) \in Logs /\ Len(Terminal!Kept(Append(t, l))) = b
      /\ \A i \in 1..b : Terminal!Kept(Append(t, l))[i] = Append(t, l)[m + 1 - b + i]
  <2>1. Len(t) = m /\ b = Less(m + 1)
    BY <1>3 DEF m
  <2>2. m \in Nat /\ b \in Nat
    BY <1>1, <1>3
  <2> QED BY <2>1, <2>2, KeptOfAppended
<1> QED BY <1>4, <1>6, <1>7, SeqEqual DEF Logs

\* Lists of lines are joined at their ends.
LEMMA LogsJoin ==
    /\ <<>> \in Logs /\ Terminal!Kept(<<>>) = <<>>
    /\ \A s \in Logs : s \o <<>> = s /\ <<>> \o s = s
    /\ \A s, t \in Logs : s \o t \in Logs /\ Terminal!Kept(s) \in Logs
    /\ \A s, t \in Logs : \A l \in TerminalLines :
          Append(t, l) \in Logs /\ s \o Append(t, l) = Append(s \o t, l)
<1>1. <<>> \in Logs /\ \A s \in Logs : s \o <<>> = s /\ <<>> \o s = s
  BY EmptySeq, ConcatEmptySeq DEF Logs
<1>2. ASSUME NEW s \in Logs, NEW t \in Logs
      PROVE  s \o t \in Logs /\ Terminal!Kept(s) \in Logs
  BY ConcatProperties, KeptIsTheEnd DEF Logs
<1>3. ASSUME NEW s \in Logs, NEW t \in Logs, NEW l \in TerminalLines
      PROVE  Append(t, l) \in Logs /\ s \o Append(t, l) = Append(s \o t, l)
  <2>1. s \o t \in Seq(TerminalLines) /\ <<l>> \in Seq(TerminalLines) /\ Append(t, l) \in Logs
    BY <1>2, AppendProperties, EmptySeq DEF Logs
  <2>2. Append(t, l) = t \o <<l>> /\ Append(s \o t, l) = (s \o t) \o <<l>>
    BY <2>1, AppendIsConcat DEF Logs
  <2>3. (s \o t) \o <<l>> = s \o (t \o <<l>>)
    BY <2>1, ConcatAssociative DEF Logs
  <2> QED BY <2>1, <2>2, <2>3
<1>4. Terminal!Kept(<<>>) = <<>>
  BY TerminalAssumption, EmptySeq DEF Terminal!Kept
<1> QED BY <1>1, <1>2, <1>3, <1>4

Stores  == TerminalKeys \union {Terminal!NoKey}
Reports == [of : TerminalKeys, page : {"open", "gone"}, lines : Logs]

ConsoleTypeOK ==
    /\ storeKey \in Stores /\ flushTimer \in Stores /\ persistTimer \in Stores
    /\ allLines \in Logs /\ pendingLines \in Logs
    /\ storedLines \in [TerminalKeys -> Logs] /\ heard \in [TerminalKeys -> Logs]
    /\ waiting \subseteq Reports /\ missed \subseteq TerminalKeys /\ steps \in Nat

\* Nothing longer than what is kept is shown or stored.
ShortEnough ==
    Terminal!Kept(allLines) = allLines /\ \A k \in TerminalKeys : Terminal!Kept(storedLines[k]) = storedLines[k]

\* A timer that is set belongs to the console that is open, or a report came too late.
TimersAreItsOwn ==
    ~late => flushTimer \in {Terminal!NoKey, storeKey} /\ persistTimer \in {Terminal!NoKey, storeKey}

ConsoleInv == ConsoleTypeOK /\ ShortEnough /\ TimersAreItsOwn /\ Terminal!TerminalKeepsLines

LEMMA ConsoleStarts == Init => ConsoleInv
<1> SUFFICES ASSUME Init PROVE ConsoleInv
  OBVIOUS
<1>1. Terminal!TerminalInit
  BY DEF Init
<1>2. allLines = <<>> /\ pendingLines = <<>> /\ \A k \in TerminalKeys : storedLines[k] = <<>>
  BY <1>1 DEF Terminal!TerminalInit
<1> QED
  BY <1>1, <1>2, LogsJoin DEF Terminal!TerminalInit, ConsoleInv, ConsoleTypeOK, ShortEnough, TimersAreItsOwn,
     Terminal!TerminalKeepsLines, Stores

\* A line more in the open console; a report may be due for it.
LEMMA LineArrives ==
    ASSUME ConsoleInv, NEW k \in TerminalKeys, Terminal!appendTerminalLine(k), waiting' \subseteq Reports,
           ~late' => ~late /\ k = storeKey, steps' \in Nat,
           UNCHANGED <<storeKey, allLines, persistTimer, storedLines, missed>>
    PROVE  ConsoleInv'
<1> DEFINE l == [of |-> k, no |-> steps]
<1>1. l \in TerminalLines /\ ConsoleTypeOK
  BY DEF ConsoleInv, ConsoleTypeOK, TerminalLines
<1>2. /\ pendingLines' = Append(pendingLines, l) /\ heard' = [heard EXCEPT ![k] = Append(heard[k], l)]
      /\ flushTimer' = IF flushTimer = Terminal!NoKey THEN k ELSE flushTimer
  BY DEF Terminal!appendTerminalLine
<1> HIDE DEF l
<1>3. /\ pendingLines' \in Logs /\ heard[k] \in Logs /\ Append(heard[k], l) \in Logs
      /\ allLines \o pendingLines \in Logs
      /\ allLines' \o pendingLines' = Append(allLines \o pendingLines, l)
  BY <1>1, <1>2, LogsJoin DEF ConsoleTypeOK
<1>4. ConsoleTypeOK'
  BY <1>1, <1>2, <1>3 DEF ConsoleTypeOK, Stores
<1>5. ShortEnough' /\ TimersAreItsOwn'
  BY <1>2 DEF ConsoleInv, ShortEnough, TimersAreItsOwn
<1>6. ASSUME ~late' PROVE Terminal!Kept(allLines' \o pendingLines') = Terminal!Kept(heard'[k])
  <2>1. Terminal!Kept(allLines \o pendingLines) = Terminal!Kept(heard[k])
    BY <1>6, TerminalAssumption DEF ConsoleInv, Terminal!TerminalKeepsLines
  <2>2. heard'[k] = Append(heard[k], l)
    BY <1>1, <1>2 DEF ConsoleTypeOK
  <2> QED BY <1>1, <1>3, <2>1, <2>2, KeptAppends
<1>7. Terminal!TerminalKeepsLines'
  <2>1. \A j \in TerminalKeys \ {k} : heard'[j] = heard[j]
    BY <1>1, <1>2 DEF ConsoleTypeOK
  <2> QED BY <1>6, <2>1 DEF ConsoleInv, Terminal!TerminalKeepsLines
<1> QED BY <1>4, <1>5, <1>7 DEF ConsoleInv

LEMMA ConsoleWrites ==
    ASSUME ConsoleTypeOK, ShortEnough, NEW k \in TerminalKeys, NEW s \in Logs, Terminal!Kept(s) = s,
           Terminal!writeStoredLines(k, s)
    PROVE  /\ storedLines' \in [TerminalKeys -> Logs] /\ missed' \subseteq TerminalKeys
           /\ \A j \in TerminalKeys : Terminal!Kept(storedLines'[j]) = storedLines'[j]
           /\ \A j \in TerminalKeys \ {k} : storedLines'[j] = storedLines[j] /\ (j \in missed' <=> j \in missed)
           /\ storedLines'[k] = s \/ k \in missed'
           /\ s = <<>> => storedLines'[k] = s
BY DEF ConsoleTypeOK, ShortEnough, Terminal!writeStoredLines

LEMMA ConsoleTimers ==
    ASSUME ConsoleInv, Terminal!flushPendingLines \/ Terminal!schedulePersist
    PROVE  ConsoleInv'
<1>0. ConsoleTypeOK /\ ShortEnough
  BY DEF ConsoleInv
<1>1. CASE Terminal!flushPendingLines
  <2>1. /\ allLines \o pendingLines \in Logs /\ allLines' \in Logs
        /\ allLines' \o pendingLines' = allLines' /\ pendingLines' \in Logs
        /\ allLines' = Terminal!Kept(allLines \o pendingLines)
    BY <1>0, <1>1, LogsJoin DEF Terminal!flushPendingLines, ConsoleTypeOK
  <2>2. Terminal!Kept(allLines') = Terminal!Kept(allLines \o pendingLines) /\ Terminal!Kept(allLines') = allLines'
    BY <2>1, KeptOnce
  <2>3. ConsoleTypeOK'
    BY <1>0, <1>1, <2>1 DEF Terminal!flushPendingLines, ConsoleTypeOK, Stores
  <2>4. ShortEnough' /\ TimersAreItsOwn'
    BY <1>1, <2>2 DEF Terminal!flushPendingLines, ConsoleInv, ShortEnough, TimersAreItsOwn
  <2>5. Terminal!TerminalKeepsLines'
    BY <1>1, <2>1, <2>2 DEF Terminal!flushPendingLines, ConsoleInv, Terminal!TerminalKeepsLines
  <2> QED BY <2>3, <2>4, <2>5 DEF ConsoleInv
<1>2. CASE Terminal!schedulePersist
  <2>1. /\ persistTimer \in TerminalKeys /\ Terminal!writeStoredLines(persistTimer, allLines)
        /\ UNCHANGED <<storeKey, allLines, pendingLines, flushTimer, waiting, heard, late, steps>>
        /\ persistTimer' = Terminal!NoKey
    BY <1>0, <1>2 DEF Terminal!schedulePersist, ConsoleTypeOK, Stores
  <2>2. allLines \in Logs /\ Terminal!Kept(allLines) = allLines
    BY <1>0 DEF ConsoleTypeOK, ShortEnough
  <2>3. /\ storedLines' \in [TerminalKeys -> Logs] /\ missed' \subseteq TerminalKeys
        /\ \A j \in TerminalKeys : Terminal!Kept(storedLines'[j]) = storedLines'[j]
        /\ \A j \in TerminalKeys \ {persistTimer} :
              storedLines'[j] = storedLines[j] /\ (j \in missed' <=> j \in missed)
    BY <1>0, <2>1, <2>2, ConsoleWrites
  <2>4. ConsoleTypeOK'
    BY <1>0, <2>1, <2>3 DEF ConsoleTypeOK, Stores
  <2>5. ShortEnough' /\ TimersAreItsOwn'
    BY <2>1, <2>3 DEF ConsoleInv, ShortEnough, TimersAreItsOwn
  <2>6. Terminal!TerminalKeepsLines'
    <3>1. ~late => persistTimer = storeKey
      BY <2>1, TerminalAssumption DEF ConsoleInv, TimersAreItsOwn
    <3> QED BY <2>1, <2>3, <3>1 DEF ConsoleInv, Terminal!TerminalKeepsLines
  <2> QED BY <2>4, <2>5, <2>6 DEF ConsoleInv
<1> QED BY <1>1, <1>2

LEMMA ConsoleTurns ==
    ASSUME ConsoleInv, NEW k \in Stores \ {storeKey}, Terminal!Open(k), late' = late, steps' \in Nat
    PROVE  ConsoleInv'
<1> DEFINE left == Terminal!Kept(allLines \o pendingLines)
<1>0. ConsoleTypeOK /\ ShortEnough
  BY DEF ConsoleInv
<1>1. allLines \o pendingLines \in Logs /\ left \in Logs /\ Terminal!Kept(left) = left /\ <<>> \in Logs
  BY <1>0, LogsJoin, KeptOnce DEF ConsoleTypeOK
<1>2. /\ IF storeKey = Terminal!NoKey THEN UNCHANGED <<storedLines, missed>>
         ELSE Terminal!writeStoredLines(storeKey, left)
      /\ storeKey' = k /\ allLines' = IF k = Terminal!NoKey THEN <<>> ELSE storedLines'[k]
      /\ pendingLines' = <<>> /\ flushTimer' = Terminal!NoKey /\ persistTimer' = Terminal!NoKey
      /\ waiting' = IF k # Terminal!NoKey THEN waiting
                    ELSE {IF w.page = "open" THEN [w EXCEPT !.page = "gone", !.lines = left]
                          ELSE w : w \in waiting}
      /\ heard' = IF k \in missed' THEN [heard EXCEPT ![k] = storedLines'[k]] ELSE heard
  BY DEF Terminal!Open, Terminal!Switched
<1> HIDE DEF left
<1>3. /\ storedLines' \in [TerminalKeys -> Logs] /\ missed' \subseteq TerminalKeys
      /\ \A j \in TerminalKeys : Terminal!Kept(storedLines'[j]) = storedLines'[j]
      /\ \A j \in TerminalKeys \ {storeKey} : storedLines'[j] = storedLines[j] /\ (j \in missed' <=> j \in missed)
      /\ storeKey # Terminal!NoKey => storedLines'[storeKey] = left \/ storeKey \in missed'
  <2>1. CASE storeKey = Terminal!NoKey
    BY <1>0, <1>2, <2>1 DEF ConsoleTypeOK, ShortEnough
  <2>2. CASE storeKey # Terminal!NoKey
    <3>1. storeKey \in TerminalKeys /\ Terminal!writeStoredLines(storeKey, left)
      BY <1>0, <1>2, <2>2 DEF ConsoleTypeOK, Stores
    <3> QED BY <1>0, <1>1, <3>1, ConsoleWrites
  <2> QED BY <2>1, <2>2
<1>4. /\ waiting' \subseteq Reports
      /\ k # Terminal!NoKey => k \in TerminalKeys
      /\ Terminal!NoKey \notin TerminalKeys
  BY <1>0, <1>1, <1>2, TerminalAssumption DEF ConsoleTypeOK, Stores, Reports
<1>5. /\ heard' \in [TerminalKeys -> Logs]
      /\ \A j \in TerminalKeys \ {k} : heard'[j] = heard[j]
      /\ k \in missed' => heard'[k] = storedLines'[k]
      /\ k \notin missed' => heard' = heard
  BY <1>0, <1>2, <1>3, <1>4 DEF ConsoleTypeOK
<1>6. ConsoleTypeOK'
  BY <1>1, <1>2, <1>3, <1>4, <1>5 DEF ConsoleTypeOK, Stores
<1>7. /\ ShortEnough' /\ TimersAreItsOwn'
      /\ allLines' \o pendingLines' = allLines'
  BY <1>1, <1>2, <1>3, <1>4, <1>6, LogsJoin DEF ShortEnough, TimersAreItsOwn, ConsoleTypeOK
<1>8. Terminal!TerminalKeepsLines'
  <2> SUFFICES ASSUME ~late
               PROVE  /\ k # Terminal!NoKey => Terminal!Kept(allLines') = Terminal!Kept(heard'[k])
                      /\ \A j \in TerminalKeys \ ({k} \union missed') :
                            storedLines'[j] = Terminal!Kept(heard'[j])
    BY <1>2, <1>7 DEF Terminal!TerminalKeepsLines
  <2>1. ASSUME NEW j \in TerminalKeys, j \notin missed', j # storeKey
        PROVE  storedLines'[j] = Terminal!Kept(heard[j])
    BY <1>3, <2>1 DEF ConsoleInv, Terminal!TerminalKeepsLines
  <2>2. ASSUME NEW j \in TerminalKeys, j \notin missed', j = storeKey
        PROVE  storedLines'[j] = Terminal!Kept(heard[j])
    BY <1>3, <1>4, <2>2 DEF ConsoleInv, Terminal!TerminalKeepsLines, left
  <2>3. ASSUME k # Terminal!NoKey PROVE Terminal!Kept(allLines') = Terminal!Kept(heard'[k])
    <3>1. k \in TerminalKeys /\ allLines' = storedLines'[k]
          /\ Terminal!Kept(storedLines'[k]) = storedLines'[k]
      BY <1>2, <1>3, <1>4, <2>3
    <3>2. CASE k \in missed'
      BY <1>5, <3>1, <3>2
    <3>3. CASE k \notin missed'
      BY <1>5, <2>1, <3>1, <3>3
    <3> QED BY <3>2, <3>3
  <2> QED BY <1>5, <2>1, <2>2, <2>3
<1> QED BY <1>6, <1>7, <1>8 DEF ConsoleInv

LEMMA ConsoleClears ==
    ASSUME ConsoleInv, Terminal!clearTerminalSession \/ Terminal!Quit
    PROVE  ConsoleInv'
<1>0. ConsoleTypeOK /\ ShortEnough /\ <<>> \in Logs /\ Terminal!Kept(<<>>) = <<>> /\ <<>> \o <<>> = <<>>
  BY LogsJoin DEF ConsoleInv
<1>1. CASE Terminal!clearTerminalSession
  <2>1. /\ storeKey \in TerminalKeys /\ Terminal!writeStoredLines(storeKey, <<>>) /\ steps' \in Nat
        /\ pendingLines' = <<>> /\ allLines' = <<>>
        /\ flushTimer' = Terminal!NoKey /\ persistTimer' = Terminal!NoKey
        /\ heard' = [heard EXCEPT ![storeKey] = <<>>] /\ UNCHANGED <<storeKey, waiting, late>>
    BY <1>0, <1>1 DEF Terminal!clearTerminalSession, Terminal!Steps, ConsoleTypeOK, Stores
  <2>2. /\ storedLines' \in [TerminalKeys -> Logs] /\ missed' \subseteq TerminalKeys
        /\ \A j \in TerminalKeys : Terminal!Kept(storedLines'[j]) = storedLines'[j]
        /\ \A j \in TerminalKeys \ {storeKey} :
              storedLines'[j] = storedLines[j] /\ (j \in missed' <=> j \in missed)
        /\ storedLines'[storeKey] = <<>>
    BY <1>0, <2>1, ConsoleWrites
  <2>3. /\ heard' \in [TerminalKeys -> Logs] /\ heard'[storeKey] = <<>>
        /\ \A j \in TerminalKeys \ {storeKey} : heard'[j] = heard[j]
    BY <1>0, <2>1 DEF ConsoleTypeOK
  <2>4. ConsoleTypeOK' /\ ShortEnough' /\ TimersAreItsOwn'
    BY <1>0, <2>1, <2>2, <2>3 DEF ConsoleTypeOK, ShortEnough, TimersAreItsOwn, Stores
  <2>5. Terminal!TerminalKeepsLines'
    BY <1>0, <2>1, <2>2, <2>3 DEF ConsoleInv, Terminal!TerminalKeepsLines
  <2> QED BY <2>4, <2>5 DEF ConsoleInv
<1>2. CASE Terminal!Quit
  <2>1. /\ storeKey' = Terminal!NoKey /\ allLines' = <<>> /\ pendingLines' = <<>> /\ steps' \in Nat
        /\ flushTimer' = Terminal!NoKey /\ persistTimer' = Terminal!NoKey /\ waiting' = {}
        /\ heard' = storedLines /\ missed' = {} /\ storedLines' = storedLines
    BY <1>0, <1>2 DEF Terminal!Quit, Terminal!Steps, ConsoleTypeOK
  <2>2. ConsoleTypeOK' /\ ShortEnough' /\ TimersAreItsOwn'
    BY <1>0, <2>1 DEF ConsoleTypeOK, ShortEnough, TimersAreItsOwn, Stores
  <2>3. Terminal!TerminalKeepsLines'
    BY <1>0, <2>1 DEF ShortEnough, Terminal!TerminalKeepsLines
  <2> QED BY <2>2, <2>3 DEF ConsoleInv
<1> QED BY <1>1, <1>2

LEMMA ConsoleHears ==
    ASSUME ConsoleInv, Terminal!RuntimeLine \/ Terminal!Command \/ Terminal!CommandReports
    PROVE  ConsoleInv'
<1>0. ConsoleTypeOK /\ ShortEnough /\ steps' \in Nat /\ <<>> \in Logs
  BY LogsJoin DEF ConsoleInv, ConsoleTypeOK, Terminal!RuntimeLine, Terminal!Command, Terminal!CommandReports,
     Terminal!Steps
<1>1. CASE Terminal!RuntimeLine \/ Terminal!Command
  <2>1. /\ storeKey \in TerminalKeys /\ Terminal!appendTerminalLine(storeKey) /\ waiting' \subseteq Reports
        /\ UNCHANGED <<storeKey, allLines, persistTimer, storedLines, missed, late>>
    BY <1>0, <1>1 DEF Terminal!RuntimeLine, Terminal!Command, ConsoleTypeOK, Stores, Reports
  <2> QED BY <1>0, <2>1, LineArrives
<1>2. CASE Terminal!CommandReports
  <2>1. PICK w \in waiting :
          /\ waiting' = waiting \ {w}
          /\ late' = (late \/ w.page = "gone" \/ w.of # storeKey)
          /\ \/ /\ w.page = "open" /\ Terminal!appendTerminalLine(w.of)
                /\ UNCHANGED <<allLines, persistTimer, storedLines, missed>>
             \/ /\ w.page = "gone"
                /\ Terminal!writeStoredLines(w.of, Terminal!Kept(Append(w.lines, [of |-> w.of, no |-> steps])))
                /\ UNCHANGED <<allLines, pendingLines, flushTimer, persistTimer, heard>>
    BY <1>2 DEF Terminal!CommandReports
  <2>2. w \in Reports /\ w.of \in TerminalKeys /\ w.lines \in Logs /\ waiting' \subseteq Reports
        /\ UNCHANGED storeKey
    BY <1>0, <1>2, <2>1 DEF ConsoleTypeOK, Reports, Terminal!CommandReports
  <2>3. CASE w.page = "open"
    <3>1. /\ Terminal!appendTerminalLine(w.of) /\ (~late' => ~late /\ w.of = storeKey)
          /\ UNCHANGED <<storeKey, allLines, persistTimer, storedLines, missed>>
      BY <2>1, <2>2, <2>3
    <3> QED BY <1>0, <2>2, <3>1, LineArrives
  <2>4. CASE w.page = "gone"
    <3> DEFINE s == Terminal!Kept(Append(w.lines, [of |-> w.of, no |-> steps]))
    <3>1. Terminal!writeStoredLines(w.of, s) /\ late'
          /\ UNCHANGED <<storeKey, allLines, pendingLines, flushTimer, persistTimer, heard>>
      BY <2>1, <2>2, <2>4
    <3>2. s \in Logs /\ Terminal!Kept(s) = s
      <4>1. [of |-> w.of, no |-> steps] \in TerminalLines
        BY <1>0, <2>2 DEF TerminalLines, ConsoleTypeOK
      <4>2. Append(w.lines, [of |-> w.of, no |-> steps]) \in Logs
        BY <2>2, <4>1, LogsJoin
      <4> QED BY <4>2, LogsJoin, KeptOnce
    <3> HIDE DEF s
    <3>3. /\ storedLines' \in [TerminalKeys -> Logs] /\ missed' \subseteq TerminalKeys
          /\ \A j \in TerminalKeys : Terminal!Kept(storedLines'[j]) = storedLines'[j]
      BY <1>0, <2>2, <3>1, <3>2, ConsoleWrites
    <3>4. ConsoleTypeOK'
      BY <1>0, <2>2, <3>1, <3>3 DEF ConsoleTypeOK
    <3> QED BY <1>0, <3>1, <3>3, <3>4 DEF ConsoleInv, ShortEnough, TimersAreItsOwn, Terminal!TerminalKeepsLines
  <2> QED BY <2>2, <2>3, <2>4 DEF Reports
<1> QED BY <1>1, <1>2

LEMMA ConsoleSteps == ConsoleInv /\ [Next]_AllVars => ConsoleInv'
<1> SUFFICES ASSUME ConsoleInv, [Next]_AllVars PROVE ConsoleInv'
  OBVIOUS
<1>1. CASE Terminal!TerminalNext
  <2>1. CASE Terminal!Navigate
    <3>1. PICK k \in Stores \ {storeKey} : Terminal!Open(k)
      BY <2>1 DEF Terminal!Navigate, Stores
    <3>2. late' = late /\ steps' \in Nat
      BY <2>1 DEF Terminal!Navigate, Terminal!Steps, ConsoleInv, ConsoleTypeOK
    <3> QED BY <3>1, <3>2, ConsoleTurns
  <2> QED
    BY <1>1, <2>1, ConsoleTimers, ConsoleClears, ConsoleHears DEF Terminal!TerminalNext
<1>2. CASE UNCHANGED terminalVars
  BY <1>2 DEF terminalVars, ConsoleInv, ConsoleTypeOK, ShortEnough, TimersAreItsOwn, Terminal!TerminalKeepsLines
<1>3. Terminal!TerminalNext \/ UNCHANGED terminalVars
  BY DEF Next, AllVars
<1> QED BY <1>1, <1>2, <1>3

--------------------------------------------------------------------------------
(* The players of a server.                                                     *)

Standings(rule) ==
    [online : BOOLEAN, op : BOOLEAN, white : BOOLEAN, banned : BOOLEAN, keep : rule]
Rules    == {"on", "off"}
Shows    == {"on", "off", "unknown"}
Commands == {"op", "deop", "whitelist-add", "kick", "ban", "pardon", "keep-on", "keep-off", "say"}
Answers  == [of : Servers, is : Standings(Shows)]
Asked    == [at : {"asked"}, dir : Servers]
Read     == [at : {"read"}, dir : Servers, ok : BOOLEAN, got : Standings(Shows)]
Sent     == [dir : Servers, does : Commands, at : {"sent", "ok", "failed"}, mine : BOOLEAN,
             previous : Shows]

PlayersTypeOK ==
    /\ game \in [Servers -> Standings(Rules)] /\ directory \in Servers
    /\ data \in {Players!None} \union Answers /\ panelError \in BOOLEAN /\ keep \in Shows
    /\ counted \in BOOLEAN /\ call \in {Players!NoCall} \union Asked \union Read /\ queued \in BOOLEAN
    /\ timers \subseteq Servers /\ sent \subseteq Sent
    /\ isSending \in BOOLEAN /\ banTarget \in BOOLEAN /\ blind \in BOOLEAN /\ undone \in BOOLEAN

\* One command at a time, and no second one while a ban waits to be confirmed.
OneCommand ==
    /\ \A s \in sent : s.mine => isSending
    /\ \A s, t \in sent : s.mine /\ t.mine => s = t
    /\ banTarget => ~isSending

Waits(at) == call \in at /\ call.dir = directory

\* What is shown is this server's, and while nothing is shown a question is due.
ShownOrDue ==
    /\ data # Players!None => data.of = directory
    /\ queued => call # Players!NoCall
    /\ data = Players!None /\ ~panelError => call # Players!NoCall /\ (call.dir = directory \/ queued)

\* A question about this server that will be asked later than now.
Owed ==
    \/ queued \/ Waits(Asked) \/ directory \in timers
    \/ \E s \in sent : s.mine /\ s.dir = directory /\ s.at = "ok"
    \/ counted # game[directory].online

Fresh(x) == x \in {game[directory], [game[directory] EXCEPT !.keep = "unknown"]}

\* The answer that is shown, or was read, is true of the game, unless another question
\* follows or the game changed unheard of.
ShownIsTrue ==
    data # Players!None /\ ~panelError /\ ~blind => Fresh(data.is) \/ Owed \/ Waits(Read)
ReadIsTrue == Waits(Read) /\ call.ok /\ ~blind => Fresh(call.got) \/ Owed

\* The checkbox is what was answered, or an answer that sets it right will follow.
BoxIsAnswered ==
    data # Players!None /\ ~panelError /\ ~undone =>
        \/ keep = data.is.keep
        \/ \E s \in sent : s.mine /\ s.dir = directory /\ Players!Toggles(s.does)
        \/ directory \in timers \/ queued \/ Waits(Asked \union Read)

PlayersInv ==
    /\ PlayersTypeOK /\ OneCommand /\ ShownOrDue /\ ShownIsTrue /\ ReadIsTrue /\ BoxIsAnswered

\* What is known and what is asked are told apart.
LEMMA Kinds ==
    /\ \A x \in Answers : x # Players!None /\ x.of \in Servers /\ x.is \in Standings(Shows)
    /\ \A x \in Asked : x # Players!NoCall /\ x \notin Read /\ x.at = "asked" /\ x.dir \in Servers
    /\ \A x \in Read : /\ x # Players!NoCall /\ x \notin Asked /\ x.at = "read" /\ x.dir \in Servers
                       /\ x.ok \in BOOLEAN /\ x.got \in Standings(Shows)
    /\ Players!NoCall.at = "none"
<1>1. ASSUME NEW x \in Answers PROVE x # Players!None /\ x.of \in Servers /\ x.is \in Standings(Shows)
  <2>1. DOMAIN x = {"of", "is"} /\ DOMAIN Players!None = {"of"}
    BY DEF Answers, Players!None
  <2> QED BY <2>1 DEF Answers
<1> QED BY <1>1 DEF Asked, Read, Players!NoCall

\* The answer of a server is right when it is read.
LEMMA AnswersAreStandings ==
    ASSUME PlayersTypeOK, NEW d \in Servers
    PROVE  game[d] \in Standings(Shows) /\ [game[d] EXCEPT !.keep = "unknown"] \in Standings(Shows)
<1>1. game[d] \in Standings(Rules)
  BY DEF PlayersTypeOK
<1> QED BY <1>1 DEF Standings, Rules, Shows

LEMMA PlayersStart == Init => PlayersInv
<1> SUFFICES ASSUME Init PROVE PlayersInv
  OBVIOUS
<1>1. Players!PanelInit
  BY DEF Init
<1>2. game \in [Servers -> Standings(Rules)]
  <2> DEFINE g(d) == [online |-> d = CHOOSE s \in Servers : TRUE, op |-> FALSE,
                      white |-> FALSE, banned |-> FALSE, keep |-> "off"]
  <2>1. \A d \in Servers : g(d) \in Standings(Rules)
    BY DEF Standings, Rules
  <2>2. game = [d \in Servers |-> g(d)]
    BY <1>1 DEF Players!PanelInit
  <2> HIDE DEF g
  <2> QED BY <2>1, <2>2
<1>3. directory \in Servers /\ call \in Asked /\ call.dir = directory
  BY <1>1 DEF Players!PanelInit, Asked
<1>4. counted \in BOOLEAN
  <2>1. game[directory] \in Standings(Rules)
    BY <1>2, <1>3
  <2> QED BY <1>1, <2>1 DEF Players!PanelInit, Standings
<1>5. PlayersTypeOK
  BY <1>1, <1>2, <1>3, <1>4 DEF Players!PanelInit, PlayersTypeOK, Shows
<1> QED
  BY <1>1, <1>3, <1>5, Kinds DEF Players!PanelInit, PlayersInv, OneCommand, ShownOrDue, ShownIsTrue,
     ReadIsTrue, BoxIsAnswered, Owed, Waits

LEMMA RefreshAsks ==
    ASSUME PlayersTypeOK, ShownOrDue, NEW d \in Servers, Players!refresh(d)
    PROVE  /\ \/ call = Players!NoCall /\ call' \in Asked /\ call'.dir = d /\ ~queued /\ ~queued'
              \/ call # Players!NoCall /\ call' = call /\ queued'
           /\ call' \in Asked \union Read /\ queued' \in BOOLEAN /\ call' # Players!NoCall
<1>1. CASE call = Players!NoCall
  <2>1. call' = [at |-> "asked", dir |-> d] /\ queued' = queued
    BY <1>1 DEF Players!refresh
  <2>2. call' \in Asked /\ call'.dir = d
    BY <2>1 DEF Asked
  <2>3. ~queued /\ queued \in BOOLEAN
    BY <1>1 DEF ShownOrDue, PlayersTypeOK
  <2>4. call' # Players!NoCall
    BY <2>2, Kinds
  <2> QED BY <1>1, <2>1, <2>2, <2>3, <2>4
<1>2. CASE call # Players!NoCall
  <2>1. call' = call /\ queued' = TRUE /\ call \in Asked \union Read
    BY <1>2 DEF Players!refresh, PlayersTypeOK
  <2> QED BY <1>2, <2>1
<1> QED BY <1>1, <1>2

\* A question more, to whichever server: whatever was due still is.
LEMMA AskedMore ==
    ASSUME PlayersInv, NEW d \in Servers, Players!refresh(d),
           counted' \in BOOLEAN, counted' = counted \/ d = directory,
           timers' \subseteq Servers, directory \in timers => directory \in timers' \/ d = directory,
           UNCHANGED <<game, directory, data, panelError, keep, isSending, sent, banTarget, blind, undone>>
    PROVE  PlayersInv'
<1>0. PlayersTypeOK /\ ShownOrDue
  BY DEF PlayersInv
<1>1. /\ \/ call = Players!NoCall /\ call' \in Asked /\ call'.dir = d /\ ~queued /\ ~queued'
         \/ call # Players!NoCall /\ call' = call /\ queued'
      /\ call' \in Asked \union Read /\ queued' \in BOOLEAN /\ call' # Players!NoCall
  BY <1>0, RefreshAsks
<1>2. PlayersTypeOK' /\ OneCommand'
  BY <1>0, <1>1 DEF PlayersInv, PlayersTypeOK, OneCommand
<1>3. ShownOrDue'
  BY <1>0, <1>1 DEF ShownOrDue
<1>4. Owed => Owed'
  <2>1. CASE d = directory
    BY <1>1, <2>1 DEF Owed, Waits
  <2>2. CASE d # directory
    BY <1>1, <2>2, Kinds DEF Owed, Waits
  <2> QED BY <2>1, <2>2
<1>5. Waits(Read) => Waits(Read)' 
  BY <1>1, Kinds DEF Waits
<1>6. Waits(Read)' => call' = call /\ Waits(Read)
  BY <1>1, Kinds DEF Waits
<1>7. ShownIsTrue' /\ ReadIsTrue'
  BY <1>4, <1>5, <1>6 DEF PlayersInv, ShownIsTrue, ReadIsTrue, Fresh
<1>8. BoxIsAnswered'
  BY <1>1, Kinds DEF PlayersInv, BoxIsAnswered, Waits
<1> QED BY <1>2, <1>3, <1>7, <1>8 DEF PlayersInv

LEMMA PlayersAsked ==
    ASSUME PlayersInv, Players!Telemetry \/ Players!Poll \/ Players!AfterAction
    PROVE  PlayersInv'
<1>0. PlayersTypeOK /\ directory \in Servers /\ counted \in BOOLEAN /\ timers \subseteq Servers
  BY DEF PlayersInv, PlayersTypeOK
<1>1. CASE Players!Telemetry
  <2>1. game[directory] \in Standings(Rules)
    BY <1>0 DEF PlayersTypeOK
  <2>2. counted' \in BOOLEAN
    BY <1>1, <2>1 DEF Players!Telemetry, Standings
  <2>3. Players!refresh(directory) /\ timers' = timers
        /\ UNCHANGED <<game, directory, data, panelError, keep, isSending, sent, banTarget, blind, undone>>
    BY <1>1 DEF Players!Telemetry
  <2> QED BY <1>0, <2>2, <2>3, AskedMore
<1>2. CASE Players!Poll
  <2>1. Players!refresh(directory) /\ timers' = timers /\ counted' = counted
        /\ UNCHANGED <<game, directory, data, panelError, keep, isSending, sent, banTarget, blind, undone>>
    BY <1>2 DEF Players!Poll, Players!Panel
  <2> QED BY <1>0, <2>1, AskedMore
<1>3. CASE Players!AfterAction
  <2>1. PICK d \in timers : timers' = timers \ {d} /\ Players!refresh(d)
    BY <1>3 DEF Players!AfterAction
  <2>2. d \in Servers /\ counted' = counted
        /\ UNCHANGED <<game, directory, data, panelError, keep, isSending, sent, banTarget, blind, undone>>
    BY <1>0, <1>3 DEF Players!AfterAction, Players!Panel
  <2> QED BY <1>0, <2>1, <2>2, AskedMore
<1> QED BY <1>1, <1>2, <1>3

LEMMA PlayersAnswer == ASSUME PlayersInv, Players!get_online_players PROVE PlayersInv'
<1>0. PlayersTypeOK /\ call \in Asked /\ call # Players!NoCall /\ call.dir \in Servers
  BY Kinds DEF PlayersInv, PlayersTypeOK, Players!get_online_players
<1>1. /\ call' \in Read /\ call'.dir = call.dir
      /\ call'.ok => call'.got \in {game[call.dir], [game[call.dir] EXCEPT !.keep = "unknown"]}
      /\ blind' = (blind /\ call.dir # directory)
      /\ UNCHANGED <<game, directory, data, panelError, keep, counted, isSending, banTarget, queued, timers,
                     sent, undone>>
  BY <1>0, AnswersAreStandings DEF Players!get_online_players, Players!Panel, Read
<1>2. call' # Players!NoCall
  BY <1>1, Kinds
<1>3. PlayersTypeOK' /\ OneCommand' /\ ShownOrDue'
  BY <1>0, <1>1, <1>2 DEF PlayersInv, PlayersTypeOK, OneCommand, ShownOrDue
<1>4. Owed => Owed' \/ Waits(Read)'
  BY <1>0, <1>1 DEF Owed, Waits
<1>5. ShownIsTrue'
  BY <1>0, <1>1, <1>4, Kinds DEF PlayersInv, ShownIsTrue, Fresh, Waits
<1>6. ReadIsTrue'
  BY <1>1 DEF ReadIsTrue, Fresh, Waits
<1>7. BoxIsAnswered'
  BY <1>0, <1>1 DEF PlayersInv, BoxIsAnswered, Waits
<1> QED BY <1>3, <1>5, <1>6, <1>7 DEF PlayersInv

LEMMA PlayersAnswered == ASSUME PlayersInv, Players!Answered PROVE PlayersInv'
<1>0. PlayersTypeOK /\ ShownOrDue /\ call \in Read /\ call # Players!NoCall /\ call.dir \in Servers
      /\ call.got \in Standings(Shows) /\ directory \in Servers /\ queued \in BOOLEAN
  BY Kinds DEF PlayersInv, PlayersTypeOK, Players!Answered
<1>1. /\ ~queued' /\ queued' \in BOOLEAN
      /\ queued => call' \in Asked /\ call'.dir = directory /\ call' # Players!NoCall
      /\ ~queued => call' = Players!NoCall
      /\ UNCHANGED <<game, directory, counted, timers, isSending, sent, banTarget, blind>>
  BY <1>0, Kinds DEF Players!Answered, Asked
<1>2. Owed => Owed'
  BY <1>0, <1>1, Kinds DEF Owed, Waits
<1>3. ~Waits(Read)'
  BY <1>0, <1>1, Kinds DEF Waits
<1>4. OneCommand' /\ ReadIsTrue'
  BY <1>1, <1>3 DEF PlayersInv, OneCommand, ReadIsTrue
<1>5. CASE call.dir = directory /\ call.ok
  <2>1. /\ data' = [of |-> directory, is |-> call.got] /\ ~panelError' /\ panelError' \in BOOLEAN
        /\ keep' = call.got.keep /\ ~undone' /\ undone' \in BOOLEAN
    BY <1>5 DEF Players!Answered, Players!isCurrent
  <2>2. data' \in Answers /\ data' # Players!None /\ data'.of = directory /\ data'.is = call.got
    <3>1. data' \in Answers
      BY <1>0, <2>1 DEF Answers
    <3> QED BY <2>1, <3>1, Kinds
  <2>3. keep' \in Shows
    BY <1>0, <2>1 DEF Standings
  <2>4. PlayersTypeOK' /\ ShownOrDue'
    BY <1>0, <1>1, <2>1, <2>2, <2>3 DEF PlayersTypeOK, ShownOrDue
  <2>5. ShownIsTrue'
    BY <1>0, <1>1, <1>2, <1>5, <2>2 DEF PlayersInv, ReadIsTrue, ShownIsTrue, Fresh, Waits
  <2>6. BoxIsAnswered'
    BY <2>1, <2>2 DEF BoxIsAnswered
  <2> QED BY <1>4, <2>4, <2>5, <2>6 DEF PlayersInv
<1>6. CASE ~(call.dir = directory /\ call.ok)
  <2>1. /\ panelError' = (panelError \/ call.dir = directory) /\ panelError' \in BOOLEAN
        /\ UNCHANGED <<data, keep, undone>>
    BY <1>0, <1>6 DEF Players!Answered, Players!isCurrent, PlayersTypeOK
  <2>2. PlayersTypeOK' /\ ShownOrDue'
    BY <1>0, <1>1, <2>1 DEF PlayersTypeOK, ShownOrDue
  <2>3. ShownIsTrue'
    BY <1>0, <1>1, <1>2, <2>1 DEF PlayersInv, ShownIsTrue, Fresh, Waits
  <2>4. BoxIsAnswered'
    BY <1>0, <1>1, <2>1, Kinds DEF PlayersInv, BoxIsAnswered, Waits
  <2> QED BY <1>4, <2>2, <2>3, <2>4 DEF PlayersInv
<1> QED BY <1>5, <1>6

\* Another server's page, or the same one opened again, shows nothing yet.
LEMMA PlayersTurn == ASSUME PlayersInv, Players!Switch \/ Players!Reopen PROVE PlayersInv'
<1>0. /\ PlayersTypeOK /\ ShownOrDue /\ directory \in Servers
      /\ \A d \in Servers : game[d].online \in BOOLEAN
  BY DEF PlayersInv, PlayersTypeOK, Standings
<1>1. /\ data' = Players!None /\ ~panelError' /\ panelError' \in BOOLEAN /\ ~blind' /\ blind' \in BOOLEAN
      /\ keep' \in Shows /\ banTarget' = banTarget /\ ~banTarget /\ game' = game
      /\ undone' \in BOOLEAN
  BY <1>0 DEF Players!Switch, Players!Reopen, PlayersTypeOK, Shows
<1>2. ShownIsTrue' /\ BoxIsAnswered'
  BY <1>1 DEF ShownIsTrue, BoxIsAnswered
<1>3. CASE Players!Switch
  <2>1. PICK d \in Servers : directory' = d /\ counted' = game[d].online /\ Players!refresh(d)
    BY <1>3 DEF Players!Switch
  <2>2. UNCHANGED <<timers, isSending, sent>>
    BY <1>3 DEF Players!Switch
  <2>3. /\ \/ call = Players!NoCall /\ call' \in Asked /\ call'.dir = d /\ ~queued /\ ~queued'
           \/ call # Players!NoCall /\ call' = call /\ queued'
        /\ call' \in Asked \union Read /\ queued' \in BOOLEAN /\ call' # Players!NoCall
    BY <1>0, <2>1, RefreshAsks
  <2>4. PlayersTypeOK' /\ OneCommand' /\ ShownOrDue'
    BY <1>0, <1>1, <2>1, <2>2, <2>3 DEF PlayersInv, PlayersTypeOK, OneCommand, ShownOrDue
  <2>5. ReadIsTrue'
    BY <2>3, Kinds DEF ReadIsTrue, Owed, Waits
  <2> QED BY <1>2, <2>4, <2>5 DEF PlayersInv
<1>4. CASE Players!Reopen
  <2>1. /\ call' \in Asked /\ call'.dir = directory /\ ~queued' /\ queued' \in BOOLEAN /\ timers' = {}
        /\ counted' = game[directory].online /\ ~isSending' /\ isSending' \in BOOLEAN
        /\ sent' = {[s EXCEPT !.mine = FALSE] : s \in sent} /\ directory' = directory
    BY <1>0, <1>4 DEF Players!Reopen, Asked
  <2>2. sent' \subseteq Sent /\ \A s \in sent' : ~s.mine
    BY <1>0, <2>1 DEF PlayersTypeOK, Sent
  <2>3. PlayersTypeOK' /\ OneCommand' /\ ShownOrDue'
    BY <1>0, <1>1, <2>1, <2>2, Kinds DEF PlayersInv, PlayersTypeOK, OneCommand, ShownOrDue
  <2>4. ReadIsTrue'
    BY <2>1, Kinds DEF ReadIsTrue, Waits
  <2> QED BY <1>2, <2>3, <2>4 DEF PlayersInv
<1> QED BY <1>3, <1>4

\* What is clicked is sent, or asks to be confirmed.
LEMMA PlayersSend ==
    ASSUME PlayersInv, ~isSending, NEW a \in Commands, Players!send(a), ~banTarget', banTarget' \in BOOLEAN,
           UNCHANGED <<game, directory, data, panelError, counted, call, queued, timers, blind, undone>>
    PROVE  PlayersInv'
<1> DEFINE s == [dir |-> directory, does |-> a, at |-> "sent", mine |-> TRUE, previous |-> keep]
<1>0. PlayersTypeOK /\ OneCommand
  BY DEF PlayersInv
<1>1. /\ s \in Sent /\ s.mine /\ s.dir = directory /\ s.does = a
      /\ isSending' /\ isSending' \in BOOLEAN /\ sent' = sent \union {s}
      /\ Players!Toggles(a) \/ keep' = keep
      /\ keep' \in Shows
  BY <1>0 DEF PlayersTypeOK, Sent, Players!send, Players!Toggled, Shows
<1> HIDE DEF s
<1>2. PlayersTypeOK' /\ OneCommand' /\ ShownOrDue'
  BY <1>0, <1>1 DEF PlayersInv, PlayersTypeOK, OneCommand, ShownOrDue
<1>3. Owed => Owed'
  BY <1>1 DEF Owed, Waits
<1>4. ShownIsTrue' /\ ReadIsTrue'
  BY <1>3 DEF PlayersInv, ShownIsTrue, ReadIsTrue, Fresh, Waits
<1>5. BoxIsAnswered'
  BY <1>1 DEF PlayersInv, BoxIsAnswered, Waits
<1> QED BY <1>2, <1>4, <1>5 DEF PlayersInv

LEMMA PlayersClick ==
    ASSUME PlayersInv, Players!handlePlayerAction \/ Players!handleConfirmBan
    PROVE  PlayersInv'
<1>0. PlayersTypeOK /\ OneCommand
  BY DEF PlayersInv
<1>1. UNCHANGED <<game, directory, data, panelError, counted, call, queued, timers, blind, undone>>
  BY DEF Players!handlePlayerAction, Players!handleConfirmBan
<1>2. \/ banTarget' \in BOOLEAN /\ (banTarget' => ~isSending) /\ UNCHANGED <<isSending, sent, keep>>
      \/ ~isSending /\ ~banTarget' /\ banTarget' \in BOOLEAN /\ \E a \in Commands : Players!send(a)
  <2>1. CASE Players!handlePlayerAction
    <3>1. PICK a \in Players!RowOffers \union Players!PanelOffers :
             IF a = "ban" THEN banTarget' = TRUE /\ UNCHANGED <<isSending, sent, keep>>
             ELSE Players!send(a) /\ UNCHANGED banTarget
      BY <2>1 DEF Players!handlePlayerAction
    <3>2. a \in Commands /\ ~isSending /\ ~banTarget
      BY <2>1, <3>1 DEF Players!handlePlayerAction, Players!RowOffers, Players!PanelOffers, Commands
    <3> QED BY <1>0, <3>1, <3>2 DEF PlayersTypeOK
  <2>2. CASE Players!handleConfirmBan
    BY <1>0, <2>2 DEF Players!handleConfirmBan, PlayersTypeOK, OneCommand, Commands
  <2> QED BY <2>1, <2>2
<1>3. CASE banTarget' \in BOOLEAN /\ (banTarget' => ~isSending) /\ UNCHANGED <<isSending, sent, keep>>
  <2>1. PlayersTypeOK' /\ OneCommand' /\ ShownOrDue'
    BY <1>0, <1>1, <1>3 DEF PlayersInv, PlayersTypeOK, OneCommand, ShownOrDue
  <2>2. ShownIsTrue' /\ ReadIsTrue' /\ BoxIsAnswered'
    BY <1>1, <1>3 DEF PlayersInv, ShownIsTrue, ReadIsTrue, BoxIsAnswered, Fresh, Waits, Owed
  <2> QED BY <2>1, <2>2 DEF PlayersInv
<1>4. CASE ~isSending /\ ~banTarget' /\ banTarget' \in BOOLEAN /\ \E a \in Commands : Players!send(a)
  BY <1>1, <1>4, PlayersSend
<1> QED BY <1>2, <1>3, <1>4

\* What the game makes of a command is a standing again.
LEMMA ObeysIsStanding ==
    ASSUME NEW g \in Standings(Rules), NEW a \in Commands
    PROVE  Players!Obeys(g, a) \in Standings(Rules)
BY DEF Standings, Rules, Commands, Players!Obeys, Players!Toggles, Players!Toggled

LEMMA PlayersObeyed == ASSUME PlayersInv, Players!send_server_command PROVE PlayersInv'
<1>0. PlayersTypeOK /\ OneCommand
  BY DEF PlayersInv
<1>1. PICK s \in sent :
        /\ s.at = "sent"
        /\ \/ /\ game' = [game EXCEPT ![s.dir] = Players!Obeys(@, s.does)]
              /\ sent' = (sent \ {s}) \union {[s EXCEPT !.at = "ok"]}
              /\ blind' = (blind \/ (~s.mine /\ s.dir = directory))
           \/ /\ sent' = (sent \ {s}) \union {[s EXCEPT !.at = "failed"]}
              /\ UNCHANGED <<game, blind>>
        /\ UNCHANGED <<directory, data, panelError, keep, counted, isSending, banTarget, call, queued,
                       timers, undone>>
  BY DEF Players!send_server_command, Players!Panel
<1>2. PICK r \in Sent :
        /\ sent' = (sent \ {s}) \union {r} /\ r.mine = s.mine /\ r.dir = s.dir /\ r.does = s.does
        /\ (game' = game /\ blind' = blind) \/ r.at = "ok"
  <2>1. s \in Sent
    BY <1>0 DEF PlayersTypeOK
  <2>2. /\ [s EXCEPT !.at = "ok"] \in Sent /\ [s EXCEPT !.at = "failed"] \in Sent
        /\ [s EXCEPT !.at = "ok"].at = "ok"
        /\ \A x \in {"ok", "failed"} : /\ [s EXCEPT !.at = x].mine = s.mine
                                       /\ [s EXCEPT !.at = x].dir = s.dir
                                       /\ [s EXCEPT !.at = x].does = s.does
    BY <2>1 DEF Sent
  <2>3. CASE sent' = (sent \ {s}) \union {[s EXCEPT !.at = "ok"]}
    BY <2>2, <2>3
  <2>4. CASE sent' = (sent \ {s}) \union {[s EXCEPT !.at = "failed"]} /\ UNCHANGED <<game, blind>>
    BY <2>2, <2>4
  <2> QED BY <1>1, <2>3, <2>4
<1>3. /\ s \in Sent /\ s.dir \in Servers /\ s.does \in Commands /\ s.mine \in BOOLEAN
      /\ directory \in Servers /\ blind \in BOOLEAN
  BY <1>0 DEF PlayersTypeOK, Sent
<1>4. /\ game' \in [Servers -> Standings(Rules)] /\ blind' \in BOOLEAN
      /\ s.dir # directory => game'[directory] = game[directory]
      /\ blind => blind'
      /\ s.dir = directory => (game' = game /\ blind' = blind) \/ blind' \/ (r.at = "ok" /\ r.mine)
  <2>1. CASE game' = game /\ blind' = blind
    BY <1>0, <1>3, <2>1 DEF PlayersTypeOK
  <2>2. CASE game' = [game EXCEPT ![s.dir] = Players!Obeys(@, s.does)]
             /\ blind' = (blind \/ (~s.mine /\ s.dir = directory)) /\ r.at = "ok"
    <3>1. Players!Obeys(game[s.dir], s.does) \in Standings(Rules)
      BY <1>0, <1>3, ObeysIsStanding DEF PlayersTypeOK
    <3>2. game' \in [Servers -> Standings(Rules)] /\ (s.dir # directory => game'[directory] = game[directory])
      BY <1>0, <1>3, <2>2, <3>1 DEF PlayersTypeOK
    <3> QED BY <1>2, <1>3, <2>2, <3>2
  <2> QED BY <1>1, <1>2, <2>1, <2>2
<1>5. PlayersTypeOK'
  BY <1>0, <1>1, <1>2, <1>4 DEF PlayersTypeOK
<1>6. OneCommand' /\ ShownOrDue'
  BY <1>0, <1>1, <1>2 DEF PlayersInv, OneCommand, ShownOrDue
<1>7. Owed /\ game'[directory] = game[directory] => Owed'
  BY <1>1, <1>2 DEF Owed, Waits
<1>8. s.dir = directory => (game' = game /\ blind' = blind) \/ blind' \/ Owed'
  BY <1>1, <1>2, <1>4 DEF Owed
<1>9. ShownIsTrue' /\ ReadIsTrue'
  BY <1>1, <1>3, <1>4, <1>7, <1>8 DEF PlayersInv, ShownIsTrue, ReadIsTrue, Fresh, Waits
<1>10. BoxIsAnswered'
  BY <1>1, <1>2 DEF PlayersInv, BoxIsAnswered, Waits
<1> QED BY <1>5, <1>6, <1>9, <1>10 DEF PlayersInv

LEMMA PlayersReplied == ASSUME PlayersInv, Players!Replied PROVE PlayersInv'
<1>0. PlayersTypeOK /\ OneCommand
  BY DEF PlayersInv
<1>1. PICK s \in sent :
        /\ s.at # "sent" /\ sent' = sent \ {s}
        /\ isSending' = (isSending /\ ~s.mine)
        /\ timers' = IF s.mine /\ s.at = "ok" THEN timers \union {s.dir} ELSE timers
        /\ IF s.mine /\ s.at = "failed" /\ Players!Toggles(s.does)
           THEN keep' = s.previous /\ undone' = TRUE
           ELSE UNCHANGED <<keep, undone>>
        /\ UNCHANGED <<game, directory, data, panelError, counted, call, queued, banTarget, blind>>
  BY DEF Players!Replied
<1>2. s \in Sent /\ s.dir \in Servers /\ s.mine \in BOOLEAN /\ s.previous \in Shows
      /\ (s.at = "ok" \/ s.at = "failed")
  BY <1>0, <1>1 DEF PlayersTypeOK, Sent
<1>3. PlayersTypeOK'
  BY <1>0, <1>1, <1>2 DEF PlayersTypeOK
<1>4. OneCommand' /\ ShownOrDue'
  BY <1>0, <1>1, <1>2 DEF PlayersInv, PlayersTypeOK, OneCommand, ShownOrDue
<1>5. Owed => Owed'
  BY <1>1 DEF Owed, Waits
<1>6. ShownIsTrue' /\ ReadIsTrue'
  BY <1>1, <1>5 DEF PlayersInv, ShownIsTrue, ReadIsTrue, Fresh, Waits
<1>7. BoxIsAnswered'
  BY <1>1, <1>2 DEF PlayersInv, BoxIsAnswered, Waits
<1> QED BY <1>3, <1>4, <1>6, <1>7 DEF PlayersInv

LEMMA PlayersPlay == ASSUME PlayersInv, Players!GameChanges PROVE PlayersInv'
<1>0. PlayersTypeOK
  BY DEF PlayersInv
<1>1. /\ UNCHANGED <<directory, data, panelError, keep, counted, isSending, banTarget, call, queued,
                     timers, sent, undone>>
      /\ \E d \in Servers :
          \/ /\ game' = [game EXCEPT ![d].online = ~@]
             /\ blind' = (blind \/ (d = directory /\ game[d].online # counted))
          \/ /\ game' = [game EXCEPT ![d].keep = IF @ = "on" THEN "off" ELSE "on"]
             /\ blind' = (blind \/ d = directory)
  BY DEF Players!GameChanges, Players!Panel
<1>2. /\ game' \in [Servers -> Standings(Rules)] /\ blind' \in BOOLEAN /\ (blind => blind')
      /\ game'[directory] = game[directory] \/ blind' \/ counted # game'[directory].online
  <2>1. PICK d \in Servers :
          \/ /\ game' = [game EXCEPT ![d].online = ~@]
             /\ blind' = (blind \/ (d = directory /\ game[d].online # counted))
          \/ /\ game' = [game EXCEPT ![d].keep = IF @ = "on" THEN "off" ELSE "on"]
             /\ blind' = (blind \/ d = directory)
    BY <1>1
  <2>2. game[d] \in Standings(Rules) /\ counted \in BOOLEAN /\ directory \in Servers /\ blind \in BOOLEAN
        /\ game \in [Servers -> Standings(Rules)]
    BY <1>0 DEF PlayersTypeOK
  <2>3. CASE /\ game' = [game EXCEPT ![d].online = ~@]
             /\ blind' = (blind \/ (d = directory /\ game[d].online # counted))
    <3>1. [game[d] EXCEPT !.online = ~@] \in Standings(Rules)
          /\ [game[d] EXCEPT !.online = ~@].online = ~game[d].online
          /\ game[d].online \in BOOLEAN
      BY <2>2 DEF Standings
    <3>2. /\ game'[d] = [game[d] EXCEPT !.online = ~@]
          /\ \A e \in Servers \ {d} : game'[e] = game[e]
          /\ game' \in [Servers -> Standings(Rules)]
      BY <2>2, <2>3, <3>1
    <3> QED BY <2>2, <2>3, <3>1, <3>2
  <2>4. CASE /\ game' = [game EXCEPT ![d].keep = IF @ = "on" THEN "off" ELSE "on"]
             /\ blind' = (blind \/ d = directory)
    <3>1. [game[d] EXCEPT !.keep = IF @ = "on" THEN "off" ELSE "on"] \in Standings(Rules)
      BY <2>2 DEF Standings, Rules
    <3>2. /\ \A e \in Servers \ {d} : game'[e] = game[e]
          /\ game' \in [Servers -> Standings(Rules)]
      BY <2>2, <2>4, <3>1
    <3> QED BY <2>2, <2>4, <3>2
  <2> QED BY <2>1, <2>3, <2>4
<1>3. PlayersTypeOK' /\ OneCommand' /\ ShownOrDue'
  BY <1>0, <1>1, <1>2 DEF PlayersInv, PlayersTypeOK, OneCommand, ShownOrDue
<1>4. game'[directory] = game[directory] \/ blind' \/ Owed'
  BY <1>1, <1>2 DEF Owed
<1>5. Owed /\ game'[directory] = game[directory] => Owed'
  BY <1>1 DEF Owed, Waits
<1>6. ShownIsTrue' /\ ReadIsTrue'
  BY <1>1, <1>2, <1>4, <1>5 DEF PlayersInv, ShownIsTrue, ReadIsTrue, Fresh, Waits
<1>7. BoxIsAnswered'
  BY <1>1 DEF PlayersInv, BoxIsAnswered, Waits
<1> QED BY <1>3, <1>6, <1>7 DEF PlayersInv

LEMMA PlayersSteps == PlayersInv /\ [Next]_AllVars => PlayersInv'
<1> SUFFICES ASSUME PlayersInv, [Next]_AllVars PROVE PlayersInv'
  OBVIOUS
<1>1. CASE Players!PanelNext
  BY <1>1, PlayersAsked, PlayersAnswer, PlayersAnswered, PlayersTurn, PlayersClick, PlayersObeyed,
     PlayersReplied, PlayersPlay DEF Players!PanelNext
<1>2. CASE UNCHANGED playerVars
  BY <1>2 DEF playerVars, PlayersInv, PlayersTypeOK, OneCommand, ShownOrDue, ShownIsTrue, ReadIsTrue,
     BoxIsAnswered, Owed, Fresh, Waits
<1>3. Players!PanelNext \/ UNCHANGED playerVars
  BY DEF Next, AllVars
<1> QED BY <1>1, <1>2, <1>3

LEMMA QuietPanelIsTrue == PlayersInv => Players!QuietPanelIsTrue
<1> SUFFICES ASSUME PlayersInv, Players!IsQuiet PROVE Players!QuietPanelIsTrue
  BY DEF Players!QuietPanelIsTrue
<1>1. PlayersTypeOK /\ OneCommand /\ ShownOrDue
  BY DEF PlayersInv
<1>2. /\ call = Players!NoCall /\ timers = {} /\ ~isSending /\ counted = game[directory].online
      /\ ~queued /\ (\A s \in sent : ~s.mine) /\ (~panelError => data # Players!None)
  BY <1>1 DEF Players!IsQuiet, OneCommand, ShownOrDue
<1>3. ~Owed /\ ~Waits(Read) /\ ~Waits(Asked \union Read)
  BY <1>2, Kinds DEF Owed, Waits
<1> QED BY <1>1, <1>2, <1>3 DEF PlayersInv, ShownOrDue, ShownIsTrue, BoxIsAnswered, Fresh,
     Players!QuietPanelIsTrue

\* With no question in flight or due the players panel shows its server as it is, unless
\* it was told of a failure or the game changed unheard of, and the console shows the
\* last lines its server was given, unless a command reported too late
\* (use-online-players.ts, players-panel.tsx, use-server-terminal.ts).
THEOREM PanelsShowTheirServer == Spec => []PanelShowsItsServer
<1>1. Spec => []PlayersInv
  BY PlayersStart, PlayersSteps, PTL DEF Spec, AllVars
<1>2. Spec => []ConsoleInv
  BY ConsoleStarts, ConsoleSteps, PTL DEF Spec, AllVars
<1>3. PlayersInv /\ ConsoleInv => PanelShowsItsServer
  BY QuietPanelIsTrue DEF ConsoleInv, PanelShowsItsServer
<1> QED BY <1>1, <1>2, <1>3, PTL

--------------------------------------------------------------------------------
(* What is offered: jar updates.                                                *)

\* A jar was listed when it was made, or is one nobody lists.
IsRow(i, p) == /\ Listed[i].provider = p.name /\ Listed[i].version = p.version
               /\ Listed[i].stability = p.stability
KnownJar(p) == p.version \in Unlisted \/ \E i \in Updates!Out : IsRow(i, p)

\* The row a check resolves was the head of its channel: nothing the check was asked
\* about is above it.
HeadIsFirst ==
    checks.open /\ checks.row # Updates!None =>
        \E h \in Updates!Out :
            /\ checks.row = Listed[h] /\ Listed[h].provider = checks.from.name
            /\ Listed[h].stability = checks.from.stability
            /\ checks.from.version \in Unlisted
               \/ \E j \in Updates!Out : IsRow(j, checks.from) /\ h <= j

UpdateInv ==
    /\ unpublished \in Nat /\ DOMAIN checks = {"open", "from", "row", "started", "swept"}
    /\ KnownJar(conf) /\ KnownJar(checks.from)
    /\ Updates!Offer.status = "update-available" => KnownJar(Updates!Offer.target.provider)
    /\ confirm # Updates!None => KnownJar(confirm.provider)
    /\ update # Updates!None => "target" \in DOMAIN update /\ KnownJar(update.target.provider)
    /\ HeadIsFirst /\ Updates!OffersAreNewer

\* What the check concludes of a jar and the head of its channel.
OfferFits(p, q) == /\ p.name = q.name /\ p.stability = q.stability
                   /\ Updates!Place(q) # {} => Updates!NewerThan(p, q)
                   /\ Updates!compareVersionFamilies(p.version, q.version) # -1

LEMMA ListedRows ==
    /\ Len(Listed) \in Nat /\ DOMAIN Listed = 1..Len(Listed)
    /\ \A i \in DOMAIN Listed : Listed[i].provider # "bungeecord"
<1> DEFINE R == [provider : {"vanilla", "paper"}, stability : {"snapshot", "unstable", "stable"},
                 version : {"1.21.9-pre1", "25w37a", "25w36a", "1.22-pre1", "1.21.1", "1.20.6"}]
<1>1. Listed \in Seq(R) BY DEF Listed, Row
<1>2. Len(Listed) \in Nat /\ DOMAIN Listed = 1..Len(Listed) BY <1>1, LenProperties
<1>3. \A i \in 1..Len(Listed) : Listed[i] \in R BY <1>1, ElementOfSeq
<1>4. \A r \in R : r.provider # "bungeecord" OBVIOUS
<1> HIDE DEF R
<1> QED BY <1>2, <1>3, <1>4

\* Publishing a row takes none away.
LEMMA OutGrows ==
    ASSUME unpublished \in Nat, unpublished' \in {unpublished, unpublished - 1}
    PROVE  \A i \in Updates!Out : i \in Updates!Out'
<1>1. CASE unpublished' = unpublished BY <1>1 DEF Updates!Out
<1>2. CASE unpublished' = unpublished - 1
  <2>1. unpublished' \in Int /\ Len(Listed) \in Nat BY <1>2, ListedRows
  <2>2. ASSUME NEW i \in (unpublished + 1)..Len(Listed)
        PROVE  i \in (unpublished' + 1)..Len(Listed)
    BY <1>2, <2>1, <2>2
  <2> QED BY <2>2 DEF Updates!Out
<1> QED BY <1>1, <1>2

LEMMA KnownStays ==
    ASSUME unpublished \in Nat, unpublished' \in {unpublished, unpublished - 1}, NEW p
    PROVE  KnownJar(p) => p.version \in Unlisted \/ \E i \in Updates!Out' : IsRow(i, p)
BY OutGrows DEF KnownJar

\* A version is no older than itself.
LEMMA SameIsNotOlder ==
    ASSUME NEW v
    PROVE  Updates!compareVersionFamilies(v, v) # -1
BY DEF Updates!compareVersionFamilies

\* The head of the channel is offered only as newer: it is above every place of what
\* the check was asked about, or it is a newer build of the same.
LEMMA OfferIsNewer ==
    ASSUME UpdateInv, checks.open, checks.row # Updates!None,
           NEW check, check = Updates!checkServerJarUpdate(checks.from, checks.row),
           check.status = "update-available"
    PROVE  /\ OfferFits(check.target.provider, checks.from)
           /\ KnownJar(check.target.provider)
<1> DEFINE q == checks.from
           row == checks.row
           p == Updates!Published(row)
           current == Updates!parseVersionParts(q)
           latest  == [family |-> row.version, build |-> Updates!parseVersionParts(p).build]
<1>1. PICK h \in Updates!Out :
         /\ row = Listed[h] /\ Listed[h].provider = q.name /\ Listed[h].stability = q.stability
         /\ q.version \in Unlisted \/ \E j \in Updates!Out : IsRow(j, q) /\ h <= j
  BY DEF UpdateInv, HeadIsFirst
<1>2. \A i \in Updates!Out : i \in DOMAIN Listed /\ i \in Nat
  BY ListedRows DEF Updates!Out, UpdateInv
<1>3. p.name = q.name /\ p.stability = q.stability /\ p.version = row.version /\ IsRow(h, p)
  BY <1>1 DEF Updates!Published, IsRow
<1>4. q.name # "bungeecord" BY <1>1, <1>2, ListedRows
<1>5. /\ current.family = q.version /\ latest.family = row.version
      /\ current.build = IF Updates!Numbered(q) THEN q.build ELSE Updates!NoBuild
      /\ latest.build = IF Updates!Numbered(p) THEN p.build ELSE Updates!NoBuild
  BY <1>4 DEF Updates!parseVersionParts
<1>6. check.target.provider = p /\ Updates!isUpdateAvailable(current, latest, Updates!Channel(q))
  <2>1. check = IF Updates!isUpdateAvailable(current, latest, Updates!Channel(q))
                THEN [status |-> "update-available", target |-> [row |-> row, provider |-> p],
                      isMajor |-> Updates!isMajorMinecraftChange(q.name, current.family, latest.family)]
                ELSE [status |-> "up-to-date"]
    BY DEF Updates!checkServerJarUpdate
  <2> HIDE DEF q, row, p, current, latest
  <2> QED BY <2>1
<1> HIDE DEF q, row, p, current, latest
<1>7. KnownJar(p) BY <1>3 DEF KnownJar
<1>8. CASE current.family = latest.family
  <2>1. latest.build > current.build /\ latest.build # Updates!NoBuild
        /\ current.build # Updates!NoBuild
    BY <1>6, <1>8 DEF Updates!isUpdateAvailable
  <2>2. p.build > q.build /\ p.version = q.version BY <1>3, <1>5, <1>8, <2>1
  <2>3. Updates!NewerThan(p, q) BY <2>2 DEF Updates!NewerThan
  <2>4. Updates!compareVersionFamilies(p.version, q.version) # -1 BY <2>2, SameIsNotOlder
  <2> QED BY <1>3, <1>6, <1>7, <2>3, <2>4 DEF OfferFits, q
<1>9. CASE current.family # latest.family
  <2>1. Updates!compareVersionFamilies(row.version, q.version) # -1
    BY <1>5, <1>6, <1>9 DEF Updates!isUpdateAvailable
  <2>2. ASSUME Updates!Place(q) # {} PROVE Updates!NewerThan(p, q)
    <3>1. q.version \notin Unlisted BY <2>2, OfferAssumption DEF Updates!Place
    <3>2. PICK j \in Updates!Out : IsRow(j, q) /\ h <= j BY <1>1, <3>1
    <3>3. h # j BY <1>1, <1>5, <1>9, <3>2 DEF IsRow
    <3>4. h < j BY <1>2, <3>2, <3>3
    <3>5. h \in Updates!Place(p) /\ j \in Updates!Place(q)
      BY <1>2, <1>3, <3>2 DEF Updates!Place, IsRow
    <3> QED BY <3>4, <3>5 DEF Updates!NewerThan
  <2> QED BY <1>3, <1>6, <1>7, <2>1, <2>2 DEF OfferFits, q
<1> QED BY <1>8, <1>9

LEMMA LeastOfSome ==
    ASSUME NEW S, S \subseteq Nat, S # {}
    PROVE  Updates!Min(S) \in S /\ \A j \in S : Updates!Min(S) <= j
<1> DEFINE Below == OpToRel(<, Nat)
<1>1. IsWellFoundedOn(Below, Nat) BY NatLessThanWellFounded
<1> HIDE DEF Below
<1>2. PICK k \in S : \A j \in S : <<j, k>> \notin Below BY <1>1, WFMin
<1>3. \A j \in S : k <= j
  <2> SUFFICES ASSUME NEW j \in S, j < k PROVE FALSE OBVIOUS
  <2> QED BY <1>2 DEF Below, OpToRel
<1> QED BY <1>3 DEF Updates!Min

LEMMA UpdateStarts == Init => UpdateInv
<1> SUFFICES ASSUME Init PROVE UpdateInv OBVIOUS
<1>1. Updates!UpdateInit BY DEF Init
<1>2. unpublished \in Nat BY <1>1 DEF Updates!UpdateInit
<1>3. KnownJar(conf)
  <2>1. CASE \E row \in Updates!Rows : conf = Updates!Published(row)
    BY <2>1 DEF Updates!Rows, Updates!Published, KnownJar, IsRow
  <2>2. CASE conf.version \in Unlisted BY <2>2 DEF KnownJar
  <2> QED BY <1>1, <2>1, <2>2 DEF Updates!UpdateInit
<1> QED BY <1>1, <1>2, <1>3
        DEF Updates!UpdateInit, UpdateInv, HeadIsFirst, Updates!OffersAreNewer, Updates!Offer, Updates!Idle

\* A step that leaves the answer alone, or asks for another.
LEMMA UpdateChecks ==
    ASSUME UpdateInv, unpublished' \in {unpublished, unpublished - 1}, unpublished' \in Nat,
           KnownJar(conf)', confirm' # Updates!None => KnownJar(confirm.provider)',
           update' # Updates!None => "target" \in DOMAIN update' /\ KnownJar(update.target.provider)',
           \/ UNCHANGED <<checks, entry>>
           \/ UNCHANGED entry /\ checks' = [checks EXCEPT !.swept = TRUE]
           \/ /\ entry'.status # "result"
              /\ UNCHANGED checks \/ checks' = [checks EXCEPT !.open = FALSE]
           \/ /\ entry' = [status |-> "checking"]
              /\ DOMAIN checks' = DOMAIN checks /\ checks'.row = Updates!None
              /\ KnownJar(checks.from)'
    PROVE  UpdateInv'
<1>1. unpublished \in Nat /\ DOMAIN checks = {"open", "from", "row", "started", "swept"} /\ KnownJar(checks.from)
  BY DEF UpdateInv
<1>2. \A p : KnownJar(p) => p.version \in Unlisted \/ \E i \in Updates!Out' : IsRow(i, p)
  BY <1>1, KnownStays
<1>3. DOMAIN checks' = DOMAIN checks /\ KnownJar(checks.from)'
  <2>1. CASE checks'.from = checks.from /\ DOMAIN checks' = DOMAIN checks
    BY <1>1, <1>2, <2>1 DEF KnownJar, IsRow
  <2> QED BY <1>1, <2>1
<1>4. HeadIsFirst'
  <2>1. CASE checks'.row = Updates!None BY <2>1 DEF HeadIsFirst
  <2>2. CASE /\ checks'.row = checks.row /\ checks'.from = checks.from
             /\ checks'.open = checks.open \/ ~checks'.open
    <3>1. \A i \in Updates!Out : i \in Updates!Out' BY <1>1, OutGrows
    <3> QED BY <2>2, <3>1 DEF UpdateInv, HeadIsFirst, IsRow
  <2> QED BY <1>1, <2>1, <2>2
<1>5. (Updates!Offer.status = "update-available" => KnownJar(Updates!Offer.target.provider))'
      /\ Updates!OffersAreNewer'
  <2>1. CASE entry'.status # "result" BY <2>1 DEF Updates!Offer, Updates!OffersAreNewer
  <2>2. CASE UNCHANGED entry
    <3>1. Updates!Offer' = Updates!Offer BY <2>2 DEF Updates!Offer
    <3>2. Updates!OffersAreNewer'
      BY <2>2, <3>1 DEF UpdateInv, Updates!OffersAreNewer
    <3>3. Updates!Offer.status = "update-available" =>
             LET p == Updates!Offer.target.provider
             IN  p.version \in Unlisted \/ \E i \in Updates!Out' : IsRow(i, p)
      BY <1>2 DEF UpdateInv
    <3> QED BY <3>1, <3>2, <3>3 DEF KnownJar, IsRow
  <2> QED BY <2>1, <2>2
<1> QED BY <1>1, <1>3, <1>4, <1>5 DEF UpdateInv

\* The list has come.
LEMMA UpdateFetches == ASSUME UpdateInv, Updates!fetchJarRows PROVE UpdateInv'
<1>1. /\ checks.open /\ checks.row = Updates!None
      /\ UNCHANGED <<unpublished, newest, conf, jar, confirm, isUpdating, update>>
  BY DEF Updates!fetchJarRows
<1>2. unpublished \in Nat /\ DOMAIN checks = {"open", "from", "row", "started", "swept"}
      /\ KnownJar(conf) /\ KnownJar(checks.from)
  BY DEF UpdateInv
<1>3. /\ KnownJar(conf)'
      /\ confirm' # Updates!None => KnownJar(confirm.provider)'
      /\ update' # Updates!None => "target" \in DOMAIN update' /\ KnownJar(update.target.provider)'
  BY <1>1 DEF UpdateInv, KnownJar, Updates!Out, IsRow, Updates!None
<1>4. CASE /\ Updates!Channel(checks.from) # {}
           /\ checks' = [checks EXCEPT !.row = Listed[Updates!Min(Updates!Channel(checks.from))]]
           /\ UNCHANGED entry
  <2> DEFINE S == Updates!Channel(checks.from)
             h == Updates!Min(S)
  <2>1. S \subseteq Nat
    BY <1>2, ListedRows DEF Updates!Channel, Updates!Out
  <2>2. h \in S /\ \A j \in S : h <= j
    BY <1>4, <2>1, LeastOfSome
  <2>3. /\ DOMAIN checks' = DOMAIN checks /\ checks'.open = checks.open /\ checks'.from = checks.from
        /\ checks'.row = Listed[h]
    BY <1>2, <1>4
  <2>4. \A j : j \in S <=> /\ j \in Updates!Out /\ Listed[j].provider = checks.from.name
                           /\ Listed[j].stability = checks.from.stability
    BY DEF Updates!Channel
  <2> HIDE DEF S, h
  <2>5. checks.from.version \in Unlisted
        \/ \E j \in Updates!Out : IsRow(j, checks.from) /\ h <= j
    BY <1>2, <2>2, <2>4 DEF KnownJar, IsRow
  <2>6. HeadIsFirst'
    <3>1. Updates!Out' = Updates!Out BY <1>1 DEF Updates!Out
    <3> QED BY <2>2, <2>3, <2>4, <2>5, <3>1 DEF HeadIsFirst, IsRow
  <2>7. KnownJar(checks.from)' BY <1>1, <1>2, <2>3 DEF KnownJar, Updates!Out, IsRow
  <2>8. (Updates!Offer.status = "update-available" => KnownJar(Updates!Offer.target.provider))'
        /\ Updates!OffersAreNewer'
    <3>1. Updates!Offer' = Updates!Offer BY <1>4 DEF Updates!Offer
    <3>2. Updates!Out' = Updates!Out BY <1>1 DEF Updates!Out
    <3> QED BY <1>4, <3>1, <3>2 DEF UpdateInv, Updates!OffersAreNewer, KnownJar, IsRow
  <2> QED BY <1>1, <1>2, <1>3, <2>3, <2>6, <2>7, <2>8 DEF UpdateInv
<1>5. CASE entry' = Updates!Result([status |-> "unsupported"]) /\ checks' = [checks EXCEPT !.open = FALSE]
  <2>1. Updates!Offer'.status = "unsupported"
    BY <1>5 DEF Updates!Offer, Updates!Result
  <2>2. DOMAIN checks' = DOMAIN checks /\ ~checks'.open /\ checks'.from = checks.from
    BY <1>2, <1>5
  <2>3. KnownJar(checks.from)' BY <1>1, <1>2, <2>2 DEF KnownJar, Updates!Out, IsRow
  <2> QED BY <1>1, <1>2, <1>3, <2>1, <2>2, <2>3 DEF UpdateInv, HeadIsFirst, Updates!OffersAreNewer
<1> QED BY <1>4, <1>5 DEF Updates!fetchJarRows

\* The row is resolved.
LEMMA UpdateResolves == ASSUME UpdateInv, Updates!resolveJarRow PROVE UpdateInv'
<1> DEFINE check == Updates!checkServerJarUpdate(checks.from, checks.row)
<1>1. /\ checks.open /\ checks.row # Updates!None
      /\ entry' = [status |-> "result", check |-> check, from |-> checks.from]
      /\ checks' = [checks EXCEPT !.open = FALSE]
      /\ UNCHANGED <<unpublished, newest, conf, jar, confirm, isUpdating, update>>
  BY DEF Updates!resolveJarRow, Updates!Result
<1>2. check.status = "update-available" =>
          OfferFits(check.target.provider, checks.from) /\ KnownJar(check.target.provider)
  BY <1>1, OfferIsNewer
<1>3. unpublished \in Nat /\ DOMAIN checks = {"open", "from", "row", "started", "swept"}
      /\ KnownJar(conf) /\ KnownJar(checks.from)
  BY DEF UpdateInv
<1> HIDE DEF check
<1>4. /\ KnownJar(conf)'
      /\ confirm' # Updates!None => KnownJar(confirm.provider)'
      /\ update' # Updates!None => "target" \in DOMAIN update' /\ KnownJar(update.target.provider)'
  BY <1>1 DEF UpdateInv, KnownJar, Updates!Out, IsRow, Updates!None
<1>5. DOMAIN checks' = DOMAIN checks /\ ~checks'.open /\ checks'.from = checks.from
  BY <1>1, <1>3
<1>6. KnownJar(checks.from)' BY <1>1, <1>3, <1>5 DEF KnownJar, Updates!Out, IsRow
<1>7. Updates!Offer' = check /\ entry'.from = checks.from BY <1>1 DEF Updates!Offer
<1>8. Updates!Out' = Updates!Out BY <1>1 DEF Updates!Out
<1>9. (Updates!Offer.status = "update-available" => KnownJar(Updates!Offer.target.provider))'
      /\ Updates!OffersAreNewer'
  BY <1>2, <1>7, <1>8 DEF OfferFits, Updates!OffersAreNewer, KnownJar, IsRow
<1> QED BY <1>1, <1>3, <1>4, <1>5, <1>6, <1>9 DEF UpdateInv, HeadIsFirst

\* The checks that are asked for, and the rest of the row.
LEMMA UpdateAsks == ASSUME UpdateInv, Updates!Check \/ Updates!Sweep \/ Updates!CheckFails PROVE UpdateInv'
<1>0. unpublished \in Nat /\ DOMAIN checks = {"open", "from", "row", "started", "swept"} /\ KnownJar(conf)
  BY DEF UpdateInv
<1>1. UNCHANGED <<unpublished, newest, conf, jar, confirm, isUpdating, update>>
  BY DEF Updates!Check, Updates!Sweep, Updates!CheckFails
<1>2. /\ unpublished' \in {unpublished, unpublished - 1} /\ unpublished' \in Nat /\ KnownJar(conf)'
      /\ confirm' # Updates!None => KnownJar(confirm.provider)'
      /\ update' # Updates!None => "target" \in DOMAIN update' /\ KnownJar(update.target.provider)'
  BY <1>0, <1>1 DEF UpdateInv, KnownJar, Updates!Out, IsRow, Updates!None
<1>3. \/ UNCHANGED <<checks, entry>>
      \/ UNCHANGED entry /\ checks' = [checks EXCEPT !.swept = TRUE]
      \/ /\ entry'.status # "result"
         /\ UNCHANGED checks \/ checks' = [checks EXCEPT !.open = FALSE]
      \/ /\ entry' = [status |-> "checking"]
         /\ DOMAIN checks' = DOMAIN checks /\ checks'.row = Updates!None
         /\ KnownJar(checks.from)'
  <2>1. CASE Updates!CheckFails BY <2>1 DEF Updates!CheckFails
  <2>2. CASE Updates!Sweep /\ ~checks.open
    <3>1. /\ entry' = [status |-> "checking"] /\ DOMAIN checks' = DOMAIN checks
          /\ checks'.row = Updates!None /\ checks'.from = conf
      BY <1>0, <2>2 DEF Updates!Sweep
    <3> QED BY <1>2, <1>1, <3>1 DEF KnownJar, IsRow
  <2>3. CASE Updates!Sweep /\ checks.open BY <2>3 DEF Updates!Sweep
  <2>4. CASE Updates!Check /\ ~checks.open
    <3>1. /\ entry' = [status |-> "checking"] /\ DOMAIN checks' = DOMAIN checks
          /\ checks'.row = Updates!None /\ checks'.from = conf
      BY <1>0, <2>4 DEF Updates!Check, Updates!checkServer
    <3> QED BY <1>2, <1>1, <3>1 DEF KnownJar, IsRow
  <2>5. CASE Updates!Check /\ checks.open BY <2>5 DEF Updates!Check, Updates!checkServer
  <2> QED BY <2>1, <2>2, <2>3, <2>4, <2>5
<1> QED BY <1>2, <1>3, UpdateChecks

LEMMA UpdateClicks ==
    ASSUME UpdateInv,
           \/ Updates!handleUpdateClick \/ Updates!Answer \/ Updates!downloadAndResolveJarRow
           \/ Updates!UpdateFails \/ Updates!Reopen
    PROVE  UpdateInv'
<1>0. /\ unpublished \in Nat /\ KnownJar(conf)
      /\ Updates!Offer.status = "update-available" => KnownJar(Updates!Offer.target.provider)
      /\ confirm # Updates!None => KnownJar(confirm.provider)
      /\ update # Updates!None => "target" \in DOMAIN update /\ KnownJar(update.target.provider)
  BY DEF UpdateInv
<1>1. UNCHANGED <<unpublished, newest, conf, jar, entry, checks>>
  BY DEF Updates!handleUpdateClick, Updates!Answer, Updates!downloadAndResolveJarRow,
         Updates!UpdateFails, Updates!Reopen
<1>2. unpublished' \in {unpublished, unpublished - 1} /\ unpublished' \in Nat /\ KnownJar(conf)'
  BY <1>0, <1>1 DEF KnownJar, Updates!Out, IsRow
<1>3. confirm' # Updates!None => KnownJar(confirm'.provider)
  <2>1. \/ confirm' = confirm
        \/ confirm' = Updates!None
        \/ Updates!Offer.status = "update-available" /\ confirm' = Updates!Offer.target
    BY DEF Updates!handleUpdateClick, Updates!Answer, Updates!downloadAndResolveJarRow,
           Updates!UpdateFails, Updates!Reopen, Updates!runUpdate
  <2> QED BY <1>0, <2>1
<1>4. update' # Updates!None => "target" \in DOMAIN update' /\ KnownJar(update'.target.provider)
  <2>1. ASSUME NEW target_, NEW backup, Updates!runUpdate(target_, backup)
        PROVE  "target" \in DOMAIN update' /\ update'.target = target_
    BY <2>1 DEF Updates!runUpdate
  <2>2. CASE update' = update \/ update' = Updates!None BY <1>0, <2>2
  <2>3. CASE Updates!handleUpdateClick /\ update' # update
    <3>1. Updates!Offer.status = "update-available" /\ Updates!runUpdate(Updates!Offer.target, FALSE)
      BY <2>3 DEF Updates!handleUpdateClick
    <3> QED BY <1>0, <2>1, <3>1
  <2>4. CASE Updates!Answer /\ update' # update
    <3>1. PICK backup \in BOOLEAN : confirm # Updates!None /\ Updates!runUpdate(confirm, backup)
      BY <2>4 DEF Updates!Answer
    <3> QED BY <1>0, <2>1, <3>1
  <2>5. CASE Updates!downloadAndResolveJarRow
    <3>1. /\ update # Updates!None
          /\ update' = IF update.step = "backup" THEN [update EXCEPT !.step = "download"]
                       ELSE [target |-> update.target, step |-> "install",
                             jar |-> Updates!Published(update.target.row)]
      BY <2>5 DEF Updates!downloadAndResolveJarRow
    <3>2. "target" \in DOMAIN update' /\ update'.target = update.target
      <4>1. CASE update.step = "backup"
        <5>1. update' = [update EXCEPT !.step = "download"] BY <3>1, <4>1
        <5> QED BY <1>0, <3>1, <5>1
      <4>2. CASE update.step # "backup" BY <3>1, <4>2
      <4> QED BY <4>1, <4>2
    <3> QED BY <1>0, <3>1, <3>2
  <2>6. CASE Updates!UpdateFails BY <2>6 DEF Updates!UpdateFails
  <2>7. CASE Updates!Reopen BY <2>2, <2>7 DEF Updates!Reopen
  <2> QED BY <2>2, <2>3, <2>4, <2>5, <2>6, <2>7
<1>5. /\ confirm' # Updates!None => KnownJar(confirm.provider)'
      /\ update' # Updates!None => "target" \in DOMAIN update' /\ KnownJar(update.target.provider)'
  BY <1>1, <1>3, <1>4 DEF KnownJar, Updates!Out, IsRow, Updates!None
<1> QED BY <1>1, <1>2, <1>5, UpdateChecks

LEMMA UpdateInstalls ==
    ASSUME UpdateInv, Updates!Installed \/ Updates!Swap \/ Updates!Publish
    PROVE  UpdateInv'
<1>0. /\ unpublished \in Nat /\ DOMAIN checks = {"open", "from", "row", "started", "swept"}
      /\ KnownJar(conf)
      /\ confirm # Updates!None => KnownJar(confirm.provider)
      /\ update # Updates!None => "target" \in DOMAIN update /\ KnownJar(update.target.provider)
  BY DEF UpdateInv
<1>1. CASE Updates!Installed
  <2>1. /\ update # Updates!None /\ conf' = update.target.provider /\ update' = Updates!None
        /\ UNCHANGED <<unpublished, newest, confirm>>
        /\ Updates!checkServer(update.target.provider)
    BY <1>1 DEF Updates!Installed
  <2>2. KnownJar(conf)' /\ (confirm' # Updates!None => KnownJar(confirm.provider)')
    BY <1>0, <2>1 DEF KnownJar, Updates!Out, IsRow
  <2>3. \/ UNCHANGED <<checks, entry>>
        \/ /\ entry' = [status |-> "checking"]
           /\ DOMAIN checks' = DOMAIN checks /\ checks'.row = Updates!None
           /\ KnownJar(checks.from)'
    <3>1. CASE checks.open BY <2>1, <3>1 DEF Updates!checkServer
    <3>2. CASE ~checks.open
      <4>1. /\ entry' = [status |-> "checking"] /\ DOMAIN checks' = DOMAIN checks
            /\ checks'.row = Updates!None /\ checks'.from = conf'
        BY <1>0, <2>1, <3>2 DEF Updates!checkServer
      <4> QED BY <2>2, <4>1 DEF KnownJar, IsRow
    <3> QED BY <3>1, <3>2
  <2> QED BY <1>0, <2>1, <2>2, <2>3, UpdateChecks
<1>2. CASE Updates!Swap
  <2>1. PICK row \in Updates!Rows :
           conf' = Updates!Published(row)
           /\ UNCHANGED <<unpublished, newest, entry, checks, confirm, isUpdating>>
           /\ update = Updates!None
    BY <1>2 DEF Updates!Swap
  <2>2. PICK i \in Updates!Out : row = Listed[i] BY DEF Updates!Rows
  <2>3. IsRow(i, conf') BY <2>1, <2>2 DEF Updates!Published, IsRow
  <2>4. Updates!Out' = Updates!Out BY <2>1 DEF Updates!Out
  <2>5. KnownJar(conf)' BY <2>3, <2>4 DEF KnownJar, IsRow
  <2>6. update' = update BY <1>2 DEF Updates!Swap
  <2>7. confirm' # Updates!None => KnownJar(confirm.provider)'
    BY <1>0, <2>1, <2>4 DEF KnownJar, IsRow
  <2> QED BY <1>0, <2>1, <2>5, <2>6, <2>7, UpdateChecks DEF Updates!None
<1>3. CASE Updates!Publish
  <2>1. /\ UNCHANGED <<conf, jar, entry, checks, confirm, isUpdating, update>>
        /\ unpublished' = unpublished \/ (unpublished > 0 /\ unpublished' = unpublished - 1)
    BY <1>3 DEF Updates!Publish
  <2>2. unpublished' \in {unpublished, unpublished - 1} /\ unpublished' \in Nat
    BY <1>0, <2>1
  <2>3. \A p : KnownJar(p) => p.version \in Unlisted \/ \E i \in Updates!Out' : IsRow(i, p)
    BY <1>0, <2>2, KnownStays
  <2>4. /\ KnownJar(conf)'
        /\ confirm' # Updates!None => KnownJar(confirm.provider)'
        /\ update' # Updates!None => "target" \in DOMAIN update' /\ KnownJar(update.target.provider)'
    BY <1>0, <2>1, <2>3 DEF KnownJar, IsRow, Updates!None
  <2> QED BY <2>1, <2>2, <2>4, UpdateChecks
<1> QED BY <1>1, <1>2, <1>3

LEMMA UpdateSteps == UpdateInv /\ [Next]_AllVars => UpdateInv'
<1> SUFFICES ASSUME UpdateInv, [Next]_AllVars PROVE UpdateInv'
  OBVIOUS
<1>1. CASE Updates!UpdateNext
  BY <1>1, UpdateFetches, UpdateResolves, UpdateAsks, UpdateClicks, UpdateInstalls
     DEF Updates!UpdateNext
<1>2. CASE UNCHANGED updateVars
  BY <1>2 DEF updateVars, UpdateInv, KnownJar, IsRow, HeadIsFirst, Updates!Out, Updates!Offer,
     Updates!OffersAreNewer, Updates!None
<1>3. Updates!UpdateNext \/ UNCHANGED updateVars
  BY DEF Next, AllVars
<1> QED BY <1>1, <1>2, <1>3

--------------------------------------------------------------------------------
(* What is offered: the jar browser.                                            *)

\* One fetch at most is live, and it is the open tab's; what is selected is of it too.
BrowserInv ==
    /\ DOMAIN browser = {"is", "tab", "all", "loading"} /\ browser.loading \in BOOLEAN
    /\ \A f \in fetches : DOMAIN f = {"tab", "all", "live"}
    /\ \A f, g \in fetches : f.live /\ g.live => f = g
    /\ browser.is # "open" => \A f \in fetches : ~f.live
    /\ browser.is = "open" =>
          /\ \A f \in fetches : f.live => f.tab = browser.tab
          /\ browser.loading => selected = {}
          /\ ~browser.loading => \A r \in rows : r.tab = browser.tab
    /\ browser.is # "closed" => \A r \in selected : r.tab = browser.tab
    /\ Browser!PickIsShown

\* What the filters let through.
LEMMA FilterLetsThrough ==
    ASSUME NEW of, NEW f
    PROVE  \A r \in Browser!filterJarRows(of, f) :
              r \in of /\ (Browser!Stable(r) \/ f.scope # "stable")
BY DEF Browser!filterJarRows, Browser!Stable

\* A fetch is the only live one, and none outlives its browser.
LEMMA FetchIsAlone ==
    ASSUME BrowserInv, NEW tab, NEW all, Browser!fetch(tab, all)
    PROVE  /\ \A f \in fetches' : DOMAIN f = {"tab", "all", "live"}
           /\ \A f, g \in fetches' : f.live /\ g.live => f = g
           /\ \A f \in fetches' : f.live => f.tab = tab
           /\ \E f \in fetches' : f.live
<1> DEFINE new == [tab |-> tab, all |-> all, live |-> TRUE]
<1>1. \A f \in fetches' : (DOMAIN f = {"tab", "all", "live"} /\ ~f.live) \/ f = new
  BY DEF BrowserInv, Browser!fetch
<1>2. new \in fetches' BY DEF Browser!fetch
<1>3. DOMAIN new = {"tab", "all", "live"} /\ new.live /\ new.tab = tab OBVIOUS
<1> HIDE DEF new
<1> QED BY <1>1, <1>2, <1>3

LEMMA FetchesEnd ==
    ASSUME BrowserInv, Browser!unmount
    PROVE  \A f \in fetches' : DOMAIN f = {"tab", "all", "live"} /\ ~f.live
BY DEF BrowserInv, Browser!unmount

\* While its rows are fetched a browser shows none.
LEMMA BrowserFetches ==
    ASSUME BrowserInv, NEW tab, NEW all, Browser!fetch(tab, all),
           DOMAIN browser' = DOMAIN browser, browser'.is = "open", browser'.tab = tab,
           browser'.loading = TRUE, selected' = {}, UNCHANGED picks
    PROVE  BrowserInv'
<1>1. /\ \A f \in fetches' : DOMAIN f = {"tab", "all", "live"}
      /\ \A f, g \in fetches' : f.live /\ g.live => f = g
      /\ \A f \in fetches' : f.live => f.tab = tab
      /\ \E f \in fetches' : f.live
  BY FetchIsAlone
<1>2. Browser!PickIsShown'
  BY <1>1 DEF BrowserInv, Browser!PickIsShown, Browser!visibleRows
<1> QED BY <1>1, <1>2 DEF BrowserInv

\* What is filtered otherwise keeps what is still let through.
LEMMA BrowserFilters ==
    ASSUME BrowserInv, browser.is = "open", Browser!keepVisible,
           UNCHANGED <<browser, rows, fetches, picks>>
    PROVE  BrowserInv'
<1>1. /\ selected' \subseteq selected
      /\ selected' \subseteq Browser!filterJarRows(rows', filters')
  BY DEF Browser!keepVisible
<1>2. browser.loading => selected = {} BY DEF BrowserInv
<1>3. ~browser.loading => \A r \in rows : r.tab = browser.tab BY DEF BrowserInv
<1>4. \A r \in Browser!filterJarRows(rows', filters') :
         r \in rows' /\ (Browser!Stable(r) \/ filters'.scope # "stable")
  BY FilterLetsThrough
<1>5. Browser!PickIsShown'
  BY <1>1, <1>2, <1>3, <1>4 DEF BrowserInv, Browser!PickIsShown, Browser!visibleRows
<1> QED BY <1>1, <1>5 DEF BrowserInv

LEMMA BrowserStarts == Init => BrowserInv
BY DEF Init, Browser!BrowserInit, BrowserInv, Browser!PickIsShown

LEMMA BrowserMounts ==
    ASSUME BrowserInv, Browser!mount, UNCHANGED picks
    PROVE  BrowserInv'
<1>1. /\ browser' = [is |-> "open", tab |-> "plugin", all |-> FALSE, loading |-> TRUE]
      /\ Browser!fetch("plugin", FALSE) /\ selected' = {}
  BY DEF Browser!mount
<1>2. DOMAIN browser' = DOMAIN browser BY <1>1 DEF BrowserInv
<1> QED BY <1>1, <1>2, BrowserFetches

LEMMA BrowserClicks ==
    ASSUME BrowserInv,
           \/ Browser!selectTab \/ Browser!handleStabilityChange
           \/ Browser!handleFilterChange \/ Browser!onSelectRow
    PROVE  BrowserInv'
<1>1. DOMAIN browser = {"is", "tab", "all", "loading"} BY DEF BrowserInv
<1>2. CASE Browser!selectTab
  <2>1. PICK tab \in Browser!Tabs :
          /\ browser' = [browser EXCEPT !.tab = tab, !.all = FALSE, !.loading = TRUE]
          /\ browser.is = "open" /\ Browser!fetch(tab, FALSE) /\ selected' = {} /\ UNCHANGED picks
    BY <1>2 DEF Browser!selectTab
  <2>2. /\ DOMAIN browser' = DOMAIN browser /\ browser'.is = "open" /\ browser'.tab = tab
        /\ browser'.loading = TRUE
    BY <1>1, <2>1
  <2> QED BY <2>1, <2>2, BrowserFetches
<1>3. CASE Browser!handleStabilityChange
  <2>1. /\ browser.is = "open" /\ UNCHANGED <<rows, picks>>
        /\ \/ /\ browser' = [browser EXCEPT !.all = TRUE, !.loading = TRUE]
              /\ Browser!fetch(browser.tab, TRUE) /\ selected' = {}
           \/ Browser!keepVisible /\ UNCHANGED <<browser, fetches>>
    BY <1>3 DEF Browser!handleStabilityChange
  <2>2. CASE /\ browser' = [browser EXCEPT !.all = TRUE, !.loading = TRUE]
             /\ Browser!fetch(browser.tab, TRUE) /\ selected' = {}
    <3>1. /\ DOMAIN browser' = DOMAIN browser /\ browser'.is = "open"
          /\ browser'.tab = browser.tab /\ browser'.loading = TRUE
      BY <1>1, <2>1, <2>2
    <3> QED BY <2>1, <2>2, <3>1, BrowserFetches
  <2> QED BY <2>1, <2>2, BrowserFilters
<1>4. CASE Browser!handleFilterChange
  BY <1>4, BrowserFilters DEF Browser!handleFilterChange
<1>5. CASE Browser!onSelectRow
  <2>1. PICK r \in Browser!visibleRows : selected' = {r} BY <1>5 DEF Browser!onSelectRow
  <2>2. /\ browser.is = "open" /\ UNCHANGED <<browser, rows, fetches, filters, picks>>
    BY <1>5 DEF Browser!onSelectRow
  <2>3. ~browser.loading /\ r.tab = browser.tab
    BY <2>1, <2>2 DEF BrowserInv, Browser!PickIsShown, Browser!visibleRows
  <2>4. Browser!PickIsShown'
    BY <2>1, <2>2 DEF BrowserInv, Browser!PickIsShown, Browser!visibleRows
  <2> QED BY <2>1, <2>2, <2>3, <2>4 DEF BrowserInv
<1> QED BY <1>2, <1>3, <1>4, <1>5

LEMMA BrowserAnswers == ASSUME BrowserInv, Browser!FetchReturns PROVE BrowserInv'
<1>1. PICK f \in fetches :
        /\ fetches' = fetches \ {f} /\ UNCHANGED <<filters, picks>>
        /\ IF f.live
           THEN /\ rows' \in {{}, {r \in JarRows : r.tab = f.tab /\ (f.all \/ Browser!Stable(r))}}
                /\ browser' = [browser EXCEPT !.loading = FALSE] /\ Browser!keepVisible
           ELSE UNCHANGED <<rows, browser, selected>>
  BY DEF Browser!FetchReturns
<1>2. CASE ~f.live
  <2>1. /\ UNCHANGED <<rows, browser, selected, filters, picks>>
        /\ \A g : g.live => (g \in fetches' <=> g \in fetches)
    BY <1>1, <1>2
  <2>2. Browser!PickIsShown'
    BY <2>1 DEF BrowserInv, Browser!PickIsShown, Browser!visibleRows
  <2> QED BY <1>1, <2>1, <2>2 DEF BrowserInv
<1>3. CASE f.live
  <2>1. /\ browser.is = "open" /\ f.tab = browser.tab /\ \A g \in fetches' : ~g.live
    BY <1>1, <1>3 DEF BrowserInv
  <2>2. /\ DOMAIN browser' = DOMAIN browser /\ browser'.is = "open" /\ browser'.tab = browser.tab
        /\ browser'.loading = FALSE
    BY <1>1, <1>3, <2>1 DEF BrowserInv
  <2>3. /\ \A r \in rows' : r.tab = browser'.tab
        /\ selected' \subseteq selected /\ selected' \subseteq Browser!filterJarRows(rows', filters')
    BY <1>1, <1>3, <2>1, <2>2 DEF Browser!keepVisible
  <2>4. \A r \in Browser!filterJarRows(rows', filters') :
           r \in rows' /\ (Browser!Stable(r) \/ filters'.scope # "stable")
    BY FilterLetsThrough
  <2>5. Browser!PickIsShown'
    BY <1>1, <2>1, <2>2, <2>3, <2>4 DEF BrowserInv, Browser!PickIsShown, Browser!visibleRows
  <2> QED BY <1>1, <2>1, <2>2, <2>3, <2>5 DEF BrowserInv
<1> QED BY <1>2, <1>3

LEMMA BrowserCloses ==
    ASSUME BrowserInv, Browser!Close \/ Browser!onConfirm \/ Browser!DownloadReturns
    PROVE  BrowserInv'
<1>1. DOMAIN browser = {"is", "tab", "all", "loading"} /\ browser.loading \in BOOLEAN
  BY DEF BrowserInv
<1>2. CASE Browser!Close \/ Browser!onConfirm
  <2>1. PICK is \in {"closed", "downloading"} :
          /\ browser.is = "open" /\ browser' = [browser EXCEPT !.is = is]
          /\ Browser!unmount /\ UNCHANGED <<rows, filters, selected, picks>>
    BY <1>2 DEF Browser!Close, Browser!onConfirm
  <2>2. /\ DOMAIN browser' = DOMAIN browser /\ browser'.is # "open" /\ browser'.tab = browser.tab
        /\ browser'.loading = browser.loading
    BY <1>1, <2>1
  <2>3. \A f \in fetches' : DOMAIN f = {"tab", "all", "live"} /\ ~f.live
    BY <2>1, FetchesEnd
  <2>4. \A r \in selected : r.tab = browser.tab BY <2>1 DEF BrowserInv
  <2> QED BY <1>1, <2>1, <2>2, <2>3, <2>4 DEF BrowserInv, Browser!PickIsShown
<1>3. CASE Browser!DownloadReturns
  <2>1. browser.is = "downloading" BY <1>3 DEF Browser!DownloadReturns
  <2>2. CASE /\ picks' = {[row |-> r, tab |-> browser.tab] : r \in selected}
             /\ browser' = [browser EXCEPT !.is = "closed"]
             /\ UNCHANGED <<rows, fetches, filters, selected>>
    <3>1. /\ DOMAIN browser' = DOMAIN browser /\ browser'.is = "closed"
          /\ browser'.loading = browser.loading
      BY <1>1, <2>2
    <3>2. \A p \in picks' : p.row.tab = p.tab BY <2>1, <2>2 DEF BrowserInv
    <3> QED BY <1>1, <2>1, <2>2, <3>1, <3>2 DEF BrowserInv, Browser!PickIsShown
  <2>3. CASE Browser!mount /\ UNCHANGED picks BY <2>3, BrowserMounts
  <2> QED BY <1>3, <2>2, <2>3 DEF Browser!DownloadReturns
<1> QED BY <1>2, <1>3

LEMMA BrowserSteps == BrowserInv /\ [Next]_AllVars => BrowserInv'
<1> SUFFICES ASSUME BrowserInv, [Next]_AllVars PROVE BrowserInv'
  OBVIOUS
<1>1. CASE Browser!BrowserNext
  <2>1. CASE Browser!Open BY <2>1, BrowserMounts DEF Browser!Open
  <2> QED BY <1>1, <2>1, BrowserClicks, BrowserAnswers, BrowserCloses DEF Browser!BrowserNext
<1>2. CASE UNCHANGED browserVars
  BY <1>2 DEF browserVars, BrowserInv, Browser!PickIsShown, Browser!visibleRows
<1>3. Browser!BrowserNext \/ UNCHANGED browserVars
  BY DEF Next, AllVars
<1> QED BY <1>1, <1>2, <1>3

--------------------------------------------------------------------------------
(* What is offered: Modrinth.                                                   *)

\* Only the loads of what the filters name are live, and what an open project shows
\* fits them.
SameFilters(s, r) == /\ Modrinth!usesLoader(s) <=> Modrinth!usesLoader(r)
                     /\ Modrinth!gameOf(s) = Modrinth!gameOf(r)
Fitting(s)  == {v \in Versions : v.project = hit /\ Modrinth!Fits(v, s)}

ModrinthInv ==
    /\ \A l \in searches : DOMAIN l = {"of", "live"} /\ (l.live => l.of = search)
    /\ \A l \in details : DOMAIN l = {"project", "of", "live"}
    /\ hit # Modrinth!NoHit =>
          /\ \A l \in details : l.live => l.project = hit /\ SameFilters(l.of, search)
          /\ versions # {} => versions = Fitting(search)
    /\ Modrinth!PageIsOfSearch /\ Modrinth!InstallsWhatFits

LEMMA LoadsEnd ==
    ASSUME NEW loads, NEW D, "live" \in D, \A l \in loads : DOMAIN l = D
    PROVE  \A l \in Modrinth!Superseded(loads) : DOMAIN l = D /\ ~l.live
BY DEF Modrinth!Superseded

\* The same loader and the same game let the same versions through.
LEMMA FiltersAreSame ==
    ASSUME NEW s, NEW r,
           <<Modrinth!usesLoader(s), Modrinth!gameOf(s)>> = <<Modrinth!usesLoader(r), Modrinth!gameOf(r)>>
    PROVE  SameFilters(s, r)
<1>1. Modrinth!usesLoader(s) \in BOOLEAN /\ Modrinth!usesLoader(r) \in BOOLEAN
  BY OfferAssumption DEF Modrinth!usesLoader
<1>2. Modrinth!usesLoader(s) = Modrinth!usesLoader(r) /\ Modrinth!gameOf(s) = Modrinth!gameOf(r)
  BY Zenon
<1> QED BY <1>1, <1>2, Zenon DEF SameFilters

LEMMA FitsAreSame ==
    ASSUME NEW s, NEW r, SameFilters(s, r), NEW v
    PROVE  Modrinth!Fits(v, s) <=> Modrinth!Fits(v, r)
BY DEF SameFilters, Modrinth!Fits

LEMMA FiltersAsBefore ==
    /\ \A s : SameFilters(s, s)
    /\ \A s, r, t : SameFilters(s, r) /\ SameFilters(t, r) => SameFilters(s, t)
BY DEF SameFilters

LEMMA ModrinthStarts == Init => ModrinthInv
<1> SUFFICES ASSUME Init PROVE ModrinthInv
  OBVIOUS
<1>1. /\ search = Modrinth!Start /\ searches = {[of |-> Modrinth!Start, live |-> TRUE]}
      /\ loading = TRUE /\ hit = Modrinth!NoHit /\ details = {} /\ installing = {}
  BY DEF Init, Modrinth!ModrinthInit
<1>2. \A l \in searches : DOMAIN l = {"of", "live"} /\ l.of = search BY <1>1
<1> QED BY <1>1, <1>2 DEF ModrinthInv, Modrinth!PageIsOfSearch, Modrinth!InstallsWhatFits

\* The versions of an open project are loaded for these filters.
LEMMA DetailsLoad ==
    ASSUME ModrinthInv, NEW p, NEW s, Modrinth!detailsOf(p, s)
    PROVE  /\ versions' = {}
           /\ \A l \in details' : DOMAIN l = {"project", "of", "live"}
           /\ \A l \in details' : l.live => l.project = p /\ l.of = s
<1> DEFINE new == [project |-> p, of |-> s, live |-> TRUE]
<1>1. versions' = {} /\ details' = Modrinth!Superseded(details) \union {new}
  BY DEF Modrinth!detailsOf
<1>2. \A l \in Modrinth!Superseded(details) : DOMAIN l = {"project", "of", "live"} /\ ~l.live
  BY LoadsEnd DEF ModrinthInv
<1>3. DOMAIN new = {"project", "of", "live"} /\ new.project = p /\ new.of = s OBVIOUS
<1> HIDE DEF new
<1> QED BY <1>1, <1>2, <1>3

\* Another search, or the same.
LEMMA ModrinthSearches ==
    ASSUME ModrinthInv, NEW s, Modrinth!searchFor(s), UNCHANGED <<result, hit, installing>>
    PROVE  ModrinthInv'
<1>1. CASE UNCHANGED <<search, searches, loading, error, versions, details>>
  BY <1>1 DEF ModrinthInv, SameFilters, Fitting, Modrinth!PageIsOfSearch, Modrinth!InstallsWhatFits
<1>2. CASE /\ search' = s /\ loading' = TRUE
           /\ searches' = Modrinth!Superseded(searches) \union {[of |-> s, live |-> TRUE]}
  <2>1. \A l \in searches' : DOMAIN l = {"of", "live"} /\ (l.live => l.of = search')
    <3>1. \A l \in Modrinth!Superseded(searches) : DOMAIN l = {"of", "live"} /\ ~l.live
      BY LoadsEnd DEF ModrinthInv
    <3> QED BY <1>2, <3>1
  <2>2. Modrinth!PageIsOfSearch' /\ Modrinth!InstallsWhatFits'
    BY <1>2 DEF ModrinthInv, Modrinth!PageIsOfSearch, Modrinth!InstallsWhatFits
  <2>3. CASE hit # Modrinth!NoHit /\ Modrinth!detailsOf(hit, s)
    <3>1. /\ versions' = {}
          /\ \A l \in details' : DOMAIN l = {"project", "of", "live"}
          /\ \A l \in details' : l.live => l.project = hit /\ l.of = s
      BY <2>3, DetailsLoad
    <3>2. \A l \in details' : l.live => l.project = hit' /\ SameFilters(l.of, s)
      BY <3>1, FiltersAsBefore
    <3> QED BY <1>2, <2>1, <2>2, <3>1, <3>2 DEF ModrinthInv, SameFilters
  <2>4. CASE /\ UNCHANGED <<versions, details>>
             /\ hit # Modrinth!NoHit => SameFilters(s, search)
    <3>1. \A l \in details' : DOMAIN l = {"project", "of", "live"} BY <2>4 DEF ModrinthInv
    <3>2. ASSUME hit # Modrinth!NoHit
          PROVE  /\ \A l \in details' : l.live => l.project = hit /\ SameFilters(l.of, s)
                 /\ versions' # {} => versions' = Fitting(s)
      <4>1. SameFilters(s, search) BY <2>4, <3>2
      <4>2. \A v : Modrinth!Fits(v, s) <=> Modrinth!Fits(v, search) BY <4>1, FitsAreSame
      <4>3. Fitting(s) = Fitting(search) BY <4>2 DEF Fitting
      <4> QED BY <2>4, <3>2, <4>1, <4>3, FiltersAsBefore DEF ModrinthInv
    <3>3. Fitting(search)' = Fitting(s) BY <1>2 DEF Fitting
    <3> QED BY <1>2, <2>1, <2>2, <3>1, <3>2, <3>3 DEF ModrinthInv, SameFilters
  <2>5. \/ hit # Modrinth!NoHit /\ Modrinth!detailsOf(hit, s)
        \/ /\ UNCHANGED <<versions, details>>
           /\ hit # Modrinth!NoHit => SameFilters(s, search)
    <3>1. CASE s = search
      BY <3>1, FiltersAsBefore DEF Modrinth!searchFor
    <3>2. CASE s # search
      <4> DEFINE same == <<Modrinth!usesLoader(s), Modrinth!gameOf(s)>>
                         = <<Modrinth!usesLoader(search), Modrinth!gameOf(search)>>
      <4>1. \/ hit # Modrinth!NoHit /\ Modrinth!detailsOf(hit, s)
            \/ (hit = Modrinth!NoHit \/ same) /\ UNCHANGED <<versions, details>>
        BY <3>2, Zenon DEF Modrinth!searchFor
      <4>2. same => SameFilters(s, search) BY FiltersAreSame
      <4> QED BY <4>1, <4>2, Zenon
    <3> QED BY <3>1, <3>2
  <2> QED BY <2>3, <2>4, <2>5
<1> QED BY <1>1, <1>2 DEF Modrinth!searchFor

LEMMA ModrinthAsks ==
    ASSUME ModrinthInv,
           \/ Modrinth!Debounce \/ Modrinth!setFilter \/ Modrinth!handleClearSearch \/ Modrinth!Page
    PROVE  ModrinthInv'
<1>1. CASE Modrinth!Debounce BY <1>1, ModrinthSearches DEF Modrinth!Debounce
<1>2. CASE Modrinth!setFilter
  <2>1. \E s : Modrinth!searchFor(s) BY <1>2 DEF Modrinth!setFilter
  <2> QED BY <1>2, <2>1, ModrinthSearches DEF Modrinth!setFilter
<1>3. CASE Modrinth!handleClearSearch BY <1>3, ModrinthSearches DEF Modrinth!handleClearSearch
<1>4. CASE Modrinth!Page
  <2>1. \E s : Modrinth!searchFor(s) BY <1>4 DEF Modrinth!Page
  <2> QED BY <1>4, <2>1, ModrinthSearches DEF Modrinth!Page
<1> QED BY <1>1, <1>2, <1>3, <1>4

LEMMA ModrinthAnswers ==
    ASSUME ModrinthInv, Modrinth!SearchReturns \/ Modrinth!DetailsReturn PROVE ModrinthInv'
<1>1. CASE Modrinth!SearchReturns
  <2>1. PICK l \in searches :
          /\ searches' = searches \ {l}
          /\ IF ~l.live THEN UNCHANGED <<result, loading, error>>
             ELSE /\ loading' = FALSE
                  /\ \/ result' = Modrinth!Answer(l.of)
                     \/ error' = TRUE
    BY <1>1 DEF Modrinth!SearchReturns
  <2>2. UNCHANGED <<search, hit, versions, details, installing>>
    BY <1>1 DEF Modrinth!SearchReturns
  <2>3. Modrinth!PageIsOfSearch'
    BY <2>1, <2>2 DEF ModrinthInv, Modrinth!PageIsOfSearch
  <2> QED BY <2>1, <2>2, <2>3 DEF ModrinthInv, SameFilters, Fitting, Modrinth!InstallsWhatFits
<1>2. CASE Modrinth!DetailsReturn
  <2>1. PICK l \in details :
          /\ details' = details \ {l}
          /\ versions' = IF l.live THEN {v \in Versions : v.project = l.project /\ Modrinth!Fits(v, l.of)}
                         ELSE versions
    BY <1>2 DEF Modrinth!DetailsReturn
  <2>2. UNCHANGED <<search, result, searches, loading, error, hit, installing>>
    BY <1>2 DEF Modrinth!DetailsReturn
  <2>3. ASSUME hit # Modrinth!NoHit PROVE versions' # {} => versions' = Fitting(search)
    <3>1. CASE l.live
      <4>1. l.project = hit /\ SameFilters(l.of, search) BY <2>3, <3>1 DEF ModrinthInv
      <4>2. \A v : Modrinth!Fits(v, l.of) <=> Modrinth!Fits(v, search) BY <4>1, FitsAreSame
      <4> QED BY <2>1, <3>1, <4>1, <4>2 DEF Fitting
    <3> QED BY <2>1, <2>3, <3>1 DEF ModrinthInv
  <2>4. Modrinth!PageIsOfSearch' /\ Modrinth!InstallsWhatFits'
    BY <2>2 DEF ModrinthInv, Modrinth!PageIsOfSearch, Modrinth!InstallsWhatFits
  <2>5. Fitting(search)' = Fitting(search) BY <2>2 DEF Fitting
  <2> QED BY <2>1, <2>2, <2>3, <2>4, <2>5 DEF ModrinthInv, SameFilters
<1> QED BY <1>1, <1>2

LEMMA ModrinthOpens ==
    ASSUME ModrinthInv, Modrinth!OpenProject \/ Modrinth!Back PROVE ModrinthInv'
<1>1. UNCHANGED <<search, result, searches, loading, error, installing>>
  BY DEF Modrinth!OpenProject, Modrinth!Back
<1>2. Modrinth!PageIsOfSearch' /\ Modrinth!InstallsWhatFits'
  BY <1>1 DEF ModrinthInv, Modrinth!PageIsOfSearch, Modrinth!InstallsWhatFits
<1>3. CASE Modrinth!OpenProject
  <2>1. PICK p \in Modrinth!ToSet(result.hits) : hit' = p /\ Modrinth!detailsOf(p, search)
    BY <1>3 DEF Modrinth!OpenProject
  <2>2. /\ versions' = {}
        /\ \A l \in details' : DOMAIN l = {"project", "of", "live"}
        /\ \A l \in details' : l.live => l.project = p /\ l.of = search
    BY <2>1, DetailsLoad
  <2>3. \A l \in details' : l.live => l.project = hit' /\ SameFilters(l.of, search)
    BY <2>1, <2>2, FiltersAsBefore
  <2> QED BY <1>1, <1>2, <2>2, <2>3 DEF ModrinthInv, SameFilters
<1>4. CASE Modrinth!Back
  <2>1. hit' = Modrinth!NoHit /\ details' = Modrinth!Superseded(details)
    BY <1>4 DEF Modrinth!Back
  <2>2. \A l \in details' : DOMAIN l = {"project", "of", "live"}
    BY <2>1, LoadsEnd DEF ModrinthInv
  <2> QED BY <1>1, <1>2, <2>1, <2>2 DEF ModrinthInv, Modrinth!NoHit
<1> QED BY <1>3, <1>4

\* A version that is clicked is one of those that fit.
LEMMA ModrinthInstalls == ASSUME ModrinthInv, Modrinth!handleInstall PROVE ModrinthInv'
<1>1. PICK v \in Modrinth!visibleVersions :
        installing' = installing
            \union {[version |-> v, scope |-> search, unstable |-> unstable, for |-> hit]}
  BY DEF Modrinth!handleInstall
<1>2. /\ hit # Modrinth!NoHit
      /\ UNCHANGED <<search, result, searches, loading, error, hit, versions, details>>
  BY DEF Modrinth!handleInstall
<1>3. v \in versions BY <1>1 DEF Modrinth!visibleVersions
<1>4. versions = Fitting(search) BY <1>2, <1>3 DEF ModrinthInv
<1>5. v.project = hit /\ Modrinth!Fits(v, search) BY <1>3, <1>4 DEF Fitting
<1>6. \/ unstable \/ v.channel = "release"
      \/ ~\E w \in Versions : w.project = hit /\ Modrinth!Fits(w, search) /\ w.channel = "release"
  BY <1>1, <1>4 DEF Modrinth!visibleVersions, Fitting
<1> DEFINE new == [version |-> v, scope |-> search, unstable |-> unstable, for |-> hit]
<1>7. /\ new.version.project = new.for /\ Modrinth!Fits(new.version, new.scope)
      /\ \/ new.unstable \/ new.version.channel = "release"
         \/ ~\E w \in Versions : w.project = new.for /\ Modrinth!Fits(w, new.scope) /\ w.channel = "release"
  <2>1. new.version = v /\ new.scope = search /\ new.for = hit OBVIOUS
  <2>2. unstable => new.unstable BY Zenon
  <2> HIDE DEF new
  <2> QED BY <1>5, <1>6, <2>1, <2>2
<1>8. Modrinth!InstallsWhatFits'
  <2>1. installing' = installing \union {new} BY <1>1
  <2> HIDE DEF new
  <2> QED BY <1>7, <2>1 DEF ModrinthInv, Modrinth!InstallsWhatFits
<1> QED BY <1>2, <1>8 DEF ModrinthInv, SameFilters, Fitting, Modrinth!PageIsOfSearch

LEMMA ModrinthSteps == ModrinthInv /\ [Next]_AllVars => ModrinthInv'
<1> SUFFICES ASSUME ModrinthInv, [Next]_AllVars PROVE ModrinthInv'
  OBVIOUS
<1>1. CASE Modrinth!ModrinthNext
  <2>1. CASE Modrinth!Type \/ Modrinth!ShowUnstable \/ Modrinth!InstallReturns
    <3>1. /\ UNCHANGED <<search, result, searches, loading, error, hit, versions, details>>
          /\ installing' \subseteq installing
      BY <2>1 DEF Modrinth!Type, Modrinth!ShowUnstable, Modrinth!InstallReturns
    <3> QED BY <3>1 DEF ModrinthInv, SameFilters, Fitting, Modrinth!PageIsOfSearch,
                        Modrinth!InstallsWhatFits
  <2> QED BY <1>1, <2>1, ModrinthAsks, ModrinthAnswers, ModrinthOpens, ModrinthInstalls
             DEF Modrinth!ModrinthNext
<1>2. CASE UNCHANGED modrinthVars
  BY <1>2 DEF modrinthVars, ModrinthInv, SameFilters, Fitting, Modrinth!PageIsOfSearch,
              Modrinth!InstallsWhatFits
<1>3. Modrinth!ModrinthNext \/ UNCHANGED modrinthVars
  BY DEF Next, AllVars
<1> QED BY <1>1, <1>2, <1>3

\* A jar update that is offered is newer than what was asked about, a jar that can be
\* confirmed is in the table as it is shown, a page of projects is that of its search and
\* a version installed is of its project and has the loader and the game asked for
\* (server-update-service.ts, jar-browser.tsx, modrinth-browser.tsx).
THEOREM PanelsOffersFit == Spec => []OffersFit
<1>1. Spec => []UpdateInv
  BY UpdateStarts, UpdateSteps, PTL DEF Spec, AllVars
<1>2. Spec => []BrowserInv
  BY BrowserStarts, BrowserSteps, PTL DEF Spec, AllVars
<1>3. Spec => []ModrinthInv
  BY ModrinthStarts, ModrinthSteps, PTL DEF Spec, AllVars
<1>4. UpdateInv /\ BrowserInv /\ ModrinthInv => OffersFit
  BY DEF UpdateInv, BrowserInv, ModrinthInv, OffersFit
<1> QED BY <1>1, <1>2, <1>3, <1>4, PTL

--------------------------------------------------------------------------------
(* What a fix does to the settings check.                                       *)

\* What writing keys may do to a finding: it stays as it was or passes, and with every
\* key of its fix written it passes.
Helped(x, y, keys) ==
    /\ y.id = x.id /\ y.severity \in {x.severity, "pass"}
    /\ x.severity \in {"pass", "info", "warn", "critical"}
    /\ x.fix \subseteq keys => y.fix = {} /\ (x.fix # {} => y.severity = "pass")

\* A finding of the key itself, for a key whose value the audit passes once written.
LEMMA WrittenIsGood ==
    ASSUME NEW f, NEW keys, NEW k \in Audit!Keys
    PROVE  Audit!isBad(Audit!Written(f, keys), k) <=> k \notin keys /\ Audit!isBad(f, k)
<1>1. Audit!Written(f, keys)[k] = IF k \in keys THEN "good" ELSE f[k]
  BY DEF Audit!Written
<1> QED BY <1>1 DEF Audit!isBad

LEMMA RuleIsHelped ==
    ASSUME NEW f, NEW keys, NEW k \in Audit!Keys, NEW s \in {"pass", "info", "warn", "critical"}
    PROVE  Helped(Audit!Rule(f, k, s), Audit!Rule(Audit!Written(f, keys), k, s), keys)
<1> DEFINE g == Audit!Written(f, keys)
<1> SUFFICES Helped(Audit!Rule(f, k, s), Audit!Rule(g, k, s), keys)
  OBVIOUS
<1>1. Audit!isBad(g, k) <=> k \notin keys /\ Audit!isBad(f, k) BY WrittenIsGood
<1> HIDE DEF g
<1>2. CASE Audit!isBad(f, k)
  <2>1. CASE Audit!isBad(g, k)
    <3>1. k \notin keys BY <1>1, <2>1
    <3>2. Audit!Rule(f, k, s) = Audit!Finding(k, s, {k}) /\ Audit!Rule(g, k, s) = Audit!Finding(k, s, {k})
      BY <1>2, <2>1 DEF Audit!Rule
    <3> QED BY <3>1, <3>2 DEF Helped, Audit!Finding
  <2>2. CASE ~Audit!isBad(g, k)
    <3>1. Audit!Rule(f, k, s) = Audit!Finding(k, s, {k}) /\ Audit!Rule(g, k, s) = Audit!Finding(k, "pass", {})
      BY <1>2, <2>2 DEF Audit!Rule
    <3> QED BY <3>1 DEF Helped, Audit!Finding
  <2> QED BY <2>1, <2>2
<1>3. CASE ~Audit!isBad(f, k)
  <2>1. Audit!Rule(f, k, s) = Audit!Finding(k, "pass", {}) /\ Audit!Rule(g, k, s) = Audit!Finding(k, "pass", {})
    BY <1>1, <1>3 DEF Audit!Rule
  <2> QED BY <2>1 DEF Helped, Audit!Finding
<1> QED BY <1>2, <1>3

\* The rules that weigh more than one key.
OnlineRule(f, r) == IF r = "backend" THEN Audit!Finding("online-mode", "pass", {})
                    ELSE Audit!Rule(f, "online-mode", "critical")
ListRule(f) ==
    IF Audit!isBad(f, "white-list")
    THEN Audit!Finding("white-list", "warn", {"white-list", "enforce-whitelist"})
    ELSE IF Audit!isBad(f, "enforce-whitelist")
         THEN Audit!Finding("white-list", "warn", {"enforce-whitelist"})
         ELSE Audit!Finding("white-list", "pass", {})
RconRule(f) == IF Audit!isBad(f, "enable-rcon") THEN Audit!Rule(f, "broadcast-rcon-to-ops", "warn")
               ELSE Audit!Finding("broadcast-rcon-to-ops", "pass", {})
PlayersRule(f, memory) ==
    Audit!Finding("max-players",
                  IF Audit!isBad(f, "max-players") /\ memory = "small" THEN "warn" ELSE "pass", {})

Severity == {"pass", "info", "warn", "critical"}
SingleRules == {<<"enforce-secure-profile", "warn">>, <<"rate-limit", "warn">>,
                <<"prevent-proxy-connections", "info">>, <<"spawn-protection", "info">>,
                <<"network-compression-threshold", "warn">>}

LEMMA RulesAreThese ==
    ASSUME NEW f, NEW r, NEW memory
    PROVE  \A x : x \in Audit!auditServerProperties(f, r, memory) <=>
              \/ x = OnlineRule(f, r) \/ x = ListRule(f)
              \/ x = RconRule(f) \/ x = PlayersRule(f, memory)
              \/ \E p \in SingleRules : x = Audit!Rule(f, p[1], p[2])
BY DEF Audit!auditServerProperties, Audit!joinRules, Audit!trafficRules, Audit!operatorRules,
       OnlineRule, ListRule, RconRule, PlayersRule, SingleRules

\* One finding a rule.
LEMMA OneFindingEach ==
    ASSUME NEW f, NEW r, NEW memory,
           NEW x \in Audit!auditServerProperties(f, r, memory),
           NEW z \in Audit!auditServerProperties(f, r, memory), x.id = z.id
    PROVE  x = z
<1>1. /\ OnlineRule(f, r).id = "online-mode" /\ ListRule(f).id = "white-list"
      /\ RconRule(f).id = "broadcast-rcon-to-ops" /\ PlayersRule(f, memory).id = "max-players"
  BY DEF OnlineRule, ListRule, RconRule, PlayersRule, Audit!Rule, Audit!Finding
<1>2. \A p \in SingleRules : Audit!Rule(f, p[1], p[2]).id = p[1]
  BY DEF Audit!Rule, Audit!Finding
<1>3. \A p \in SingleRules : p[1] \notin {"online-mode", "white-list", "broadcast-rcon-to-ops", "max-players"}
  BY DEF SingleRules
<1>4. \A p, q \in SingleRules : p[1] = q[1] => p = q
  BY DEF SingleRules
<1>5. /\ \/ x = OnlineRule(f, r) \/ x = ListRule(f) \/ x = RconRule(f) \/ x = PlayersRule(f, memory)
         \/ \E p \in SingleRules : x = Audit!Rule(f, p[1], p[2])
      /\ \/ z = OnlineRule(f, r) \/ z = ListRule(f) \/ z = RconRule(f) \/ z = PlayersRule(f, memory)
         \/ \E p \in SingleRules : z = Audit!Rule(f, p[1], p[2])
  BY RulesAreThese
<1> QED BY <1>1, <1>2, <1>3, <1>4, <1>5

\* Every finding after a write stands where one stood before it.
LEMMA FindingsAreHelped ==
    ASSUME NEW f, NEW r, NEW memory, NEW keys,
           NEW y \in Audit!auditServerProperties(Audit!Written(f, keys), r, memory)
    PROVE  \E x \in Audit!auditServerProperties(f, r, memory) : Helped(x, y, keys)
<1> DEFINE g == Audit!Written(f, keys)
<1>0. {"online-mode", "white-list", "enforce-whitelist", "broadcast-rcon-to-ops", "enable-rcon",
       "max-players"} \subseteq Audit!Keys
  BY DEF Audit!Keys, Audit!DefaultGood, Audit!DefaultBad
<1>1. \A k \in Audit!Keys : Audit!isBad(g, k) <=> k \notin keys /\ Audit!isBad(f, k)
  BY WrittenIsGood
<1>2. \A k \in Audit!Keys, s \in Severity : Helped(Audit!Rule(f, k, s), Audit!Rule(g, k, s), keys)
  BY RuleIsHelped DEF Severity
<1>3. y \in Audit!auditServerProperties(g, r, memory) OBVIOUS
<1> HIDE DEF g
<1>4. Helped(OnlineRule(f, r), OnlineRule(g, r), keys)
  <2>1. CASE r = "backend" BY <2>1 DEF OnlineRule, Helped, Audit!Finding
  <2>2. CASE r # "backend" BY <1>0, <1>2, <2>2 DEF OnlineRule, Severity
  <2> QED BY <2>1, <2>2
<1>5. Helped(ListRule(f), ListRule(g), keys)
  <2>1. /\ Audit!isBad(g, "white-list") <=> "white-list" \notin keys /\ Audit!isBad(f, "white-list")
        /\ Audit!isBad(g, "enforce-whitelist") <=>
               "enforce-whitelist" \notin keys /\ Audit!isBad(f, "enforce-whitelist")
    BY <1>0, <1>1
  <2>2. CASE Audit!isBad(f, "white-list")
    BY <2>1, <2>2 DEF ListRule, Helped, Audit!Finding
  <2>3. CASE ~Audit!isBad(f, "white-list") /\ Audit!isBad(f, "enforce-whitelist")
    BY <2>1, <2>3 DEF ListRule, Helped, Audit!Finding
  <2>4. CASE ~Audit!isBad(f, "white-list") /\ ~Audit!isBad(f, "enforce-whitelist")
    BY <2>1, <2>4 DEF ListRule, Helped, Audit!Finding
  <2> QED BY <2>2, <2>3, <2>4
<1>6. Helped(RconRule(f), RconRule(g), keys)
  <2>1. /\ Audit!isBad(g, "enable-rcon") <=> "enable-rcon" \notin keys /\ Audit!isBad(f, "enable-rcon")
        /\ Helped(Audit!Rule(f, "broadcast-rcon-to-ops", "warn"),
                  Audit!Rule(g, "broadcast-rcon-to-ops", "warn"), keys)
    BY <1>0, <1>1, <1>2 DEF Severity
  <2>2. CASE ~Audit!isBad(f, "enable-rcon")
    BY <2>1, <2>2 DEF RconRule, Helped, Audit!Finding
  <2>3. CASE Audit!isBad(f, "enable-rcon") /\ Audit!isBad(g, "enable-rcon")
    BY <2>1, <2>3 DEF RconRule
  <2>4. CASE Audit!isBad(f, "enable-rcon") /\ ~Audit!isBad(g, "enable-rcon")
    BY <2>4 DEF RconRule, Helped, Audit!Finding, Audit!Rule
  <2> QED BY <2>1, <2>2, <2>3, <2>4
<1>7. Helped(PlayersRule(f, memory), PlayersRule(g, memory), keys)
  BY <1>0, <1>1 DEF PlayersRule, Helped, Audit!Finding
<1>8. \A p \in SingleRules : Helped(Audit!Rule(f, p[1], p[2]), Audit!Rule(g, p[1], p[2]), keys)
  <2>1. \A p \in SingleRules : p[1] \in Audit!Keys /\ p[2] \in Severity
    BY DEF SingleRules, Severity, Audit!Keys, Audit!DefaultGood, Audit!DefaultBad
  <2> QED BY <1>2, <2>1
<1>9. \/ y = OnlineRule(g, r) \/ y = ListRule(g) \/ y = RconRule(g) \/ y = PlayersRule(g, memory)
      \/ \E p \in SingleRules : y = Audit!Rule(g, p[1], p[2])
  BY <1>3, RulesAreThese
<1> QED BY <1>4, <1>5, <1>6, <1>7, <1>8, <1>9, RulesAreThese

LEMMA SameIsNoWorse ==
    ASSUME NEW s \in Severity
    PROVE  ~Audit!Worse(s, s) /\ ~Audit!Worse("pass", s)
BY DEF Severity, Audit!Worse, Audit!Severities

LEMMA AuditFixesHelp == Audit!FixesHelp
<1> DEFINE found == Audit!auditServerProperties(file, role, heap)
           after(keys) == Audit!auditServerProperties(Audit!Written(file, keys), role, heap)
           all == UNION {x.fix : x \in found}
<1>1. \A keys : \A y \in after(keys) : \E x \in found : Helped(x, y, keys)
  BY FindingsAreHelped
<1>2. \A x, z \in found : x.id = z.id => x = z
  BY OneFindingEach
<1>3. all = UNION {x.fix : x \in found} OBVIOUS
<1>4. Audit!FixesHelp <=>
         /\ \A x \in found : x.fix # {} => \A y \in after(x.fix) :
               /\ y.id = x.id => y.severity = "pass"
               /\ \A z \in found : z.id = y.id => ~Audit!Worse(y.severity, z.severity)
         /\ \A y \in after(all) : y.fix = {}
  BY DEF Audit!FixesHelp
<1> HIDE DEF found, after, all
<1>5. ASSUME NEW x \in found, x.fix # {}, NEW y \in after(x.fix)
      PROVE  /\ y.id = x.id => y.severity = "pass"
             /\ \A z \in found : z.id = y.id => ~Audit!Worse(y.severity, z.severity)
  <2>1. PICK w \in found : Helped(w, y, x.fix) BY <1>1
  <2>2. ASSUME y.id = x.id PROVE y.severity = "pass"
    <3>1. w = x BY <1>2, <2>1, <2>2 DEF Helped
    <3> QED BY <1>5, <2>1, <3>1 DEF Helped
  <2>3. ASSUME NEW z \in found, z.id = y.id PROVE ~Audit!Worse(y.severity, z.severity)
    <3>1. w = z BY <1>2, <2>1, <2>3 DEF Helped
    <3>2. y.severity \in {z.severity, "pass"} /\ z.severity \in Severity
      BY <2>1, <3>1 DEF Helped, Severity
    <3> QED BY <3>2, SameIsNoWorse
  <2> QED BY <2>2, <2>3
<1>6. ASSUME NEW y \in after(all) PROVE y.fix = {}
  <2>1. PICK w \in found : Helped(w, y, all) BY <1>1
  <2>2. w.fix \subseteq all BY <1>3
  <2> QED BY <2>1, <2>2 DEF Helped
<1> QED BY <1>4, <1>5, <1>6

\* Whatever the file holds, the fix of a finding makes that finding pass and no other
\* worse, and all fixes together leave none to recommend (server-security-audit.ts,
\* use-security-audit.ts).
THEOREM PanelsFixesHelp == Spec => []FixesHelp
<1>1. FixesHelp BY AuditFixesHelp DEF FixesHelp
<1> QED BY <1>1, PTL

--------------------------------------------------------------------------------
(* The duration picker.                                                         *)

Units   == {"minutes", "hours"}
Amounts == Nat \cup {Picker!Nothing}
Allowed == limits.min .. limits.max

\* A column shows the form's value unless it was scrolled and is not yet still.
WheelInv ==
    /\ scroll = [col \in Picker!Columns |-> scroll[col]] /\ settling \subseteq Picker!Columns
    /\ \A col \in settling : scroll[col] \in 1..13 \/ scroll[col] = Picker!Index(col, minutes)
    /\ ~cut => \A col \in Picker!Columns \ settling : scroll[col] = Picker!Index(col, minutes)

\* So does the number unless it is being typed.
NumberInv ==
    /\ unit \in Units /\ text \in Amounts /\ typing \in BOOLEAN
    /\ ~typing => Picker!parseDurationAmount(text, unit) = minutes

PickerInv ==
    /\ limits \in [min : Nat, max : Nat] /\ limits.min <= limits.max
    /\ minutes \in Nat /\ locked \in BOOLEAN /\ cut \in BOOLEAN
    /\ emitted # 0 => emitted \in Allowed
    /\ WheelInv /\ NumberInv

\* The arithmetic of the clock.
LEMMA ClockFacts ==
    ASSUME NEW m \in Nat
    PROVE  /\ m \div 60 \in Nat /\ m % 60 \in 0..59
           /\ (10 * m + 3) \div 6 \in Nat /\ (6 * ((10 * m + 3) \div 6) + 5) \div 10 = m
           /\ (100 * m + 50) \div 100 = m
           /\ (m + 50) \div 100 \in Nat /\ (6 * m + 5) \div 10 \in Nat
BY SMT

\* An amount reads back as the minutes it was written from.
LEMMA AmountReadsBack ==
    ASSUME NEW m \in Nat, NEW u \in Units
    PROVE  /\ Picker!formatDurationAmount(m, u) \in Nat
           /\ Picker!parseDurationAmount(Picker!formatDurationAmount(m, u), u) = m
<1>1. CASE u = "minutes"
  <2>1. Picker!formatDurationAmount(m, u) = 100 * m BY <1>1 DEF Picker!formatDurationAmount
  <2>2. 100 * m \in Nat /\ 100 * m # Picker!Nothing BY DEF Picker!Nothing
  <2>3. Picker!parseDurationAmount(100 * m, u) = (100 * m + 50) \div 100
    BY <1>1, <2>2 DEF Picker!parseDurationAmount
  <2> QED BY <2>1, <2>2, <2>3, ClockFacts
<1>2. CASE u = "hours"
  <2> DEFINE t == (10 * m + 3) \div 6
  <2>1. Picker!formatDurationAmount(m, u) = t BY <1>2 DEF Picker!formatDurationAmount
  <2>2. t \in Nat /\ (6 * t + 5) \div 10 = m BY ClockFacts
  <2> HIDE DEF t
  <2>3. t # Picker!Nothing BY <2>2 DEF Picker!Nothing
  <2>4. Picker!parseDurationAmount(t, u) = (6 * t + 5) \div 10
    BY <1>2, <2>3 DEF Picker!parseDurationAmount
  <2> QED BY <2>1, <2>2, <2>4
<1> QED BY <1>1, <1>2 DEF Units

LEMMA AmountIsRead ==
    ASSUME NEW t \in Amounts, NEW u \in Units
    PROVE  Picker!parseDurationAmount(t, u) \in Nat \cup {Picker!Nothing}
<1>1. CASE t = Picker!Nothing BY <1>1 DEF Picker!parseDurationAmount
<1>2. CASE t # Picker!Nothing
  <2>1. t \in Nat BY <1>2 DEF Amounts
  <2>2. (t + 50) \div 100 \in Nat /\ (6 * t + 5) \div 10 \in Nat BY <2>1, ClockFacts
  <2>3. CASE u = "minutes" BY <1>2, <2>2, <2>3 DEF Picker!parseDurationAmount
  <2>4. CASE u = "hours" BY <1>2, <2>2, <2>4 DEF Picker!parseDurationAmount
  <2> QED BY <2>3, <2>4 DEF Units
<1> QED BY <1>1, <1>2

LEMMA ResolvedUnit == \A m : Picker!resolveDurationUnit(m) \in Units
BY DEF Picker!resolveDurationUnit, Units

LEMMA ClampsIn ==
    ASSUME NEW l \in [min : Nat, max : Nat], l.min <= l.max, NEW m \in Int
    PROVE  Picker!clampDuration(m, l) \in l.min .. l.max
BY DEF Picker!clampDuration, Picker!AtMost, Picker!AtLeast

LEMMA WheelClampsIn ==
    ASSUME NEW l \in [min : Nat, max : Nat], l.min <= l.max, NEW m \in Int
    PROVE  Picker!clampWheelDuration(m, l) \in l.min .. l.max
<1> DEFINE clamped == Picker!clampDuration(m, l)
           stepped == IF m < l.min THEN ((l.min + 4) \div 5) * 5 ELSE (l.max \div 5) * 5
<1>1. clamped \in l.min .. l.max BY ClampsIn
<1>2. Picker!clampWheelDuration(m, l)
        = IF clamped = m \/ clamped % 5 = 0 \/ stepped \notin l.min .. l.max THEN clamped ELSE stepped
  BY DEF Picker!clampWheelDuration
<1> HIDE DEF clamped, stepped
<1> QED BY <1>1, <1>2

\* Putting a number among numbers.
LEMMA InsertedNumber ==
    ASSUME NEW s \in Seq(Int), NEW i \in 1 .. Len(s) + 1, NEW e \in Int
    PROVE  Picker!InsertAt(s, i, e) \in Seq(Int) /\ Len(Picker!InsertAt(s, i, e)) # 0
<1> DEFINE a == SubSeq(s, 1, i - 1)
           b == SubSeq(s, i, Len(s))
<1>1. Picker!InsertAt(s, i, e) = a \o <<e>> \o b BY DEF Picker!InsertAt
<1>2. Len(s) \in Nat /\ \A j \in 1 .. Len(s) : s[j] \in Int BY LenProperties, ElementOfSeq
<1>3. a \in Seq(Int)
  <2>1. 1 \in Int /\ i - 1 \in Int /\ \A j \in 1 .. i - 1 : s[j] \in Int BY <1>2
  <2> QED BY <2>1, SubSeqProperties
<1>4. b \in Seq(Int)
  <2>1. i \in Int /\ Len(s) \in Int /\ \A j \in i .. Len(s) : s[j] \in Int BY <1>2
  <2> QED BY <2>1, SubSeqProperties
<1> HIDE DEF a, b
<1>5. <<e>> \in Seq(Int) /\ Len(<<e>>) = 1 OBVIOUS
<1>6. a \o <<e>> \in Seq(Int) /\ Len(a \o <<e>>) = Len(a) + 1 BY <1>3, <1>5, ConcatProperties
<1>7. a \o <<e>> \o b \in Seq(Int) /\ Len(a \o <<e>> \o b) = Len(a \o <<e>>) + Len(b)
  BY <1>4, <1>6, ConcatProperties
<1>8. Len(a) \in Nat /\ Len(b) \in Nat BY <1>3, <1>4, LenProperties
<1> QED BY <1>1, <1>6, <1>7, <1>8

\* What stands in a column's list is a number, and the list is not empty.
LEMMA ItemsAreNumbers ==
    ASSUME NEW col \in Picker!Columns, NEW m \in Nat, limits \in [min : Nat, max : Nat]
    PROVE  /\ Len(Picker!Items(col, m)) \in Nat \ {0}
           /\ DOMAIN Picker!Items(col, m) = 1 .. Len(Picker!Items(col, m))
           /\ \A i \in 1 .. Len(Picker!Items(col, m)) : Picker!Items(col, m)[i] \in Int
<1>1. CASE col = "hours"
  <2> DEFINE first == Picker!AtMost(limits.min \div 60, m \div 60)
             final == Picker!AtLeast(Picker!AtLeast(Picker!AtMost(WHEEL_MAX_HOURS, limits.max \div 60),
                                                    m \div 60), first)
             hours == [i \in 1 .. final - first + 1 |-> first + i - 1]
  <2>1. Picker!Items(col, m) = hours BY <1>1 DEF Picker!Items, Picker!buildWheelHours
  <2>2. first \in Int /\ final \in Int /\ first <= final
    <3>1. PICK a \in Int, b \in Int, c \in Int : a = limits.min \div 60 /\ b = limits.max \div 60 /\ c = m \div 60
      BY ClockFacts
    <3>2. WHEEL_MAX_HOURS \in Int BY PickerAssumption
    <3> QED BY <3>1, <3>2 DEF Picker!AtMost, Picker!AtLeast
  <2> HIDE DEF first, final
  <2>3. final - first + 1 \in Nat \ {0} BY <2>2
  <2>4. Len(hours) = final - first + 1 /\ DOMAIN hours = 1 .. final - first + 1 BY <2>3
  <2>5. \A i \in 1 .. final - first + 1 : hours[i] \in Int BY <2>2
  <2> HIDE DEF hours
  <2> QED BY <2>1, <2>3, <2>4, <2>5
<1>2. CASE col = "minutes"
  <2>1. PICK off, grid, at : off = m % 60 /\ grid = [i \in 1 .. 12 |-> 5 * (i - 1)] /\ at = off \div 5 + 2
    OBVIOUS
  <2>2. Picker!Items(col, m) \in {grid, Picker!InsertAt(grid, at, off)}
    BY <1>2, <2>1 DEF Picker!Items, Picker!buildWheelMinutes
  <2>3. off \in Int /\ at \in 1..13
    <3>1. off \in 0..59 BY <2>1, ClockFacts
    <3>2. at = off \div 5 + 2 BY <2>1
    <3> QED BY <3>1, <3>2
  <2>4. grid \in Seq(Int) /\ Len(grid) = 12
    <3>1. [i \in 1 .. 12 |-> 5 * (i - 1)] \in Seq(Int) /\ Len([i \in 1 .. 12 |-> 5 * (i - 1)]) = 12
      OBVIOUS
    <3> QED BY <2>1, <3>1
  <2>5. Picker!InsertAt(grid, at, off) \in Seq(Int) /\ Len(Picker!InsertAt(grid, at, off)) # 0
    <3>1. at \in 1 .. Len(grid) + 1 BY <2>3, <2>4
    <3> QED BY <2>3, <2>4, <3>1, InsertedNumber
  <2>6. grid \in Seq(Int) /\ Len(grid) # 0 BY <2>4
  <2>7. Picker!Items(col, m) \in Seq(Int) /\ Len(Picker!Items(col, m)) # 0
    BY <2>2, <2>5, <2>6, Zenon
  <2> QED BY <2>7, LenProperties, ElementOfSeq
<1> QED BY <1>1, <1>2 DEF Picker!Columns

\* A step that leaves the limits alone leaves every column's places.
LEMMA PlacesStay ==
    ASSUME NEW m, minutes' = m, limits' = limits, NEW col
    PROVE  Picker!Index(col, minutes)' = Picker!Index(col, m)
<1>1. Picker!Items(col, minutes)' = Picker!Items(col, m)
  BY DEF Picker!Items, Picker!buildWheelHours, Picker!buildWheelMinutes
<1>2. Picker!Part(col, minutes)' = Picker!Part(col, m)
  BY DEF Picker!Part
<1> QED BY <1>1, <1>2 DEF Picker!Index

\* What shows the form's value goes on doing so while neither changes.
LEMMA WheelStays ==
    ASSUME WheelInv, UNCHANGED <<limits, minutes, scroll, settling, cut>>
    PROVE  WheelInv'
<1>1. \A col : Picker!Index(col, minutes)' = Picker!Index(col, minutes) BY PlacesStay
<1> QED BY <1>1 DEF WheelInv, Picker!Columns

LEMMA NumberStays ==
    ASSUME NumberInv, UNCHANGED <<minutes, unit, text, typing>>
    PROVE  NumberInv'
BY DEF NumberInv, Picker!parseDurationAmount, Amounts, Units, Picker!Nothing

\* The wheel follows a value: the columns that are still show it.
LEMMA WheelTurns ==
    ASSUME WheelInv, NEW m, minutes' = m, limits' = limits, ~cut' => ~cut,
           NEW chosen, NEW back, Picker!Wheel(m, chosen, back)
    PROVE  WheelInv'
<1> DEFINE Here(col) == Picker!Index(col, m)
           Was(col) == Picker!Index(col, minutes)
<1>1. \A col : Picker!Index(col, minutes)' = Here(col) BY PlacesStay
<1> SUFFICES /\ scroll' = [col \in Picker!Columns |-> scroll'[col]] /\ settling' \subseteq Picker!Columns
             /\ \A col \in settling' : scroll'[col] \in 1..13 \/ scroll'[col] = Here(col)
             /\ ~cut' => \A col \in Picker!Columns \ settling' : scroll'[col] = Here(col)
  <2> HIDE DEF Here
  <2> QED BY <1>1, Zenon DEF WheelInv, Picker!Columns
<1>2. CASE Picker!showCustom /\ Picker!ShowsCustom(chosen, m)
  <2>1. /\ scroll' = [col \in Picker!Columns |->
                         IF col \in back \/ Here(col) # Was(col) THEN Here(col) ELSE scroll[col]]
        /\ settling' = settling \ back
    BY <1>2 DEF Picker!Wheel
  <2>2. /\ settling \subseteq Picker!Columns
        /\ \A col \in settling : scroll[col] \in 1..13 \/ scroll[col] = Was(col)
        /\ ~cut => \A col \in Picker!Columns \ settling : scroll[col] = Was(col)
    BY DEF WheelInv
  <2> HIDE DEF Here, Was
  <2> QED BY <2>1, <2>2
<1>3. CASE ~(Picker!showCustom /\ Picker!ShowsCustom(chosen, m))
  <2>1. scroll' = [col \in Picker!Columns |-> Here(col)] /\ settling' = {}
    BY <1>3 DEF Picker!Wheel, Picker!AtRest
  <2> HIDE DEF Here
  <2> QED BY <2>1
<1> QED BY <1>2, <1>3

\* The form's value becomes m, and the wheel and the number follow.
LEMMA PickerBecomes ==
    ASSUME PickerInv, NEW m \in Nat, NEW chosen, NEW ref, NEW by, NEW back,
           NEW t \in Amounts, NEW u \in Units,
           Picker!Becomes(m, chosen, ref, by, back, t, u), UNCHANGED <<limits, locked, cut>>,
           m # minutes \/ ~Picker!ShowsCustom(Picker!redecides(m, chosen, ref), m),
           by = "form" \/ m \in Allowed, typing' \in BOOLEAN
    PROVE  PickerInv'
<1> DEFINE p == Picker!redecides(m, chosen, ref)
<1>1. /\ minutes' = m /\ emitted' = IF by = "form" THEN emitted ELSE m
      /\ Picker!Wheel(m, p, back) /\ Picker!Number(m, p, t, u)
  BY DEF Picker!Becomes
<1>2. WheelInv' BY <1>1, WheelTurns DEF PickerInv
<1>3. unit' \in Units /\ text' \in Amounts /\ Picker!parseDurationAmount(text', unit') = m
  <2>1. \A w \in Units : /\ Picker!formatDurationAmount(m, w) \in Amounts
                         /\ Picker!parseDurationAmount(Picker!formatDurationAmount(m, w), w) = m
    BY AmountReadsBack DEF Amounts
  <2>2. CASE ~Picker!showCustom \/ ~Picker!ShowsCustom(p, m)
    <3>1. unit' = Picker!resolveDurationUnit(m) /\ text' = Picker!formatDurationAmount(m, unit')
      BY <1>1, <2>2 DEF Picker!Number
    <3> QED BY <2>1, <3>1, ResolvedUnit
  <2>3. CASE Picker!showCustom /\ Picker!ShowsCustom(p, m)
    <3>1. m # minutes BY <2>3
    <3>2. /\ unit' = u
          /\ text' = IF Picker!parseDurationAmount(t, u) # m
                     THEN Picker!formatDurationAmount(m, u) ELSE t
      BY <1>1, <2>3, <3>1 DEF Picker!Number
    <3> QED BY <2>1, <3>2
  <2> QED BY <2>2, <2>3
<1>4. NumberInv'
  <2>1. Picker!parseDurationAmount(text, unit)' = Picker!parseDurationAmount(text', unit')
    BY DEF Picker!parseDurationAmount, Picker!Nothing
  <2> QED BY <1>1, <1>3, <2>1 DEF NumberInv, Amounts, Units, Picker!Nothing
<1> QED BY <1>1, <1>2, <1>4 DEF PickerInv, Allowed

\* The custom input hands over m, or what was shown of it changes.
LEMMA PickerHands ==
    ASSUME PickerInv, NEW m \in Allowed \cup {minutes}, NEW back,
           NEW t \in Amounts, NEW u \in Units,
           Picker!handleCustomChange(m, back, t, u), UNCHANGED <<limits, locked, cut>>,
           typing' \in BOOLEAN,
           m = minutes /\ ~typing' => Picker!parseDurationAmount(t, u) = minutes
    PROVE  PickerInv'
<1>1. m \in Nat BY DEF PickerInv, Allowed
<1>2. CASE m # minutes
  <2>1. Picker!Becomes(m, customPicked, m, "custom", back, t, u)
    BY <1>2 DEF Picker!handleCustomChange
  <2>2. m \in Allowed BY <1>2
  <2> QED BY <1>1, <1>2, <2>1, <2>2, PickerBecomes
<1>3. CASE m = minutes
  <2>1. /\ Picker!Wheel(m, customPicked, back) /\ unit' = u /\ text' = t
        /\ UNCHANGED <<minutes, emitted>>
    BY <1>3 DEF Picker!handleCustomChange
  <2>2. WheelInv' BY <1>3, <2>1, WheelTurns DEF PickerInv
  <2>3. Picker!parseDurationAmount(text, unit)' = Picker!parseDurationAmount(t, u)
    BY <2>1 DEF Picker!parseDurationAmount, Picker!Nothing
  <2>4. NumberInv' BY <1>3, <2>1, <2>3 DEF NumberInv, Amounts, Units, Picker!Nothing
  <2> QED BY <2>1, <2>2, <2>4 DEF PickerInv, Allowed
<1> QED BY <1>2, <1>3

\* What is committed in a column is within the limits.
LEMMA PickerCommits ==
    ASSUME PickerInv, NEW col \in Picker!Columns, NEW item \in Int, NEW back,
           Picker!commit(col, item, back), UNCHANGED <<limits, locked, cut, typing>>
    PROVE  PickerInv'
<1> DEFINE h == IF col = "hours" THEN item ELSE minutes \div 60
           r == IF col = "hours" THEN minutes % 60 ELSE item
           m == Picker!clampWheelDuration(60 * h + r, limits)
<1>1. Picker!handleCustomChange(m, back, text, unit) BY DEF Picker!commit
<1>2. 60 * h + r \in Int
  <2>1. minutes \div 60 \in Int /\ minutes % 60 \in Int BY ClockFacts DEF PickerInv
  <2>2. h \in Int /\ r \in Int BY <2>1
  <2> HIDE DEF h, r
  <2> QED BY <2>2
<1> HIDE DEF h, r
<1>3. m \in Allowed BY <1>2, WheelClampsIn DEF PickerInv, Allowed
<1> HIDE DEF m
<1>4. text \in Amounts /\ unit \in Units /\ typing' \in BOOLEAN
      /\ (~typing' => Picker!parseDurationAmount(text, unit) = minutes)
  BY DEF PickerInv, NumberInv
<1> QED BY <1>1, <1>3, <1>4, PickerHands

LEMMA PickerStarts == Init => PickerInv
<1> SUFFICES ASSUME Init PROVE PickerInv
  OBVIOUS
<1>1. Picker!PickInit BY DEF Init
<1>2. limits \in [min : Nat, max : Nat] /\ limits.min <= limits.max /\ minutes \in Nat
  BY <1>1, PickerAssumption DEF Picker!PickInit, Limits
<1>3. locked = FALSE /\ cut = FALSE /\ emitted = 0 BY <1>1 DEF Picker!PickInit
<1>4. WheelInv
  <2>1. scroll = [col \in Picker!Columns |-> Picker!Index(col, minutes)] /\ settling = {}
    BY <1>1 DEF Picker!PickInit, Picker!AtRest
  <2> QED BY <2>1 DEF WheelInv
<1>5. NumberInv
  <2>1. unit \in Units BY <1>1, ResolvedUnit DEF Picker!PickInit
  <2>2. text = Picker!formatDurationAmount(minutes, unit) /\ typing = FALSE
    BY <1>1 DEF Picker!PickInit
  <2> QED BY <1>2, <2>1, <2>2, AmountReadsBack DEF NumberInv, Amounts
<1> QED BY <1>2, <1>3, <1>4, <1>5 DEF PickerInv

LEMMA FormChangesKeeps ==
    ASSUME PickerInv, NEW m \in Durations, Picker!FormChanges(m)
    PROVE  PickerInv'
<1>1. m \in Nat /\ m # minutes BY PickerAssumption DEF Picker!FormChanges
<1>2. /\ Picker!Becomes(m, customPicked, customEmitted, "form", {}, text, unit)
      /\ UNCHANGED <<limits, locked, cut>> /\ typing' = (typing /\ Picker!showCustom')
  BY DEF Picker!FormChanges
<1>3. text \in Amounts /\ unit \in Units /\ typing' \in BOOLEAN
  BY <1>2 DEF PickerInv, NumberInv
<1> QED BY <1>1, <1>2, <1>3, PickerBecomes

LEMMA FormLocksKeeps == ASSUME PickerInv, Picker!FormLocks PROVE PickerInv'
<1>1. /\ locked' = ~locked
      /\ UNCHANGED <<limits, minutes, scroll, settling, unit, text, typing, emitted, cut>>
  BY DEF Picker!FormLocks
<1>2. WheelInv' BY <1>1, WheelStays DEF PickerInv
<1>3. NumberInv' BY <1>1, NumberStays DEF PickerInv
<1> QED BY <1>1, <1>2, <1>3 DEF PickerInv, Allowed

LEMMA PickCustomKeeps == ASSUME PickerInv, Picker!pickCustom PROVE PickerInv'
<1>1. UNCHANGED <<limits, minutes, locked, scroll, settling, unit, text, typing, emitted, cut>>
  BY DEF Picker!pickCustom
<1>2. WheelInv' BY <1>1, WheelStays DEF PickerInv
<1>3. NumberInv' BY <1>1, NumberStays DEF PickerInv
<1> QED BY <1>1, <1>2, <1>3 DEF PickerInv, Allowed

\* A chip: its value is among the chips, so the custom input goes away.
LEMMA PresetKeeps ==
    ASSUME PickerInv, NEW p \in Picker!visiblePresets, Picker!handlePresetChange(p)
    PROVE  PickerInv'
<1>1. /\ Picker!Becomes(p, FALSE, 0, "preset", {}, text, unit)
      /\ UNCHANGED <<limits, locked, typing, cut>>
  BY DEF Picker!handlePresetChange
<1>2. p \in Nat /\ p \in Allowed
  BY PickerAssumption DEF Picker!visiblePresets, PickerInv, Allowed
<1>3. ~Picker!ShowsCustom(Picker!redecides(p, FALSE, 0), p)
  BY DEF Picker!ShowsCustom, Picker!redecides
<1>4. text \in Amounts /\ unit \in Units /\ typing' \in BOOLEAN
  BY <1>1 DEF PickerInv, NumberInv
<1> QED BY <1>1, <1>2, <1>3, <1>4, PickerBecomes

LEMMA StepByKeeps ==
    ASSUME PickerInv, NEW col \in Picker!Columns, NEW i \in 1..13, Picker!stepBy(col, i)
    PROVE  PickerInv'
<1>1. /\ i \in DOMAIN Picker!Items(col, minutes)
      /\ Picker!commit(col, Picker!Items(col, minutes)[i], {})
      /\ UNCHANGED <<limits, locked, typing, cut>>
  BY DEF Picker!stepBy
<1>2. Picker!Items(col, minutes)[i] \in Int BY <1>1, ItemsAreNumbers DEF PickerInv
<1> QED BY <1>1, <1>2, PickerCommits

LEMMA ScrollKeeps ==
    ASSUME PickerInv, NEW col \in Picker!Columns, NEW i \in 1..13, Picker!handleScroll(col, i)
    PROVE  PickerInv'
<1>1. /\ scroll' = [scroll EXCEPT ![col] = i] /\ settling' = settling \cup {col}
      /\ UNCHANGED <<limits, minutes, locked, unit, text, typing, emitted, cut>>
  BY DEF Picker!handleScroll
<1>2. WheelInv'
  <2>1. \A c : Picker!Index(c, minutes)' = Picker!Index(c, minutes) BY <1>1, PlacesStay
  <2>2. WheelInv BY DEF PickerInv
  <2>3. scroll' = [c \in Picker!Columns |-> IF c = col THEN i ELSE scroll[c]]
    BY <1>1, <2>2 DEF WheelInv
  <2> QED BY <1>1, <2>1, <2>2, <2>3 DEF WheelInv, Picker!Columns
<1>3. NumberInv' BY <1>1, NumberStays DEF PickerInv
<1> QED BY <1>1, <1>2, <1>3 DEF PickerInv, Allowed

\* A column that is still either stands where the value is, or what it shows is picked.
LEMMA SettledKeeps ==
    ASSUME PickerInv, NEW col \in Picker!Columns, Picker!Settled(col)
    PROVE  PickerInv'
<1> DEFINE most == Len(Picker!Items(col, minutes))
           i == Picker!AtMost(scroll[col], most)
<1>1. /\ col \in settling /\ cut' = (cut \/ (locked /\ i # Picker!Index(col, minutes)))
      /\ UNCHANGED <<limits, locked, typing>>
  BY DEF Picker!Settled
<1>2. CASE locked \/ i = Picker!Index(col, minutes)
  <2>1. /\ settling' = settling \ {col} /\ scroll' = [scroll EXCEPT ![col] = i]
        /\ UNCHANGED <<unit, text, minutes, emitted>>
    BY <1>2 DEF Picker!Settled
  <2>2. ~cut' => ~cut /\ i = Picker!Index(col, minutes) BY <1>1, <1>2
  <2> HIDE DEF i
  <2>3. WheelInv'
    <3>1. \A c : Picker!Index(c, minutes)' = Picker!Index(c, minutes) BY <1>1, <2>1, PlacesStay
    <3>2. WheelInv BY DEF PickerInv
    <3>3. scroll' = [c \in Picker!Columns |-> IF c = col THEN i ELSE scroll[c]]
      BY <2>1, <3>2 DEF WheelInv
    <3> QED BY <2>1, <2>2, <3>1, <3>2, <3>3 DEF WheelInv, Picker!Columns
  <2>4. NumberInv' BY <1>1, <2>1, NumberStays DEF PickerInv
  <2>5. cut' \in BOOLEAN BY <1>1 DEF PickerInv
  <2> QED BY <1>1, <2>1, <2>3, <2>4, <2>5 DEF PickerInv, Allowed
<1>3. CASE ~(locked \/ i = Picker!Index(col, minutes))
  <2>1. Picker!commit(col, Picker!Items(col, minutes)[i], {col})
    BY <1>3 DEF Picker!Settled
  <2>2. UNCHANGED cut BY <1>1, <1>3 DEF PickerInv
  <2>3. i \in 1 .. most
    <3>1. most \in Nat \ {0} BY ItemsAreNumbers DEF PickerInv
    <3>2. scroll[col] \in 1..13 \/ scroll[col] = Picker!Index(col, minutes)
      BY <1>1 DEF PickerInv, WheelInv
    <3> HIDE DEF most
    <3>3. CASE scroll[col] \in 1..13 BY <3>1, <3>3 DEF Picker!AtMost
    <3>4. CASE scroll[col] = Picker!Index(col, minutes)
      <4>1. i = most BY <1>3, <3>4 DEF Picker!AtMost
      <4> HIDE DEF i
      <4> QED BY <3>1, <4>1
    <3> QED BY <3>2, <3>3, <3>4
  <2> HIDE DEF i
  <2>4. Picker!Items(col, minutes)[i] \in Int BY <2>3, ItemsAreNumbers DEF PickerInv
  <2> QED BY <1>1, <2>1, <2>2, <2>4, PickerCommits
<1> QED BY <1>2, <1>3

LEMMA TextChangeKeeps ==
    ASSUME PickerInv, NEW t \in Typed \cup {Picker!Nothing}, Picker!handleTextChange(t)
    PROVE  PickerInv'
<1> DEFINE p == Picker!parseDurationAmount(t, unit)
           m == IF p \in limits.min .. limits.max THEN p ELSE minutes
<1>1. /\ Picker!OnNumber /\ Picker!handleCustomChange(m, {}, t, unit)
      /\ UNCHANGED <<limits, locked, cut>> /\ typing' = Picker!showCustom'
  BY DEF Picker!handleTextChange
<1>2. m \in Allowed \cup {minutes} BY DEF Allowed
<1>3. t \in Amounts /\ unit \in Units
  BY PickerAssumption DEF PickerInv, NumberInv, Amounts
<1>4. typing' \in BOOLEAN BY <1>1 DEF Picker!showCustom, Picker!ShowsCustom
<1>5. m = minutes => typing'
  <2> SUFFICES ASSUME m = minutes PROVE typing'
    OBVIOUS
  <2> HIDE DEF m
  <2>1. UNCHANGED <<minutes, customPicked>> BY <1>1 DEF Picker!handleCustomChange
  <2>2. Picker!showCustom' <=> Picker!showCustom
    BY <1>1, <2>1 DEF Picker!showCustom, Picker!ShowsCustom, Picker!visiblePresets
  <2> QED BY <1>1, <2>2 DEF Picker!OnNumber
<1> HIDE DEF m
<1> QED BY <1>1, <1>2, <1>3, <1>4, <1>5, PickerHands

LEMMA BlurKeeps == ASSUME PickerInv, Picker!handleBlur PROVE PickerInv'
<1> DEFINE m == Picker!clampDuration(Picker!Meant, limits)
<1>1. /\ typing' = FALSE /\ UNCHANGED <<limits, locked, cut>>
      /\ Picker!handleCustomChange(m, {}, Picker!formatDurationAmount(m, unit), unit)
  BY DEF Picker!handleBlur
<1>2. Picker!Meant \in Nat
  <2>1. Picker!parseDurationAmount(text, unit) \in Nat \cup {Picker!Nothing}
    BY AmountIsRead DEF PickerInv, NumberInv
  <2> QED BY <2>1 DEF Picker!Meant, PickerInv
<1>3. m \in Allowed BY <1>2, ClampsIn DEF PickerInv, Allowed
<1> HIDE DEF m
<1>4. m \in Nat BY <1>3 DEF PickerInv, Allowed
<1>5. unit \in Units BY DEF PickerInv, NumberInv
<1>6. /\ Picker!formatDurationAmount(m, unit) \in Amounts
      /\ Picker!parseDurationAmount(Picker!formatDurationAmount(m, unit), unit) = m
  BY <1>4, <1>5, AmountReadsBack DEF Amounts
<1> QED BY <1>1, <1>3, <1>5, <1>6, PickerHands

LEMMA UnitChangeKeeps ==
    ASSUME PickerInv, NEW u \in Units, Picker!handleUnitChange(u)
    PROVE  PickerInv'
<1> DEFINE p == Picker!parseDurationAmount(text, u)
           keeps == text # Picker!Nothing /\ text % 100 = 0
           meant == IF keeps THEN p ELSE minutes
           m == Picker!clampDuration(meant, limits)
<1>1. /\ UNCHANGED <<limits, locked, cut, typing>>
      /\ Picker!handleCustomChange(m, {}, Picker!formatDurationAmount(m, u), u)
  BY DEF Picker!handleUnitChange
<1>2. meant \in Int
  <2>1. p \in Int BY AmountIsRead DEF PickerInv, NumberInv, Picker!Nothing
  <2> HIDE DEF keeps, p
  <2> QED BY <2>1 DEF PickerInv
<1> HIDE DEF meant
<1>3. m \in Allowed BY <1>2, ClampsIn DEF PickerInv, Allowed
<1> HIDE DEF m
<1>4. m \in Nat /\ typing' \in BOOLEAN BY <1>1, <1>3 DEF PickerInv, NumberInv, Allowed
<1>5. /\ Picker!formatDurationAmount(m, u) \in Amounts
      /\ Picker!parseDurationAmount(Picker!formatDurationAmount(m, u), u) = m
  BY <1>4, AmountReadsBack DEF Amounts
<1> QED BY <1>1, <1>3, <1>4, <1>5, PickerHands

--------------------------------------------------------------------------------
(* The recommended limit of backups.                                            *)

\* The members of a finite set counted off one by one, each time the one that is
\* picked, leave a number behind at every turn.
Summed(S, w, g) ==
    g = [s \in SUBSET S |-> IF s = {} THEN 0
                            ELSE LET x == CHOOSE x \in s : TRUE IN w[x] + g[s \ {x}]]

LEMMA SumIsDefined ==
    ASSUME NEW S, IsFiniteSet(S), NEW w \in [S -> Nat]
    PROVE  \E g \in [SUBSET S -> Nat] : Summed(S, w, g)
<1> DEFINE Small(n) == {s \in SUBSET S : Cardinality(s) <= n}
           Below == OpToRel(<, Nat)
           Fits(n, g) == \A s \in Small(n) :
               g[s] = IF s = {} THEN 0 ELSE LET x == CHOOSE x \in s : TRUE IN w[x] + g[s \ {x}]
           Missed == {n \in Nat : \A g \in [SUBSET S -> Nat] : ~Fits(n, g)}
<1>1. \A s \in SUBSET S : IsFiniteSet(s) /\ Cardinality(s) \in Nat
  BY FS_Subset, FS_CardinalityType
<1>2. \A s \in SUBSET S : (s = {}) <=> (Cardinality(s) = 0)
  BY <1>1, FS_EmptySet
<1>3. ASSUME NEW s \in SUBSET S, s # {}
      PROVE  LET x == CHOOSE x \in s : TRUE
             IN  x \in s /\ s \ {x} \in SUBSET S /\ Cardinality(s \ {x}) = Cardinality(s) - 1
  <2>1. \A x \in s : Cardinality(s \ {x}) = Cardinality(s) - 1
    BY <1>1, FS_RemoveElement
  <2> QED BY <1>3, <2>1
<1>4. \A n \in Nat : n \notin Missed
  <2> SUFFICES ASSUME Missed # {} PROVE FALSE
    OBVIOUS
  <2>1. PICK n \in Missed : \A j \in Missed : <<j, n>> \notin Below
    <3>1. IsWellFoundedOn(Below, Nat) BY NatLessThanWellFounded
    <3>2. Missed \subseteq Nat OBVIOUS
    <3> HIDE DEF Missed, Below
    <3> QED BY <3>1, <3>2, WFMin
  <2>2. CASE n = 0
    <3> DEFINE g == [s \in SUBSET S |-> 0]
    <3>1. g \in [SUBSET S -> Nat] OBVIOUS
    <3>2. \A s \in Small(0) : s = {} BY <1>1, <1>2
    <3>3. Fits(0, g) BY <3>2
    <3> QED BY <2>1, <2>2, <3>1, <3>3
  <2>3. CASE n # 0
    <3>1. n - 1 \in Nat /\ n \in Nat
      <4>1. n \in Nat OBVIOUS
      <4> HIDE DEF Missed, Below, Fits, Small
      <4> QED BY <2>3, <4>1
    <3>2. <<n - 1, n>> \in Below BY <3>1 DEF OpToRel
    <3>3. PICK g \in [SUBSET S -> Nat] : Fits(n - 1, g) BY <2>1, <3>1, <3>2
    <3> DEFINE h == [s \in SUBSET S |->
                        IF s \in Small(n - 1) THEN g[s]
                        ELSE LET x == CHOOSE x \in s : TRUE IN w[x] + g[s \ {x}]]
    <3>4. ASSUME NEW s \in SUBSET S, s \notin Small(n - 1) PROVE s # {}
      <4>1. ~(Cardinality(s) <= n - 1) BY <3>4
      <4> QED BY <1>2, <3>1, <4>1
    <3>5. h \in [SUBSET S -> Nat]
      <4>1. ASSUME NEW s \in SUBSET S, s \notin Small(n - 1)
            PROVE  LET x == CHOOSE x \in s : TRUE IN w[x] + g[s \ {x}] \in Nat
        <5> HIDE DEF Small
        <5>1. s # {} BY <3>4, <4>1
        <5> QED BY <1>3, <5>1
      <4> HIDE DEF Small
      <4> QED BY <4>1
    <3>6. ASSUME NEW s \in Small(n)
          PROVE  h[s] = IF s = {} THEN 0
                        ELSE LET x == CHOOSE x \in s : TRUE IN w[x] + h[s \ {x}]
      <4>1. s \in SUBSET S /\ Cardinality(s) \in Nat /\ Cardinality(s) <= n BY <1>1
      <4>2. CASE s = {}
        <5>1. s \in Small(n - 1) BY <1>2, <3>1, <4>1, <4>2
        <5> QED BY <3>3, <4>1, <4>2, <5>1
      <4>3. CASE s # {}
        <5> DEFINE x == CHOOSE x \in s : TRUE
        <5>1. x \in s /\ s \ {x} \in SUBSET S /\ Cardinality(s \ {x}) = Cardinality(s) - 1
          BY <1>3, <4>1, <4>3
        <5>2. s \ {x} \in Small(n - 1) BY <3>1, <4>1, <5>1
        <5> HIDE DEF Small
        <5>3. h[s \ {x}] = g[s \ {x}] BY <5>1, <5>2
        <5>4. h[s] = w[x] + g[s \ {x}]
          <6>1. CASE s \in Small(n - 1)
            <7>1. g[s] = w[x] + g[s \ {x}] BY <3>3, <4>3, <6>1
            <7> QED BY <4>1, <6>1, <7>1
          <6>2. CASE s \notin Small(n - 1) BY <4>1, <6>2
          <6> QED BY <6>1, <6>2
        <5> HIDE DEF h
        <5> QED BY <4>3, <5>3, <5>4
      <4> QED BY <4>2, <4>3
    <3> HIDE DEF h
    <3>7. Fits(n, h) BY <3>6
    <3> QED BY <2>1, <3>5, <3>7
  <2> QED BY <2>2, <2>3
<1>5. Cardinality(S) \in Nat /\ S \in SUBSET S BY <1>1
<1>6. PICK g \in [SUBSET S -> Nat] : Fits(Cardinality(S), g) BY <1>4, <1>5
<1>7. \A s \in SUBSET S : s \in Small(Cardinality(S))
  BY FS_Subset
<1> HIDE DEF Small
<1>8. Summed(S, w, g) BY <1>6, <1>7 DEF Summed
<1> QED BY <1>8

\* What the servers counted on a drive may still grow by is a number.
LEMMA GrowthIsNat ==
    ASSUME NEW S, IsFiniteSet(S), \A f \in S : Advice!Growth(f) \in Nat
    PROVE  Advice!MapThenSumSet(Advice!Growth, S) \in Nat
<1> DEFINE w == [f \in S |-> Advice!Growth(f)]
           Sum(g) == [s \in SUBSET S |-> IF s = {} THEN 0
                        ELSE LET x == CHOOSE x \in s : TRUE
                             IN  Advice!Growth(x) + g[s \ {x}]]
           iter == CHOOSE g : g = Sum(g)
<1>1. w \in [S -> Nat] OBVIOUS
<1> HIDE DEF w
<1>2. PICK g \in [SUBSET S -> Nat] : Summed(S, w, g) BY <1>1, SumIsDefined
<1>3. g = Sum(g)
  <2>1. \A s \in SUBSET S : s # {} => w[CHOOSE x \in s : TRUE] = Advice!Growth(CHOOSE x \in s : TRUE)
    BY DEF w
  <2>2. g = [s \in SUBSET S |-> IF s = {} THEN 0
                            ELSE LET x == CHOOSE x \in s : TRUE IN w[x] + g[s \ {x}]]
    BY <1>2 DEF Summed
  <2> QED BY <2>1, <2>2
<1>4. iter = Sum(iter) BY <1>3, Zenon
<1>5. Advice!MapThenSumSet(Advice!Growth, S) = iter[S]
  BY DEF Advice!MapThenSumSet, Advice!MapThenFoldSet
<1>6. iter[S] \in Nat
  <2> DEFINE Bad == {n \in Nat : \E s \in SUBSET S : Cardinality(s) = n /\ iter[s] \notin Nat}
             Below == OpToRel(<, Nat)
  <2>1. \A s \in SUBSET S : iter[s] = IF s = {} THEN 0
                                     ELSE LET x == CHOOSE x \in s : TRUE
                                          IN  Advice!Growth(x) + iter[s \ {x}]
    BY <1>4
  <2> HIDE DEF iter
  <2>2. ASSUME Bad # {} PROVE FALSE
    <3>1. PICK n \in Bad : \A j \in Bad : <<j, n>> \notin Below
      <4>1. IsWellFoundedOn(Below, Nat) BY NatLessThanWellFounded
      <4>2. Bad \subseteq Nat OBVIOUS
      <4> HIDE DEF Bad, Below
      <4> QED BY <2>2, <4>1, <4>2, WFMin
    <3>2. PICK s \in SUBSET S : Cardinality(s) = n /\ iter[s] \notin Nat
      OBVIOUS
    <3> DEFINE x == CHOOSE x \in s : TRUE
    <3>3. s # {}
      <4>1. ASSUME s = {} PROVE iter[s] = 0 BY <2>1, <4>1, Zenon
      <4> HIDE DEF Bad, Below
      <4> QED BY <3>2, <4>1
    <3>4. x \in s /\ x \in S BY <3>3
    <3>5. iter[s] = Advice!Growth(x) + iter[s \ {x}] BY <2>1, <3>3
    <3>6. IsFiniteSet(s) /\ Cardinality(s) \in Nat BY FS_Subset, FS_CardinalityType
    <3> HIDE DEF x, Bad
    <3>7. Cardinality(s \ {x}) = n - 1 BY <3>2, <3>4, <3>6, FS_RemoveElement
    <3>8. IsFiniteSet(s \ {x}) /\ Cardinality(s \ {x}) \in Nat BY <3>6, FS_Subset, FS_CardinalityType
    <3>9. iter[s \ {x}] \notin Nat
      <4>1. Advice!Growth(x) \in Nat BY <3>4
      <4> HIDE DEF Below
      <4> QED BY <3>2, <3>5, <4>1
    <3>10. n - 1 \in Bad BY <3>7, <3>8, <3>9 DEF Bad
    <3>11. n \in Nat BY <3>2, <3>6
    <3>12. n - 1 \in Nat BY <3>7, <3>8
    <3>13. <<n - 1, n>> \in Below BY <3>11, <3>12 DEF OpToRel
    <3> QED BY <3>1, <3>10, <3>13
  <2>3. Cardinality(S) \in Nat BY FS_CardinalityType
  <2> QED BY <2>2, <2>3
<1> QED BY <1>5, <1>6

\* What is known of a drive is known of the folder in the field.
AdviceInv ==
    /\ \E S \in SUBSET Folders : listed \in [S -> [auto : BOOLEAN, used : Uses]]
    /\ looks \subseteq [of : Folders \cup {Advice!NoFolder}, at : {"settling", "asked"}, live : BOOLEAN]
    /\ \A l \in looks : l.live => l.of = target
    /\ disk # Advice!NoDisk => disk.of = target /\ disk.total \in Nat /\ disk.available \in Nat

LEMMA AdviceStarts == Init => AdviceInv
BY DEF Init, Advice!AdviceInit, AdviceInv

LEMMA SetTarget ==
    ASSUME AdviceInv, NEW t \in Folders \cup {Advice!NoFolder}, Advice!setTarget(t)
    PROVE  AdviceInv'
<1>1. disk' = Advice!NoDisk /\ target' = t /\ UNCHANGED listed BY DEF Advice!setTarget
<1>2. looks' = {[l EXCEPT !.live = FALSE] : l \in {k \in looks : k.at = "asked"}}
                \cup (IF t = Advice!NoFolder THEN {} ELSE {[of |-> t, at |-> "settling", live |-> TRUE]})
  BY DEF Advice!setTarget
<1>3. \A l \in looks' : l \in [of : Folders \cup {Advice!NoFolder}, at : {"settling", "asked"}, live : BOOLEAN]
                        /\ (l.live => l.of = target')
  <2> SUFFICES ASSUME NEW l \in looks'
               PROVE  l \in [of : Folders \cup {Advice!NoFolder}, at : {"settling", "asked"}, live : BOOLEAN]
                      /\ (l.live => l.of = t)
    BY <1>1
  <2>1. CASE \E k \in looks : l = [k EXCEPT !.live = FALSE]
    <3>1. PICK k \in looks : l = [k EXCEPT !.live = FALSE] BY <2>1
    <3>2. k \in [of : Folders \cup {Advice!NoFolder}, at : {"settling", "asked"}, live : BOOLEAN]
      BY DEF AdviceInv
    <3> QED BY <3>1, <3>2
  <2>2. CASE l = [of |-> t, at |-> "settling", live |-> TRUE] BY <2>2
  <2> QED BY <1>2, <2>1, <2>2
<1> QED BY <1>1, <1>3 DEF AdviceInv, Advice!NoDisk

LEMMA DiskIsRead ==
    ASSUME AdviceInv, NEW l \in looks, NEW d \in Disks, Advice!DiskRead(l, d)
    PROVE  AdviceInv'
<1>1. looks' \subseteq looks /\ UNCHANGED <<target, listed>> BY DEF Advice!DiskRead
<1>2. disk' = IF l.live THEN [of |-> l.of, total |-> d.total, available |-> d.available] ELSE disk
  BY DEF Advice!DiskRead
<1>3. d.total \in Nat /\ d.available \in Nat BY DEF Disks
<1>4. l.live => l.of = target BY DEF AdviceInv
<1>5. disk' # Advice!NoDisk => disk'.of = target /\ disk'.total \in Nat /\ disk'.available \in Nat
  BY <1>2, <1>3, <1>4 DEF AdviceInv
<1> QED BY <1>1, <1>5 DEF AdviceInv, Advice!NoDisk

LEMMA GetDiskSpace ==
    ASSUME AdviceInv, NEW l \in looks, Advice!getDiskSpace(l)
    PROVE  AdviceInv'
<1>1. looks' = (looks \ {l}) \cup {[l EXCEPT !.at = "asked"]} /\ UNCHANGED <<target, listed, disk>>
  BY DEF Advice!getDiskSpace
<1>2. l \in [of : Folders \cup {Advice!NoFolder}, at : {"settling", "asked"}, live : BOOLEAN]
      /\ (l.live => l.of = target)
  BY DEF AdviceInv
<1>3. [l EXCEPT !.at = "asked"] \in [of : Folders \cup {Advice!NoFolder}, at : {"settling", "asked"}, live : BOOLEAN]
      /\ [l EXCEPT !.at = "asked"].live = l.live /\ [l EXCEPT !.at = "asked"].of = l.of
  BY <1>2
<1> QED BY <1>1, <1>2, <1>3 DEF AdviceInv, Advice!NoDisk

LEMMA ListChanges ==
    ASSUME AdviceInv, NEW f \in Folders, NEW s \in [auto : BOOLEAN, used : Uses],
           Advice!ListChanges(f, s)
    PROVE  AdviceInv'
<1>1. UNCHANGED <<target, disk, looks>> BY DEF Advice!ListChanges
<1>2. PICK S \in SUBSET Folders : listed \in [S -> [auto : BOOLEAN, used : Uses]]
  BY DEF AdviceInv
<1>3. \E T \in SUBSET Folders : listed' \in [T -> [auto : BOOLEAN, used : Uses]]
  <2>1. CASE listed' = [g \in DOMAIN listed \cup {f} |-> IF g = f THEN s ELSE listed[g]]
    <3>1. listed' = [g \in S \cup {f} |-> IF g = f THEN s ELSE listed[g]]
      BY <1>2, <2>1
    <3>2. S \cup {f} \in SUBSET Folders OBVIOUS
    <3>3. listed' \in [S \cup {f} -> [auto : BOOLEAN, used : Uses]] BY <1>2, <3>1
    <3> QED BY <3>2, <3>3
  <2>2. CASE listed' = Advice!Restrict(listed, DOMAIN listed \ {f})
    <3>1. listed' = [g \in S \ {f} |-> listed[g]] BY <1>2, <2>2 DEF Advice!Restrict
    <3>2. S \ {f} \in SUBSET Folders OBVIOUS
    <3>3. listed' \in [S \ {f} -> [auto : BOOLEAN, used : Uses]] BY <1>2, <3>1
    <3> QED BY <3>2, <3>3
  <2> QED BY <2>1, <2>2 DEF Advice!ListChanges
<1> QED BY <1>1, <1>3 DEF AdviceInv, Advice!NoDisk

LEMMA AdviceSteps == AdviceInv /\ [Next]_AllVars => AdviceInv'
<1> SUFFICES ASSUME AdviceInv, [Next]_AllVars PROVE AdviceInv'
  OBVIOUS
<1>1. CASE Advice!AdviceNext
  <2>1. ASSUME NEW t \in Folders \cup {Advice!NoFolder}, Advice!setTarget(t) PROVE AdviceInv'
    BY <2>1, SetTarget
  <2>2. ASSUME NEW l \in looks, Advice!getDiskSpace(l) PROVE AdviceInv'
    BY <2>2, GetDiskSpace
  <2>3. ASSUME NEW l \in looks, Advice!DiskUnread(l) PROVE AdviceInv'
    BY <2>3 DEF AdviceInv, Advice!DiskUnread, Advice!NoDisk
  <2>4. ASSUME NEW l \in looks, NEW d \in Disks, Advice!DiskRead(l, d) PROVE AdviceInv'
    BY <2>4, DiskIsRead
  <2>5. ASSUME NEW i \in DOMAIN promises, Advice!MountFound(i) \/ Advice!MountFails(i)
        PROVE  AdviceInv'
    BY <2>5 DEF AdviceInv, Advice!MountFound, Advice!MountFails, Advice!NoDisk
  <2>6. ASSUME NEW g \in gathers, Advice!setMounts(g) PROVE AdviceInv'
    BY <2>6 DEF AdviceInv, Advice!setMounts, Advice!NoDisk
  <2>7. ASSUME NEW f \in Folders, NEW s \in [auto : BOOLEAN, used : Uses],
               Advice!ListChanges(f, s)
        PROVE  AdviceInv'
    BY <2>7, ListChanges
  <2> QED BY <1>1, <2>1, <2>2, <2>3, <2>4, <2>5, <2>6, <2>7 DEF Advice!AdviceNext
<1>2. CASE UNCHANGED adviceVars
  BY <1>2 DEF adviceVars, AdviceInv, Advice!NoDisk
<1> QED BY <1>1, <1>2 DEF Next, AllVars

\* The arithmetic: g may still grow, s is the margin, own is there already.
LEMMA RoomIsLeft ==
    ASSUME NEW a \in Nat, NEW g \in Nat, NEW s \in Nat, NEW r, NEW b \in Int,
           b = a - g - s, b >= 50, r = ((3 * b + 250) \div 500) * 5
    PROVE  r \in Int /\ r <= (a - s) \div 10 /\ (r > 5 => a - g - r * 10 >= s)
BY SMT

LEMMA AdviceLeavesRoom ==
    ASSUME AdviceInv PROVE Advice!AdviceLeavesRoom
<1> SUFFICES ASSUME Advice!isReady
             PROVE  /\ Advice!recommendation.recommended <= Advice!recommendation.sliderMax
                    /\ ~Advice!recommendation.low =>
                          disk.available - Advice!MapThenSumSet(Advice!Growth, Advice!OnDrive)
                              - (Advice!recommendation.recommended * 10 - Advice!Own)
                                >= Advice!Safety(disk)
  BY DEF Advice!AdviceLeavesRoom, Advice!GB
<1>1. PICK S \in SUBSET Folders : listed \in [S -> [auto : BOOLEAN, used : Uses]]
  BY DEF AdviceInv
<1>2. \A f \in S : listed[f].used \in Nat
  BY <1>1, AdviceAssumption
<1>3. \A f \in S : Advice!Growth(f) \in Nat
  BY <1>2, AdviceAssumption DEF Advice!Growth, Advice!AtLeast, Advice!reservableLimitGb, Advice!GB
<1>4. IsFiniteSet(Advice!OnDrive) /\ Advice!OnDrive \subseteq S
  <2>1. Advice!OnDrive \subseteq S /\ S \subseteq Folders
    BY <1>1 DEF Advice!OnDrive, Advice!others, Advice!Others
  <2> QED BY <2>1, AdviceAssumption, FS_Subset
<1> DEFINE g == Advice!MapThenSumSet(Advice!Growth, Advice!OnDrive)
           own == Advice!Own
           s == Advice!Safety(disk)
           a == disk.available + own
           b == a - g - s
           r == ((3 * b + 250) \div 500) * 5
           rec == Advice!recommendation
<1>5. g \in Nat BY <1>3, <1>4, GrowthIsNat
<1>6. own \in Nat BY <1>1, <1>2 DEF Advice!Own
<1>7. disk.available \in Nat /\ disk.total \in Nat BY DEF AdviceInv, Advice!isReady
<1>8. s \in Nat BY <1>7 DEF Advice!Safety, Advice!AtLeast, Advice!GB
<1>9. /\ rec.low = (b < 50)
      /\ rec.recommended = IF b < 50 THEN 5
                           ELSE Advice!AtMost(200, Advice!AtLeast(5, r))
      /\ rec.sliderMax = Advice!AtLeast(5, Advice!AtLeast(0, (a - s) \div 10))
  BY DEF Advice!recommendation, Advice!computeStorageRecommendation, Advice!bytesToWholeGb, Advice!GB,
         Advice!STORAGE_RECOMMENDATION_MIN_GB, Advice!STORAGE_RECOMMENDATION_MAX_GB, Advice!roundTo5
<1> HIDE DEF g, own, s, rec
<1>10. a \in Nat /\ b \in Int BY <1>5, <1>6, <1>7, <1>8
<1>11. b >= 50 => r \in Int /\ r <= (a - s) \div 10 /\ (r > 5 => a - g - r * 10 >= s)
  BY <1>5, <1>8, <1>10, RoomIsLeft
<1> SUFFICES /\ rec.recommended <= rec.sliderMax
             /\ ~rec.low => disk.available - g - (rec.recommended * 10 - own) >= s
  BY DEF g, own, s, rec
<1>12. PICK q \in Int : q = (a - s) \div 10 BY <1>8, <1>10
<1>13. disk.available = a - own BY <1>6, <1>7
<1> HIDE DEF a
<1>14. CASE b < 50
  <2> HIDE DEF b, r
  <2>1. rec.low /\ rec.recommended = 5 BY <1>9, <1>14, Zenon
  <2>2. rec.sliderMax = Advice!AtLeast(5, Advice!AtLeast(0, q)) BY <1>9, <1>12
  <2>3. 5 <= rec.sliderMax BY <2>2 DEF Advice!AtLeast
  <2> QED BY <2>1, <2>3
<1>15. CASE b >= 50
  <2>1. r \in Int /\ r <= q /\ (r > 5 => a - g - r * 10 >= s) BY <1>11, <1>12, <1>15
  <2>2. ~(b < 50) /\ a - g - s >= 50 BY <1>10, <1>15
  <2> HIDE DEF b, r
  <2>3. rec.recommended = Advice!AtMost(200, Advice!AtLeast(5, r)) BY <1>9, <2>2
  <2>4. PICK v \in Int : v = rec.recommended /\ (v = 5 \/ (v <= r /\ r > 5))
    BY <2>1, <2>3 DEF Advice!AtMost, Advice!AtLeast
  <2>5. rec.sliderMax \in Int /\ rec.sliderMax >= 5 /\ rec.sliderMax >= q
    BY <1>9, <1>12 DEF Advice!AtLeast
  <2>6. a - g - v * 10 >= s
    BY <1>5, <1>8, <1>10, <2>1, <2>2, <2>4
  <2>7. (a - own) - g - (v * 10 - own) = a - g - v * 10
    BY <1>5, <1>6, <1>10
  <2>8. v <= rec.sliderMax BY <2>1, <2>4, <2>5
  <2> QED BY <1>13, <2>4, <2>6, <2>7, <2>8
<1> QED BY <1>10, <1>14, <1>15

LEMMA AdviceShows == AdviceInv => Advice!AdviceIsOfTarget /\ Advice!AdviceLeavesRoom
<1> SUFFICES ASSUME AdviceInv PROVE Advice!AdviceIsOfTarget
  BY AdviceLeavesRoom
<1> QED BY DEF AdviceInv, Advice!AdviceIsOfTarget, Advice!isReady, Advice!OnDrive

LEMMA PickerSteps == PickerInv /\ [Next]_AllVars => PickerInv'
<1> SUFFICES ASSUME PickerInv, [Next]_AllVars PROVE PickerInv'
  OBVIOUS
<1>1. CASE Picker!PickNext
  <2>1. ASSUME NEW m \in Durations, Picker!FormChanges(m) PROVE PickerInv'
    BY <2>1, FormChangesKeeps
  <2>2. CASE Picker!FormLocks BY <2>2, FormLocksKeeps
  <2>3. CASE Picker!pickCustom BY <2>3, PickCustomKeeps
  <2>4. CASE Picker!handleBlur BY <2>4, BlurKeeps
  <2>5. ASSUME NEW p \in Picker!visiblePresets, Picker!handlePresetChange(p) PROVE PickerInv'
    BY <2>5, PresetKeeps
  <2>6. ASSUME NEW col \in Picker!Columns, NEW i \in 1..13, Picker!stepBy(col, i) PROVE PickerInv'
    BY <2>6, StepByKeeps
  <2>7. ASSUME NEW col \in Picker!Columns, NEW i \in 1..13, Picker!handleScroll(col, i)
        PROVE  PickerInv'
    BY <2>7, ScrollKeeps
  <2>8. ASSUME NEW col \in Picker!Columns, Picker!Settled(col) PROVE PickerInv'
    BY <2>8, SettledKeeps
  <2>9. ASSUME NEW t \in Typed \cup {Picker!Nothing}, Picker!handleTextChange(t) PROVE PickerInv'
    BY <2>9, TextChangeKeeps
  <2>10. ASSUME NEW u \in Units, Picker!handleUnitChange(u) PROVE PickerInv'
    BY <2>10, UnitChangeKeeps
  <2> QED
    BY <1>1, <2>1, <2>2, <2>3, <2>4, <2>5, <2>6, <2>7, <2>8, <2>9, <2>10, Zenon
    DEF Picker!PickNext, Units
<1>2. CASE UNCHANGED pickVars
  <2>1. UNCHANGED <<limits, minutes, locked, scroll, settling, unit, text, typing, emitted, cut>>
    BY <1>2 DEF pickVars
  <2>2. WheelInv' BY <2>1, WheelStays DEF PickerInv
  <2>3. NumberInv' BY <2>1, NumberStays DEF PickerInv
  <2> QED BY <2>1, <2>2, <2>3 DEF PickerInv, Allowed
<1> QED BY <1>1, <1>2 DEF Next, AllVars

LEMMA PickerShows == PickerInv => Picker!HandsOverWithinLimits /\ Picker!QuietPickerShowsValue
<1> SUFFICES ASSUME PickerInv PROVE Picker!HandsOverWithinLimits /\ Picker!QuietPickerShowsValue
  OBVIOUS
<1>1. Picker!HandsOverWithinLimits BY DEF PickerInv, Allowed, Picker!HandsOverWithinLimits
<1>2. Picker!QuietPickerShowsValue
  BY DEF PickerInv, WheelInv, NumberInv, Picker!QuietPickerShowsValue, Picker!Shown
<1> QED BY <1>1, <1>2

\* A picker hands over what its limits allow and shows the form's value once it is still;
\* a recommended limit is of the folder's drive and leaves its margin free
\* (duration-picker.tsx, storage-recommendation.ts).
THEOREM PanelsPickersAdviseTruly == Spec => []PickersAdviseTruly
<1> DEFINE Inv == PickerInv /\ AdviceInv
<1>1. Init => Inv BY PickerStarts, AdviceStarts
<1>2. Inv /\ [Next]_AllVars => Inv' BY PickerSteps, AdviceSteps
<1>3. Inv => PickersAdviseTruly BY PickerShows, AdviceShows DEF PickersAdviseTruly
<1> HIDE DEF Inv
<1> QED BY <1>1, <1>2, <1>3, PTL DEF Spec, AllVars
================================================================================
