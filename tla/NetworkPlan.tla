------------------------------- MODULE NetworkPlan -------------------------------
(* A network: a Velocity proxy and the backends behind it. Every edit is        *)
(* normalised, which also gives each backend its port; the drawer plans what     *)
(* the servers' config files must become, and writes the plan file by file.      *)
EXTENDS Naturals, Sequences, SequencesExt, FiniteSets

CONSTANTS
    Backends,       \* servers that may stand behind the proxy
    Plugins,        \* those that take forwarding (Paper, Folia)
    ServerNames,    \* names servers may have, as aliases spell them
    BasePorts,      \* ports the user may give the proxy
    DEFAULT_NETWORK_BASE_PORT,
    MaxPort,        \* the last port
    MaxEdits        \* edits, renames, secrets, applies (bound)

VARIABLES
    network,     \* proxy chosen, members in try order, base port, secret
    names,       \* the servers' names
    files,       \* what each config file says
    drawer,      \* open, the plan shown
    applying,    \* the plan being written, and what is left of it
    running,     \* a server of the network is not stopped
    synced,      \* the last plan, not made while another was written, was written
                 \* whole, and nothing changed since
    edits

planVars == <<network, names, files, drawer, applying, running, synced, edits>>

--------------------------------------------------------------------------------
\* The k-th number of S from below, and the elements of s at the indices I, in order.
\* (SortSeq and SelectSeq hide a recursion that proofs cannot enter.)
nth(S, k) == CHOOSE n \in S : Cardinality({m \in S : m <= n}) = k
pick(s, I) == [k \in 1..Cardinality(I) |-> s[nth(I, k)]]

(* The schema.                                                                  *)
ValidPort(p) == p \in 1..MaxPort

\* A member without a port takes one by its place, from the default base.
normalizeMember(member, index) ==
    IF ValidPort(member.port) THEN member
    ELSE [member EXCEPT !.port = DEFAULT_NETWORK_BASE_PORT + index]

\* First come keeps its port; the rest take the next free ones above the base,
\* or, when there is none, all the same.
assignMemberPorts(members, base) ==
    LET keeps(i) == /\ ValidPort(members[i].port) /\ members[i].port # base
                    /\ \A j \in 1..(i - 1) : members[j].port # members[i].port
        taken == {base} \union {members[i].port : i \in {j \in DOMAIN members : keeps(j)}}
        from  == IF base < MaxPort THEN base + 1 ELSE MaxPort
        free  == (from..MaxPort) \ taken
        rank(i) == Cardinality({j \in 1..i : ~keeps(j)})
    IN  [i \in DOMAIN members |->
            IF keeps(i) THEN members[i]
            ELSE [members[i] EXCEPT !.port = IF rank(i) <= Cardinality(free)
                                             THEN nth(free, rank(i)) ELSE base + 1]]

\* Members are in try order already.
normalizeNetwork(n) ==
    [n EXCEPT !.members =
        assignMemberPorts([i \in DOMAIN @ |-> normalizeMember(@[i], i)], n.base)]

\* Servers of one name are told apart in try order.
buildNetworkAliasMap(members) ==
    [i \in DOMAIN members |->
        <<names[members[i].server],
          Cardinality({j \in 1..i : names[members[j].server] = names[members[i].server]})>>]

MemberServers(n) == {n.members[i].server : i \in DOMAIN n.members}

--------------------------------------------------------------------------------
(* What the files must become.                                                  *)
File(kind, server) == <<kind, server>>
Change(kind, server, after) == [file |-> File(kind, server), after |-> after]

staleAliasesKept(n) == {}    \* variant: a renamed backend keeps its old entry

\* Entries that point at a member's address under a name no member has.
staleAliases(n) ==
    LET alias == buildNetworkAliasMap(n.members)
    IN  {r \in files[File("velocity", "proxy")].servers :
            /\ \A i \in DOMAIN alias : r[1] # alias[i]
            /\ \E i \in DOMAIN alias : r[2] = n.members[i].port}

\* Other entries the user added stay; forced hosts lose the ones that went.
buildVelocityChange(n) ==
    LET alias == buildNetworkAliasMap(n.members)
        now   == files[File("velocity", "proxy")]
    IN  [bind    |-> n.base,
         servers |-> {r \in now.servers \ staleAliases(n) : \A i \in DOMAIN alias : r[1] # alias[i]}
                     \union {<<alias[i], n.members[i].port>> : i \in DOMAIN alias},
         forced  |-> now.forced \ {r[1] : r \in staleAliases(n)},
         try     |-> pick(alias, {i \in DOMAIN alias : n.members[i].inTry})]

buildBackendPropertiesChange(member) == Change("properties", member.server, member.port)
buildPaperGlobalChange(n, member)    == Change("paper", member.server, n.secret)
buildForwardingSecretChange(n)       == Change("secret", "proxy", n.secret)

backendChanges(n) ==
    [k \in 1..(2 * Len(n.members)) |->
        LET member == n.members[(k + 1) \div 2]
        IN  IF k % 2 = 1 THEN buildBackendPropertiesChange(member)
            ELSE buildPaperGlobalChange(n, member)]

\* Backends first, then the proxy. Files that are right already are left out, and so
\* is the Paper file of a backend that has none.
planNetworkApply(n) ==
    LET all == backendChanges(n) \o <<Change("velocity", "proxy", buildVelocityChange(n)),
                                      buildForwardingSecretChange(n)>>
    IN  pick(all, {k \in DOMAIN all : /\ all[k].file \in DOMAIN files
                                      /\ files[all[k].file] # all[k].after})

networkHasBlockingErrors(n) ==
    \/ ~n.proxy
    \/ \E i, j \in DOMAIN n.members : i # j /\ n.members[i].port = n.members[j].port

--------------------------------------------------------------------------------
NoPlan  == [known |-> FALSE, clean |-> FALSE, changes |-> <<>>]
Idle    == [on |-> FALSE, left |-> <<>>, clean |-> FALSE, for |-> 0]

HandMade == [bind |-> 0, servers |-> {<< <<"lobby", 1>>, DEFAULT_NETWORK_BASE_PORT + 1>>},
             forced |-> {<<"lobby", 1>>}, try |-> << <<"lobby", 1>> >>]

PlanInit ==
    /\ network = [proxy |-> FALSE, members |-> <<>>, base |-> DEFAULT_NETWORK_BASE_PORT,
                  secret |-> 1]
    /\ names \in [Backends -> ServerNames]
    /\ files = [f \in {File("properties", s) : s \in Backends}
                      \union {File("paper", s) : s \in Plugins}
                      \union {File("velocity", "proxy"), File("secret", "proxy")} |->
                   IF f = File("velocity", "proxy") THEN HandMade ELSE 0]
    /\ drawer = [open |-> FALSE, plan |-> NoPlan] /\ applying = Idle
    /\ running = FALSE /\ synced = FALSE /\ edits = 0

\* The drawer plans again when the network it shows changes.
Edits == edits < MaxEdits /\ edits' = edits + 1 /\ synced' = FALSE
Becomes(n) ==
    /\ Edits /\ ~drawer.open /\ network' = normalizeNetwork(n)
    /\ UNCHANGED <<names, files, drawer, applying, running>>

addBackend(s) ==
    /\ s \notin MemberServers(network)
    /\ Becomes([network EXCEPT !.members = Append(@, [server |-> s, port |-> 0, inTry |-> TRUE])])
removeMember(i) == Becomes([network EXCEPT !.members = RemoveAt(@, i)])
moveMember(i) ==    \* up; down is the neighbour's up
    /\ i > 1
    /\ Becomes([network EXCEPT !.members = SubSeq(@, 1, i - 2) \o <<@[i], @[i - 1]>>
                                           \o SubSeq(@, i + 1, Len(@))])
setInTry(i)       == Becomes([network EXCEPT !.members[i].inTry = ~@])
commitBasePort(p) == p # network.base /\ Becomes([network EXCEPT !.base = p])
chooseProxy(on)   == network.proxy # on /\ Becomes([network EXCEPT !.proxy = on])
regenerateSecret  == Becomes([network EXCEPT !.secret = @ + 1])

Rename(s, name) ==    \* on the server's own page
    /\ name # names[s] /\ ~drawer.open /\ Edits
    /\ names' = [names EXCEPT ![s] = name]
    /\ UNCHANGED <<network, files, drawer, applying, running>>

StartStop ==
    running' = ~running /\ UNCHANGED <<network, names, files, drawer, applying, synced, edits>>

OpenDrawer ==
    /\ ~drawer.open /\ ~networkHasBlockingErrors(network)
    /\ drawer' = [open |-> TRUE, plan |-> NoPlan]
    /\ UNCHANGED <<network, names, files, applying, running, synced, edits>>

\* Its reads are one step here.
ShowPlan ==
    /\ drawer.open /\ ~drawer.plan.known
    /\ drawer' = [drawer EXCEPT !.plan = [known |-> TRUE, clean |-> ~applying.on,
                                      changes |-> planNetworkApply(network)]]
    /\ UNCHANGED <<network, names, files, applying, running, synced, edits>>

CloseDrawer ==    \* offered while the plan is written, too
    /\ drawer.open /\ drawer' = [open |-> FALSE, plan |-> NoPlan]
    /\ UNCHANGED <<network, names, files, applying, running, synced, edits>>

handleApply ==
    /\ drawer.open /\ drawer.plan.changes # <<>> /\ ~running /\ ~applying.on
    /\ edits < MaxEdits /\ edits' = edits + 1
    /\ applying' = [on |-> TRUE, left |-> drawer.plan.changes, clean |-> drawer.plan.clean,
                    for |-> edits']
    /\ UNCHANGED <<network, names, files, drawer, running, synced>>

applyNetworkPlan ==
    /\ applying.on /\ applying.left # <<>>
    /\ files' = [files EXCEPT ![Head(applying.left).file] = Head(applying.left).after]
    /\ applying' = [applying EXCEPT !.left = Tail(@)]
    /\ synced' = FALSE
    /\ UNCHANGED <<network, names, drawer, running, edits>>

\* The drawer closes, whichever plan it shows by now.
Applied ==
    /\ applying.on /\ applying.left = <<>> /\ applying' = Idle
    /\ drawer' = [open |-> FALSE, plan |-> NoPlan]
    /\ synced' = (applying.clean /\ applying.for = edits)
    /\ UNCHANGED <<network, names, files, running, edits>>

ApplyFails ==    \* the drawer keeps the plan it shows
    /\ applying.on /\ applying.left # <<>> /\ applying' = Idle
    /\ UNCHANGED <<network, names, files, drawer, running, synced, edits>>

PlanNext ==
    \/ \E s \in Backends : addBackend(s) \/ \E name \in ServerNames : Rename(s, name)
    \/ \E i \in DOMAIN network.members : removeMember(i) \/ moveMember(i) \/ setInTry(i)
    \/ \E p \in BasePorts : commitBasePort(p)
    \/ \E on \in BOOLEAN : chooseProxy(on)
    \/ regenerateSecret \/ StartStop \/ OpenDrawer \/ ShowPlan \/ CloseDrawer
    \/ handleApply \/ applyNetworkPlan \/ Applied \/ ApplyFails

PlanSpec == PlanInit /\ [][PlanNext]_planVars

--------------------------------------------------------------------------------
\* Whatever the edits and their order, every backend has a valid port that is
\* neither another's nor the proxy's, unless too few ports are left above the base.
PortsApart ==
    LET mem == network.members
    IN  network.base + Len(mem) <= MaxPort =>
            \A i \in DOMAIN mem :
                /\ ValidPort(mem[i].port) /\ mem[i].port # network.base
                /\ \A j \in DOMAIN mem : mem[i].port = mem[j].port => i = j

Velocity == files[File("velocity", "proxy")]

\* Once a plan was written, the files agree with the network and with each other:
\* the proxy sends each alias to the port its backend listens on, nothing else
\* leads there, forced hosts name known servers, and one secret is everywhere.
AppliedNetworkRoutes ==
    synced =>
        LET mem == network.members
            alias == buildNetworkAliasMap(mem)
        IN  /\ Velocity.bind = network.base
            /\ \A i \in DOMAIN mem :
                  /\ {r \in Velocity.servers : r[2] = files[File("properties", mem[i].server)]}
                       = {<<alias[i], mem[i].port>>}
                  /\ mem[i].server \in Plugins =>
                        files[File("paper", mem[i].server)] = files[File("secret", "proxy")]
            /\ \A i, j \in DOMAIN Velocity.try : Velocity.try[i] = Velocity.try[j] => i = j
            /\ ToSet(Velocity.try) \union Velocity.forced \subseteq {r[1] : r \in Velocity.servers}

\* A backend gets its port upward from the base port (network-schema.ts, basePort).
BackendsAboveBase ==
    [][\A i \in DOMAIN network'.members :
          network'.members[i].server \notin MemberServers(network)
              => network'.members[i].port > network'.base]_planVars
================================================================================
