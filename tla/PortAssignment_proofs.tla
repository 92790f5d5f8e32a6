-------------------------- MODULE PortAssignment_proofs --------------------------
(***************************************************************************)
(* PortsApart for any number of servers, hosts and ports. What carries it is *)
(* that the search for a port misses every port in use unless all are, and    *)
(* that whoever enters the map looks and enters in one critical section.      *)
(***************************************************************************)
EXTENDS PortAssignment, TLAPS

\* The inductive invariant: the JVM's entry claims the reservation's port, so the
\* reservation must still be there when the JVM is attached.
PortsInv == PortsTypeOK /\ PortsApart /\ ReservationKept

\* The search of find_next_available_port ends at a port nobody uses, or at the
\* last one.
LEMMA NextFreeUnused ==
    ASSUME NEW used
    PROVE  /\ NextFree(used) \in Ports
           /\ NextFree(used) \in used => NextFree(used) = MaxPort
<1>1. DefaultPort..MaxPort \subseteq Ports /\ MaxPort \in Ports
  BY PortsAssumption DEF Ports
<1>2. CASE \E p \in DefaultPort..MaxPort : FirstFree(p, used)
  <2>1. /\ NextFree(used) \in DefaultPort..MaxPort
        /\ FirstFree(NextFree(used), used)
    BY <1>2 DEF NextFree
  <2> QED BY <1>1, <2>1 DEF FirstFree
<1>3. CASE ~ \E p \in DefaultPort..MaxPort : FirstFree(p, used)
  BY <1>1, <1>3 DEF NextFree
<1> QED BY <1>2, <1>3

\* What is picked for a server is claimed by no other, unless it is the last port.
LEMMA AssignedApart ==
    ASSUME PortsTypeOK, NEW k \in Servers, NEW read \in Addresses
    PROVE  /\ Assigned(k, read) \in Addresses
           /\ Claimed(k, Assigned(k, read)) => Assigned(k, read).port = MaxPort
<1> DEFINE port == NextFree(InUse(k))
           moved == [host |-> read.host, port |-> port]
<1>1. CASE ~Claimed(k, read)
  BY <1>1 DEF Assigned
<1>2. CASE Claimed(k, read)
  <2>1. port \in Ports /\ (port \in InUse(k) => port = MaxPort)
    BY NextFreeUnused
  <2>2. moved \in Addresses /\ moved.port = port
    BY <2>1 DEF Addresses
  <2>3. Claimed(k, moved) => port \in InUse(k)
    BY <2>2 DEF Claimed, InUse
  <2> QED BY <1>2, <2>1, <2>2, <2>3 DEF Assigned
<1> QED BY <1>1, <1>2

\* A step that only takes entries out of the map, or leaves what they claim
\* alone, keeps them apart.
LEMMA NothingNewClaimed ==
    ASSUME PortsApart,
           \A k \in Servers : IsActive(k)' => IsActive(k) /\ entry'[k].at = entry[k].at
    PROVE  PortsApart'
BY DEF PortsApart, IsActive

\* So does a key that enters at an address nobody else claims.
LEMMA OneNewClaimed ==
    ASSUME PortsApart, PortsTypeOK, NEW k \in Servers, NEW e \in Entries,
           entry' = [entry EXCEPT ![k] = e],
           Claimed(k, e.at) => e.at.port = MaxPort
    PROVE  PortsApart'
<1> SUFFICES ASSUME NEW a \in Servers, NEW b \in Servers, a # b,
                    IsActive(a)', IsActive(b)', entry'[a].at = entry'[b].at
             PROVE  entry'[a].at.port = MaxPort
  BY DEF PortsApart, IsActive
<1>1. \A l \in Servers : entry'[l] = IF l = k THEN e ELSE entry[l]
  BY DEF PortsTypeOK
<1>2. CASE a = k BY <1>1, <1>2 DEF Claimed, IsActive
<1>3. CASE b = k BY <1>1, <1>3 DEF Claimed, IsActive
<1>4. CASE a # k /\ b # k BY <1>1, <1>4 DEF PortsApart, IsActive
<1> QED BY <1>2, <1>3, <1>4

\* It holds when mserve starts: the map is empty.
LEMMA InitPorts == PortsInit => PortsInv
BY DEF PortsInit, PortsInv, PortsTypeOK, PortsApart, ReservationKept, IsActive, Entries, Starts, Jvms,
       Listening, None

\* The types are kept by a start...
LEMMA StartTypes ==
    ASSUME PortsTypeOK, ReservationKept, NEW k \in Servers, StartStep(k)
    PROVE  PortsTypeOK'
<1>1. CASE StartReads(k)
  BY <1>1 DEF PortsTypeOK, StartReads, Starts
<1>2. CASE StartGivesUp(k)
  BY <1>2 DEF PortsTypeOK, StartGivesUp, Starts
<1>3. CASE ClaimPort(k)
  <2>1. start[k].at \in Addresses
    BY <1>3 DEF ClaimPort, PortsTypeOK, Starts, None
  <2>2. Assigned(k, start[k].at) \in Addresses
    BY <2>1, AssignedApart
  <2> QED BY <1>3, <2>1, <2>2 DEF ClaimPort, PortsTypeOK, Starts, Entries
<1>4. CASE PersistPort(k)
  <2>1. start[k].at \in Addresses /\ config[k] \in Addresses
    BY <1>4 DEF PersistPort, PortsTypeOK, Starts, None
  <2>2. [host |-> config[k].host, port |-> start[k].at.port] \in Addresses
    BY <2>1 DEF Addresses
  <2>3. config' \in [Servers -> Addresses]
    BY <1>4, <2>2 DEF PersistPort, PortsTypeOK
  <2> QED BY <1>4, <2>1, <2>3 DEF PersistPort, PortsTypeOK, Starts
<1>5. CASE SpawnAttached(k)
  <2>1. entry[k].at \in Addresses
    BY <1>5 DEF SpawnAttached, PortsTypeOK, ReservationKept, Starts, None
  <2> QED BY <1>5, <2>1 DEF PortsTypeOK, SpawnAttached, Starts, Entries, Jvms
<1>6. CASE StartReleased(k)
  BY <1>6 DEF PortsTypeOK, StartReleased, Starts, Entries
<1> QED BY <1>1, <1>2, <1>3, <1>4, <1>5, <1>6 DEF StartStep

\* ...and by all else.
LEMMA OtherTypes ==
    ASSUME PortsTypeOK, NEW k \in Servers,
           ProcessStep(k) \/ EntryStep(k) \/ AdoptionStep(k) \/ StrangersChange
    PROVE  PortsTypeOK'
<1>1. CASE ProcessStep(k)
  BY <1>1 DEF ProcessStep, JvmUp, JvmEnds, ListenerEnds, PortsTypeOK, Jvms, Listening
<1>2. CASE RunEnds(k)
  BY <1>2 DEF RunEnds, PortsTypeOK, Entries, None
<1>3. CASE ListenerBinds(k)
  BY <1>3 DEF ListenerBinds, PortsTypeOK, Entries, Listening, None
<1>4. CASE SleeperReleased(k) \/ DeleteServer(k) \/ ExternalGone(k)
  BY <1>4 DEF SleeperReleased, DeleteServer, ExternalGone, PortsTypeOK, Entries
<1>5. CASE EditSettings(k) \/ SettingsSaved(k)
  BY <1>5 DEF EditSettings, SettingsSaved, PortsTypeOK, Entries
<1>6. CASE ProbeUntracked(k)
  BY <1>6 DEF ProbeUntracked, PortsTypeOK, Listening
<1>7. CASE AdoptExternal(k)
  BY <1>7 DEF AdoptExternal, PortsTypeOK, Listening, Entries, None
<1>8. CASE StrangersChange
  BY <1>8 DEF StrangersChange, PortsTypeOK
<1> QED BY <1>1, <1>2, <1>3, <1>4, <1>5, <1>6, <1>7, <1>8 DEF EntryStep, AdoptionStep

\* The addresses stay apart when a start...
LEMMA StartApart ==
    ASSUME PortsInv, NEW k \in Servers, StartStep(k)
    PROVE  PortsApart'
<1> USE DEF PortsInv
<1>1. CASE StartReads(k) \/ StartGivesUp(k) \/ PersistPort(k)
  BY <1>1, NothingNewClaimed DEF StartReads, StartGivesUp, PersistPort, IsActive
<1>2. CASE ClaimPort(k)
  <2> DEFINE at == Assigned(k, start[k].at)
             e  == [kind |-> "starting", at |-> at]
  <2>1. start[k].at \in Addresses
    BY <1>2 DEF ClaimPort, PortsTypeOK, Starts, None
  <2>2. at \in Addresses /\ (Claimed(k, at) => at.port = MaxPort)
    BY <2>1, AssignedApart
  <2>3. e \in Entries /\ e.at = at
    BY <2>2 DEF Entries
  <2>4. entry' = [entry EXCEPT ![k] = e]
    BY <1>2 DEF ClaimPort
  <2> HIDE DEF at, e
  <2> QED BY <2>2, <2>3, <2>4, OneNewClaimed
<1>3. CASE SpawnAttached(k)
  <2>1. entry[k].kind = "starting"
    <3>1. start[k].kind \in {"persist", "spawn"}
      BY <1>3 DEF SpawnAttached
    <3>2. entry[k] = [kind |-> "starting", at |-> start[k].at]
      BY <3>1 DEF ReservationKept
    <3> QED BY <3>2
  <2>2. \A l \in Servers : IsActive(l)' => IsActive(l) /\ entry'[l].at = entry[l].at
    <3> DEFINE e == [kind |-> "running", at |-> entry[k].at]
    <3>1. entry' = [entry EXCEPT ![k] = e] /\ e.at = entry[k].at
      BY <1>3 DEF SpawnAttached
    <3> HIDE DEF e
    <3> QED BY <2>1, <3>1 DEF IsActive, PortsTypeOK
  <2> QED BY <2>2, NothingNewClaimed
<1>4. CASE StartReleased(k)
  BY <1>4, NothingNewClaimed DEF StartReleased, IsActive, None, PortsTypeOK
<1> QED BY <1>1, <1>2, <1>3, <1>4 DEF StartStep

\* ...an end or an adoption happens.
LEMMA OtherApart ==
    ASSUME PortsInv, NEW k \in Servers,
           ProcessStep(k) \/ EntryStep(k) \/ AdoptionStep(k) \/ StrangersChange
    PROVE  PortsApart'
<1> USE DEF PortsInv
<1>1. CASE ProcessStep(k) \/ ProbeUntracked(k) \/ StrangersChange
  BY <1>1, NothingNewClaimed
  DEF ProcessStep, JvmUp, JvmEnds, ListenerEnds, ProbeUntracked, StrangersChange, IsActive
<1>2. CASE EntryStep(k) \/ ExternalGone(k)
  BY <1>2, NothingNewClaimed
  DEF EntryStep, RunEnds, ListenerBinds, SleeperReleased, DeleteServer, EditSettings,
      SettingsSaved, ExternalGone, IsActive, None, PortsTypeOK, Entries
<1>3. CASE AdoptExternal(k)
  <2> DEFINE e == [kind |-> "external", at |-> probed[k].at]
  <2>1. CASE entry[k] = None /\ ~Claimed(k, probed[k].at)
    <3>1. probed[k].at \in Addresses
      BY <1>3 DEF AdoptExternal, PortsTypeOK, Listening
    <3>2. e \in Entries /\ e.at = probed[k].at
      BY <3>1 DEF Entries
    <3>3. entry' = [entry EXCEPT ![k] = e]
      BY <1>3, <2>1 DEF AdoptExternal
    <3> HIDE DEF e
    <3> QED BY <2>1, <3>2, <3>3, OneNewClaimed
  <2>2. CASE ~(entry[k] = None /\ ~Claimed(k, probed[k].at))
    BY <1>3, <2>2, NothingNewClaimed DEF AdoptExternal, IsActive
  <2> QED BY <2>1, <2>2
<1> QED BY <1>1, <1>2, <1>3 DEF AdoptionStep

\* A start's reservation is out of reach of every other step.
LEMMA StartKept ==
    ASSUME PortsInv, NEW k \in Servers, StartStep(k)
    PROVE  ReservationKept'
<1> USE DEF PortsInv, ReservationKept, PortsTypeOK
<1>1. CASE StartReads(k) \/ StartGivesUp(k)
  BY <1>1 DEF StartReads, StartGivesUp, None
<1>2. CASE ClaimPort(k)
  BY <1>2 DEF ClaimPort
<1>3. CASE PersistPort(k)
  BY <1>3 DEF PersistPort
<1>4. CASE SpawnAttached(k) \/ StartReleased(k)
  BY <1>4 DEF SpawnAttached, StartReleased, None
<1> QED BY <1>1, <1>2, <1>3, <1>4 DEF StartStep

\* ...whoever takes it.
LEMMA OtherKept ==
    ASSUME PortsInv, NEW k \in Servers,
           ProcessStep(k) \/ EntryStep(k) \/ AdoptionStep(k) \/ StrangersChange
    PROVE  ReservationKept'
<1> USE DEF PortsInv, ReservationKept, PortsTypeOK
<1>1. CASE ProcessStep(k) \/ ProbeUntracked(k) \/ StrangersChange
  BY <1>1 DEF ProcessStep, JvmUp, JvmEnds, ListenerEnds, ProbeUntracked, StrangersChange
<1>2. CASE EntryStep(k)
  BY <1>2 DEF EntryStep, RunEnds, ListenerBinds, SleeperReleased, DeleteServer, EditSettings,
              SettingsSaved, Occupied
<1>3. CASE ExternalGone(k) \/ AdoptExternal(k)
  BY <1>3 DEF ExternalGone, AdoptExternal, None
<1> QED BY <1>1, <1>2, <1>3 DEF AdoptionStep

\* One step keeps the invariant.
LEMMA NextPorts == PortsInv /\ [PortsNext]_vars => PortsInv'
<1> SUFFICES ASSUME PortsInv, [PortsNext]_vars PROVE PortsInv'
  OBVIOUS
<1>1. ASSUME NEW k \in Servers, StartStep(k) PROVE PortsInv'
  BY <1>1, StartTypes, StartApart, StartKept DEF PortsInv
<1>2. ASSUME NEW k \in Servers, ProcessStep(k) \/ EntryStep(k) \/ AdoptionStep(k)
      PROVE  PortsInv'
  BY <1>2, OtherTypes, OtherApart, OtherKept DEF PortsInv
<1>3. CASE StrangersChange
  BY <1>3 DEF StrangersChange, PortsInv, PortsTypeOK, PortsApart, ReservationKept, IsActive
<1>4. CASE UNCHANGED vars
  BY <1>4 DEF vars, PortsInv, PortsTypeOK, PortsApart, ReservationKept, IsActive
<1> QED BY <1>1, <1>2, <1>3, <1>4 DEF PortsNext

\* So it holds throughout.
LEMMA SpecPorts == PortsSpec => []PortsInv
BY InitPorts, NextPorts, PTL DEF PortsSpec

\* Every variable keeps its type.
THEOREM PortsTyped == PortsSpec => []PortsTypeOK
BY SpecPorts, PTL DEF PortsInv

\* A start never loses the reservation it published.
THEOREM ReservationsKept == PortsSpec => []ReservationKept
BY SpecPorts, PTL DEF PortsInv

\* No two active servers claim one address but at the last port: whatever starts,
\* sleeps, wakes, is deleted, edited or adopted, in any number and any order.
THEOREM PortsStayApart == PortsSpec => []PortsApart
BY SpecPorts, PTL DEF PortsInv
================================================================================
