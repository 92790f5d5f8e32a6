------------------------------ MODULE Window_proofs ------------------------------
(***************************************************************************)
(* Proofs about the parts of the window, for any number of clicks, calls,    *)
(* downloads and files. A step of the window is a step of one part and       *)
(* leaves the others alone, so each part's invariant is proved of its own    *)
(* next-state relation, and each theorem states what the window promises.    *)
(***************************************************************************)
EXTENDS MCWindow, FiniteSetTheorems, SequenceTheorems, WellFoundedInduction, TLAPS

--------------------------------------------------------------------------------
(* A step of the window is a step of the part in focus, and leaves the others   *)
(* alone: what each part's own specification promises, the window keeps.        *)

LEMMA WindowStep ==
    ASSUME [Next]_vars
    PROVE  /\ [View!Next]_viewVars
           /\ [Prompts!PromptNext]_promptVars
           /\ [Wizard!WizardNext]_wizardVars
           /\ [Listing!StoreNext]_storeVars
           /\ [Plan!PlanNext]_planVars
           /\ [Run!RunNext]_runVars
           /\ [Networks!NetworksNext]_networksVars
           /\ [Settings!SettingsNext]_settingsVars
           /\ [Contents!ContentNext]_contentVars
           /\ [Editor!ConfigNext]_configVars
           /\ [Rules!RulesNext]_rulesVars
BY DEF vars, Next

--------------------------------------------------------------------------------
(* The Java dialog.                                                             *)

\* The inductive invariant. That the dialog is open only for the head of the queue is
\* what lets a scan that answers a request end the dialog that waits for it.
PromptInv == Prompts!PromptTypeOK /\ Prompts!PromptShowsOldest /\ Prompts!DownloadingIsReal

\* RemoveAt drops one element and keeps the order of the others.
LEMMA RemoveAtKeepsOrder ==
    ASSUME NEW S, NEW s \in Seq(S), NEW i \in DOMAIN s
    PROVE  /\ Prompts!RemoveAt(s, i) \in Seq(S)
           /\ Len(Prompts!RemoveAt(s, i)) = Len(s) - 1
           /\ \A k \in 1..(Len(s) - 1) : Prompts!RemoveAt(s, i)[k] = IF k < i THEN s[k] ELSE s[k + 1]
<1> DEFINE before == SubSeq(s, 1, i - 1)
           after  == SubSeq(s, i + 1, Len(s))
<1>1. /\ Len(s) \in Nat /\ DOMAIN s = 1..Len(s)
      /\ \A k \in 1..Len(s) : s[k] \in S
  BY LenProperties, ElementOfSeq
<1>2. /\ before \in Seq(S) /\ Len(before) = i - 1
      /\ \A k \in 1..(i - 1) : before[k] = s[k]
  <2>1. /\ i - 1 \in Int /\ \A k \in 1..(i - 1) : s[k] \in S
    BY <1>1
  <2>2. /\ before \in Seq(S)
        /\ Len(before) = IF 1 <= i - 1 THEN (i - 1) - 1 + 1 ELSE 0
        /\ \A k \in 1..((i - 1) - 1 + 1) : before[k] = s[1 + k - 1]
    BY <2>1, SubSeqProperties
  <2> QED BY <1>1, <2>2
<1>3. /\ after \in Seq(S) /\ Len(after) = Len(s) - i
      /\ \A k \in 1..(Len(s) - i) : after[k] = s[i + k]
  <2>1. /\ i + 1 \in Int /\ Len(s) \in Int /\ \A k \in (i + 1)..Len(s) : s[k] \in S
    BY <1>1
  <2>2. /\ after \in Seq(S)
        /\ Len(after) = IF i + 1 <= Len(s) THEN Len(s) - (i + 1) + 1 ELSE 0
        /\ \A k \in 1..(Len(s) - (i + 1) + 1) : after[k] = s[(i + 1) + k - 1]
    BY <2>1, SubSeqProperties
  <2>3. \A k \in 1..(Len(s) - i) : k \in 1..(Len(s) - (i + 1) + 1) /\ (i + 1) + k - 1 = i + k
    BY <1>1
  <2>4. Len(after) = Len(s) - i BY <1>1, <2>2
  <2> HIDE DEF after
  <2> QED BY <2>2, <2>3, <2>4
<1>4. /\ before \o after \in Seq(S)
      /\ Len(before \o after) = Len(before) + Len(after)
      /\ \A k \in 1..(Len(before) + Len(after)) :
            (before \o after)[k] = IF k <= Len(before) THEN before[k] ELSE after[k - Len(before)]
  BY <1>2, <1>3, ConcatProperties
<1>5. Prompts!RemoveAt(s, i) = before \o after
  BY DEF Prompts!RemoveAt
<1> HIDE DEF before, after
<1>6. Len(before) + Len(after) = Len(s) - 1
  BY <1>1, <1>2, <1>3
<1>7. ASSUME NEW k \in 1..(Len(s) - 1)
      PROVE  (before \o after)[k] = IF k < i THEN s[k] ELSE s[k + 1]
  <2>1. (before \o after)[k] = IF k <= i - 1 THEN before[k] ELSE after[k - (i - 1)]
    BY <1>2, <1>4, <1>6
  <2>2. CASE k < i
    BY <1>1, <1>2, <2>1, <2>2
  <2>3. CASE ~(k < i)
    <3>1. k - (i - 1) \in 1..(Len(s) - i) /\ i + (k - (i - 1)) = k + 1 /\ ~(k <= i - 1)
      BY <1>1, <2>3
    <3> QED BY <1>3, <2>1, <2>3, <3>1
  <2> QED BY <2>2, <2>3
<1> QED BY <1>4, <1>5, <1>6, <1>7

Distinct(q) == \A i, j \in DOMAIN q : i # j => q[i] # q[j]

\* A queue without one of its requests: still distinct, of the same requests, and with the
\* same head unless the head is what left.
LEMMA RemoveAtFromQueue ==
    ASSUME NEW S, NEW s \in Seq(S), NEW i \in DOMAIN s, Distinct(s)
    PROVE  /\ Prompts!RemoveAt(s, i) \in Seq(S)
           /\ Distinct(Prompts!RemoveAt(s, i))
           /\ Head(s) # s[i] => Prompts!RemoveAt(s, i) # <<>> /\ Head(Prompts!RemoveAt(s, i)) = Head(s)
<1> DEFINE r == Prompts!RemoveAt(s, i)
<1>1. /\ r \in Seq(S) /\ Len(r) = Len(s) - 1
      /\ \A k \in 1..(Len(s) - 1) : r[k] = IF k < i THEN s[k] ELSE s[k + 1]
  BY RemoveAtKeepsOrder
<1> HIDE DEF r
<1>2. /\ DOMAIN s = 1..Len(s) /\ DOMAIN r = 1..Len(r) /\ Len(s) \in Nat /\ Len(r) \in Nat
  BY <1>1, LenProperties
<1>3. Distinct(r)
  <2> SUFFICES ASSUME NEW j \in DOMAIN r, NEW k \in DOMAIN r, j # k
               PROVE  r[j] # r[k]
    BY DEF Distinct
  <2> DEFINE was(n) == IF n < i THEN n ELSE n + 1
  <2>1. /\ was(j) \in DOMAIN s /\ was(k) \in DOMAIN s /\ was(j) # was(k)
        /\ r[j] = s[was(j)] /\ r[k] = s[was(k)]
    BY <1>1, <1>2
  <2> QED BY <2>1 DEF Distinct
<1>4. ASSUME Head(s) # s[i] PROVE r # <<>> /\ Head(r) = Head(s)
  <2>1. s # <<>> /\ Head(s) = s[1]
    BY <1>2
  <2>2. i > 1
    BY <1>2, <1>4, <2>1
  <2>3. r # <<>> /\ r[1] = s[1] /\ Head(r) = r[1]
    BY <1>1, <1>2, <2>2
  <2> QED BY <2>1, <2>3
<1> QED BY <1>1, <1>3, <1>4 DEF r

\* An answer keeps the dialog at the head of the queue, and closes or replaces a dialog
\* that waited for it.
LEMMA SettleKeeps ==
    ASSUME PromptInv, NEW m, Prompts!settle(m)
    PROVE  /\ Prompts!PromptTypeOK' /\ Prompts!PromptShowsOldest'
           /\ dialog'.open /\ dialog'.phase = "downloading" => dialog' = dialog /\ dialog.major # m
<1>1. CASE m \notin Prompts!ToSet(queue)
  <2>1. UNCHANGED <<queue, dialog>>
    BY <1>1 DEF Prompts!settle
  <2>2. dialog.open => dialog.major # m
    <3> SUFFICES ASSUME dialog.open PROVE Head(queue) # m
      BY DEF PromptInv, Prompts!PromptShowsOldest
    <3>1. queue # <<>> /\ queue \in Seq(JavaMajors)
      BY DEF PromptInv, Prompts!PromptShowsOldest, Prompts!PromptTypeOK
    <3>2. 1 \in DOMAIN queue /\ Head(queue) = queue[1]
      BY <3>1, LenProperties, EmptySeq
    <3> QED BY <1>1, <3>2 DEF Prompts!ToSet
  <2> QED BY <2>1, <2>2 DEF PromptInv, Prompts!PromptTypeOK, Prompts!PromptShowsOldest
<1>2. CASE m \in Prompts!ToSet(queue)
  <2>1. PICK i \in DOMAIN queue : queue[i] = m /\ queue' = Prompts!RemoveAt(queue, i)
    BY <1>2 DEF Prompts!settle
  <2>2. dialog' = IF Head(queue) = m THEN Prompts!showHead(queue') ELSE dialog
    BY <1>2 DEF Prompts!settle
  <2>3. queue \in Seq(JavaMajors) /\ Distinct(queue)
    BY DEF PromptInv, Prompts!PromptTypeOK, Prompts!PromptShowsOldest, Distinct
  <2>4. /\ queue' \in Seq(JavaMajors) /\ Distinct(queue')
        /\ Head(queue) # m => queue' # <<>> /\ Head(queue') = Head(queue)
    BY <2>1, <2>3, RemoveAtFromQueue
  <2>5. queue # <<>> /\ dialog.open
    <3>1. queue # <<>>
      BY <2>1, <2>3, LenProperties
    <3> QED BY <3>1 DEF PromptInv, Prompts!PromptShowsOldest
  <2>6. dialog \in [open : BOOLEAN, major : JavaMajors \union {0}, phase : Prompts!Phases]
    BY DEF PromptInv, Prompts!PromptTypeOK
  <2>7. queue' # <<>> => Head(queue') \in JavaMajors
    BY <2>4, HeadTailProperties
  <2>8. CASE Head(queue) = m
    <3>1. dialog' = IF queue' # <<>> THEN Prompts!Prompt(Head(queue')) ELSE [dialog EXCEPT !.open = FALSE]
      BY <2>2, <2>8 DEF Prompts!showHead
    <3>2. CASE queue' = <<>>
      <4>1. dialog' = [dialog EXCEPT !.open = FALSE] /\ ~dialog'.open
        BY <3>1, <3>2, <2>6
      <4> QED BY <4>1, <3>2, <2>4, <2>6 DEF Prompts!PromptTypeOK, Prompts!PromptShowsOldest,
         Distinct
    <3>3. CASE queue' # <<>>
      <4>1. dialog' = [open |-> TRUE, major |-> Head(queue'), phase |-> "confirm"]
        BY <3>1, <3>3 DEF Prompts!Prompt
      <4> QED BY <4>1, <3>3, <2>4, <2>7 DEF Prompts!PromptTypeOK, Prompts!PromptShowsOldest,
         Distinct, Prompts!Phases
    <3> QED BY <3>2, <3>3
  <2>9. CASE Head(queue) # m
    <3>1. dialog' = dialog /\ dialog.major = Head(queue)
      BY <2>2, <2>5, <2>9 DEF PromptInv, Prompts!PromptShowsOldest
    <3> QED BY <3>1, <2>4, <2>5, <2>6, <2>9 DEF Prompts!PromptTypeOK,
       Prompts!PromptShowsOldest, Distinct
  <2> QED BY <2>8, <2>9
<1> QED BY <1>1, <1>2

LEMMA InitPrompt == Prompts!PromptInit => PromptInv
BY EmptySeq DEF Prompts!PromptInit, PromptInv, Prompts!PromptTypeOK, Prompts!PromptShowsOldest,
   Prompts!DownloadingIsReal,
                Prompts!Closed, Prompts!Phases

\* A new request goes to the end, so the head stays; it opens the dialog only when it is
\* alone.
LEMMA EnsureKeeps ==
    ASSUME PromptInv, NEW m \in JavaMajors, Prompts!ensureJava(m)
    PROVE  PromptInv'
<1>1. CASE m \in Prompts!ToSet(queue)
  BY <1>1 DEF Prompts!ensureJava, PromptInv, Prompts!PromptTypeOK, Prompts!PromptShowsOldest,
     Prompts!DownloadingIsReal
<1>2. CASE m \notin Prompts!ToSet(queue)
  <2>1. /\ queue' = Append(queue, m)
        /\ dialog' = IF queue = <<>> THEN Prompts!showHead(queue') ELSE dialog
        /\ UNCHANGED <<fetches, scans>>
    BY <1>2 DEF Prompts!ensureJava
  <2>2. queue \in Seq(JavaMajors) /\ Len(queue) \in Nat /\ DOMAIN queue = 1..Len(queue)
    BY LenProperties DEF PromptInv, Prompts!PromptTypeOK
  <2>3. /\ queue' \in Seq(JavaMajors) /\ queue' # <<>> /\ Len(queue') = Len(queue) + 1
        /\ DOMAIN queue' = 1..(Len(queue) + 1)
        /\ \A i \in 1..(Len(queue) + 1) : queue'[i] = IF i <= Len(queue) THEN queue[i] ELSE m
    BY <2>1, <2>2
  <2>4. \A i, j \in DOMAIN queue' : i # j => queue'[i] # queue'[j]
    <3>1. \A i \in 1..Len(queue) : queue[i] # m
      BY <1>2, <2>2 DEF Prompts!ToSet
    <3>2. \A i, j \in 1..Len(queue) : i # j => queue[i] # queue[j]
      BY <2>2 DEF PromptInv, Prompts!PromptShowsOldest
    <3> QED BY <3>1, <3>2, <2>2, <2>3
  <2>5. CASE queue = <<>>
    <3>1. Head(queue') = m
      BY <2>2, <2>3, <2>5
    <3>2. dialog' = [open |-> TRUE, major |-> m, phase |-> "confirm"]
      BY <2>1, <2>3, <2>5, <3>1 DEF Prompts!showHead, Prompts!Prompt
    <3> QED BY <3>1, <3>2, <2>3, <2>4
            DEF PromptInv, Prompts!PromptTypeOK, Prompts!PromptShowsOldest, Prompts!DownloadingIsReal, Prompts!Phases
  <2>6. CASE queue # <<>>
    <3>1. Head(queue') = Head(queue) /\ dialog' = dialog
      BY <2>1, <2>2, <2>3, <2>6
    <3> QED BY <3>1, <2>1, <2>3, <2>4, <2>6
            DEF PromptInv, Prompts!PromptTypeOK, Prompts!PromptShowsOldest, Prompts!DownloadingIsReal
  <2> QED BY <2>5, <2>6
<1> QED BY <1>1, <1>2

LEMMA NextPrompt ==
    ASSUME 0 \notin JavaMajors
    PROVE  PromptInv /\ [Prompts!PromptNext]_promptVars => PromptInv'
<1> SUFFICES ASSUME PromptInv, [Prompts!PromptNext]_promptVars PROVE PromptInv'
  OBVIOUS
<1>1. ASSUME NEW m \in JavaMajors, Prompts!ensureJava(m) PROVE PromptInv'
  BY <1>1, EnsureKeeps
<1>2. CASE Prompts!startDownload
  <2>1. [id |-> started', major |-> dialog.major] \in fetches'
    BY <1>2 DEF Prompts!startDownload
  <2>2. /\ dialog' = [dialog EXCEPT !.phase = "downloading"] /\ UNCHANGED <<queue, scans>>
    BY <1>2 DEF Prompts!startDownload
  <2>3. dialog \in [open : BOOLEAN, major : JavaMajors \union {0}, phase : Prompts!Phases]
    BY DEF PromptInv, Prompts!PromptTypeOK
  <2>4. dialog'.major = dialog.major /\ dialog'.open = dialog.open
    BY <2>2, <2>3
  <2>5. Prompts!DownloadingIsReal'
    BY <2>1, <2>4 DEF Prompts!DownloadingIsReal
  <2> QED BY <2>2, <2>3, <2>4, <2>5
          DEF PromptInv, Prompts!PromptTypeOK, Prompts!PromptShowsOldest, Prompts!Phases
<1>3. CASE Prompts!handleOpenGuide
  <2>1. queue' = <<>> /\ dialog' = [dialog EXCEPT !.open = FALSE]
    BY <1>3 DEF Prompts!handleOpenGuide, Prompts!showHead
  <2>2. dialog \in [open : BOOLEAN, major : JavaMajors \union {0}, phase : Prompts!Phases]
    BY DEF PromptInv, Prompts!PromptTypeOK
  <2>3. /\ ~dialog'.open
        /\ dialog' \in [open : BOOLEAN, major : JavaMajors \union {0}, phase : Prompts!Phases]
    BY <2>1, <2>2
  <2>4. queue' \in Seq(JavaMajors) /\ queue' = <<>>
    BY <2>1, EmptySeq
  <2>5. Prompts!PromptTypeOK'
    BY <2>3, <2>4 DEF Prompts!PromptTypeOK
  <2>6. Prompts!PromptShowsOldest' /\ Prompts!DownloadingIsReal'
    BY <2>3, <2>4 DEF Prompts!PromptShowsOldest, Prompts!DownloadingIsReal
  <2> QED BY <2>5, <2>6 DEF PromptInv
<1>4. CASE Prompts!Dismiss
  <2>1. Prompts!settle(dialog.major) /\ UNCHANGED <<fetches, scans>>
    BY <1>4 DEF Prompts!Dismiss
  <2>2. /\ Prompts!PromptTypeOK' /\ Prompts!PromptShowsOldest'
        /\ dialog'.open /\ dialog'.phase = "downloading" => dialog' = dialog
    BY <2>1, SettleKeeps
  <2> QED BY <2>1, <2>2 DEF PromptInv, Prompts!DownloadingIsReal
<1>5. ASSUME NEW f \in fetches, Prompts!Downloads(f) PROVE PromptInv'
  <2>1. /\ fetches' = fetches \ {f} /\ UNCHANGED <<queue, dialog>>
        /\ scans' = scans \union {[id |-> f.id, saw |-> installed', for |-> f.major]}
    BY <1>5 DEF Prompts!Downloads
  <2>2. Prompts!DownloadingIsReal'
    <3> SUFFICES ASSUME dialog.open, dialog.phase = "downloading"
                 PROVE  \/ \E g \in fetches' : g.major = dialog.major
                        \/ \E s \in scans' : s.for = dialog.major
      BY <2>1 DEF Prompts!DownloadingIsReal
    <3>1. CASE f.major = dialog.major
      <4> DEFINE s == [id |-> f.id, saw |-> installed', for |-> f.major]
      <4>1. s \in scans' /\ s.for = dialog.major
        BY <2>1, <3>1
      <4> QED BY <4>1
    <3>2. CASE f.major # dialog.major
      BY <2>1, <3>2 DEF PromptInv, Prompts!DownloadingIsReal
    <3> QED BY <3>1, <3>2
  <2> QED BY <2>1, <2>2 DEF PromptInv, Prompts!PromptTypeOK, Prompts!PromptShowsOldest
<1>6. ASSUME NEW f \in fetches, Prompts!DownloadFails(f) PROVE PromptInv'
  <2>1. /\ fetches' = fetches \ {f} /\ UNCHANGED <<queue, scans>>
        /\ dialog' = IF dialog.major = f.major THEN [dialog EXCEPT !.phase = "error"] ELSE dialog
    BY <1>6 DEF Prompts!DownloadFails
  <2>2. dialog \in [open : BOOLEAN, major : JavaMajors \union {0}, phase : Prompts!Phases]
    BY DEF PromptInv, Prompts!PromptTypeOK
  <2>3. CASE dialog.major = f.major
    BY <2>1, <2>2, <2>3
       DEF PromptInv, Prompts!PromptTypeOK, Prompts!PromptShowsOldest, Prompts!DownloadingIsReal, Prompts!Phases
  <2>4. CASE dialog.major # f.major
    BY <2>1, <2>4 DEF PromptInv, Prompts!PromptTypeOK, Prompts!PromptShowsOldest,
       Prompts!DownloadingIsReal
  <2> QED BY <2>3, <2>4
<1>7. ASSUME NEW s \in scans, Prompts!rescan(s) PROVE PromptInv'
  <2>1. scans' = scans \ {s} /\ UNCHANGED fetches
    BY <1>7 DEF Prompts!rescan
  <2>2. CASE s.for = 0
    <3>1. UNCHANGED <<queue, dialog>>
      BY <1>7, <2>2 DEF Prompts!rescan
    <3>2. dialog.open => dialog.major # 0
      BY HeadTailProperties DEF PromptInv, Prompts!PromptTypeOK, Prompts!PromptShowsOldest
    <3>3. Prompts!DownloadingIsReal'
      BY <2>1, <2>2, <3>1, <3>2 DEF PromptInv, Prompts!DownloadingIsReal
    <3> QED BY <3>1, <3>3 DEF PromptInv, Prompts!PromptTypeOK, Prompts!PromptShowsOldest
  <2>3. CASE s.for # 0
    <3>1. Prompts!settle(s.for)
      BY <1>7, <2>3 DEF Prompts!rescan
    <3>2. /\ Prompts!PromptTypeOK' /\ Prompts!PromptShowsOldest'
          /\ dialog'.open /\ dialog'.phase = "downloading" =>
                dialog' = dialog /\ dialog.major # s.for
      BY <3>1, SettleKeeps
    <3>3. Prompts!DownloadingIsReal'
      BY <2>1, <3>2 DEF PromptInv, Prompts!DownloadingIsReal
    <3> QED BY <3>2, <3>3 DEF PromptInv
  <2> QED BY <2>2, <2>3
<1>8. CASE UNCHANGED promptVars
  BY <1>8 DEF promptVars, PromptInv, Prompts!PromptTypeOK, Prompts!PromptShowsOldest,
     Prompts!DownloadingIsReal
<1> QED BY <1>1, <1>2, <1>3, <1>4, <1>5, <1>6, <1>7, <1>8 DEF Prompts!PromptNext

\* The Java dialog shows the oldest request exactly while somebody waits, and
\* downloads when it says so, for any majors and any number of requests and
\* downloads (java-download.tsx).
THEOREM WindowPromptShowsOldest == Spec => []PromptShowsOldest
<1>1. PromptInv => PromptShowsOldest BY DEF PromptInv, PromptShowsOldest
<1>2. Init => PromptInv BY InitPrompt DEF Init
<1>3. PromptInv /\ [Next]_vars => PromptInv' BY WindowStep, NextPrompt, PromptsAssumption
<1> QED BY <1>1, <1>2, <1>3, PTL DEF Spec

--------------------------------------------------------------------------------
(* The settings page.                                                           *)

Forms == [ram : Rams, ver : Nat, place : Settings!Places, swap : Nat]
Saves == [ram : Rams, ver : Nat, swap : Nat, from : Settings!Places, to : Settings!Places]

\* The calls in flight: at most one of each, and of the shape its click gave it.
CallsShaped ==
    /\ saving # <<>> => saving = <<saving[1]>> /\ saving[1] \in Saves
    /\ updating # <<>> => /\ updating = <<updating[1]>>
                          /\ updating[1] \in [ram : Rams, from : Settings!Places, ver : Nat]
    /\ syncing # <<>> => syncing = <<syncing[1]>> /\ syncing[1] \in [ram : Rams, ver : Nat]

SettingsTypeOK ==
    /\ conf \in [ram : Rams, ver : Nat]
    /\ place \in Settings!Places
    /\ jar \in Nat
    /\ picks \in Seq(Nat)
    /\ shown \in [ram : Rams, ver : Nat, place : Settings!Places, sample : {0, 1}]
    /\ form \in Forms
    /\ touches \in Nat
    /\ form.swap \in {0} \union DOMAIN picks
    /\ saving # <<>> => saving[1].swap \in {0} \union DOMAIN picks

\* What a call in flight reads again when it lands is still so.
NothingCrossed ==
    ~crossed =>
        /\ shown.ram = conf.ram /\ shown.ver = conf.ver /\ shown.place = place
        /\ saving # <<>> => /\ updating = <<>> /\ syncing = <<>>
                            /\ form.ver = saving[1].ver /\ form.swap = saving[1].swap
                            /\ saving[1].from = place
        /\ updating # <<>> => /\ syncing = <<>> /\ updating[1].ram = conf.ram
                              /\ updating[1].from = place /\ updating[1].ver # conf.ver
        /\ syncing # <<>> => syncing[1] = conf
        /\ form.swap = 0 => form.ver = shown.ver

PickHeld == ~halfSaved /\ ~crossed /\ form.swap # 0 => picks[form.swap] = form.ver

SettingsInv == CallsShaped /\ SettingsTypeOK /\ NothingCrossed /\ PickHeld /\ Settings!JarIsRecorded

LEMMA SettingsStarts == ASSUME Init PROVE SettingsInv
<1>1. Settings!SettingsInit BY DEF Init
<1>2. (CHOOSE r \in Rams : TRUE) \in Rams BY SettingsAssumption
<1> QED
  BY <1>1, <1>2
     DEF Settings!SettingsInit, Settings!buildSettingsFormFromServer, Settings!Places,
         SettingsInv, CallsShaped, SettingsTypeOK, NothingCrossed, PickHeld, Forms,
         Settings!JarIsRecorded

LEMMA SettingsTyped ==
    ASSUME SettingsInv,
           Settings!updateSettingsField \/ Settings!handleResetSettingsForm
           \/ Settings!StartOrStop
    PROVE  SettingsInv'
  BY SMTT(30) DEF Settings!updateSettingsField, Settings!handleResetSettingsForm, Settings!StartOrStop,
         Settings!Touch, Settings!Nothing, Settings!NoCall, Settings!isFormLocked,
         Settings!buildSettingsFormFromServer, Settings!Places,
         SettingsInv, CallsShaped, SettingsTypeOK, NothingCrossed, PickHeld, Forms, Saves,
         Settings!JarIsRecorded

\* A jar is put beside the server's: appended, and so in the place the form names.
LEMMA SettingsDownload ==
    ASSUME SettingsInv, Settings!handleProviderJarDownloaded PROVE SettingsInv'
<1> USE DEF SettingsInv
<1> PICK v \in Versions :
       picks' = Append(picks, v) /\ form' = [form EXCEPT !.ver = v, !.swap = Len(picks')]
  BY DEF Settings!handleProviderJarDownloaded
<1> v \in Nat BY SettingsAssumption
<1>1. /\ picks' \in Seq(Nat) /\ Len(picks') = Len(picks) + 1 /\ picks'[Len(picks')] = v
      /\ Len(picks') \in DOMAIN picks' /\ Len(picks') \in Nat /\ Len(picks') # 0
      /\ DOMAIN picks \subseteq DOMAIN picks'
  BY DEF SettingsTypeOK
<1>2. form' \in Forms /\ form'.ver = v /\ form'.swap = Len(picks')
  BY <1>1 DEF SettingsTypeOK, Forms
<1>3. /\ saving = <<>> /\ syncing = <<>>
      /\ touches \in Nat => touches' \in Nat
      /\ UNCHANGED <<conf, place, jar, shown, saving, updating, syncing, halfSaved, crossed>>
  BY DEF Settings!handleProviderJarDownloaded, Settings!Touch, Settings!Nothing,
         Settings!NoCall, Settings!isFormLocked
<1>4. CallsShaped' BY <1>3 DEF CallsShaped
<1>5. SettingsTypeOK' BY <1>1, <1>2, <1>3 DEF SettingsTypeOK
<1>6. NothingCrossed' BY <1>1, <1>2, <1>3 DEF NothingCrossed
<1>7. PickHeld' /\ Settings!JarIsRecorded'
  BY <1>1, <1>2, <1>3 DEF PickHeld, Settings!JarIsRecorded
<1> QED BY <1>4, <1>5, <1>6, <1>7

\* Each click writes down what its call will need.
LEMMA SettingsClicks ==
    ASSUME SettingsInv,
           Settings!handleSaveSettings \/ Settings!runUpdate \/ Settings!handleManualSync
    PROVE  SettingsInv'
<1> USE DEF SettingsInv
<1>1. CASE Settings!handleSaveSettings
  <2>1. /\ saving' = <<saving'[1]>> /\ saving' # <<>> /\ saving'[1] \in Saves
        /\ saving'[1].ver = form.ver /\ saving'[1].swap = form.swap
        /\ saving'[1].from = shown.place
    BY <1>1 DEF Settings!handleSaveSettings, SettingsTypeOK, Saves, Forms
  <2>2. /\ touches \in Nat => touches' \in Nat
        /\ syncing = <<>> /\ crossed' = (crossed \/ updating # <<>>)
        /\ UNCHANGED <<conf, place, jar, picks, shown, form, updating, syncing, halfSaved>>
    BY <1>1 DEF Settings!handleSaveSettings, Settings!Touch, Settings!Nothing,
                Settings!isFormLocked
  <2>3. CallsShaped' BY <2>1, <2>2 DEF CallsShaped
  <2>4. SettingsTypeOK' BY <2>1, <2>2 DEF SettingsTypeOK
  <2>5. NothingCrossed' BY <2>1, <2>2 DEF NothingCrossed
  <2> QED BY <2>2, <2>3, <2>4, <2>5 DEF PickHeld, Settings!JarIsRecorded
<1>2. CASE Settings!runUpdate
  <2>1. /\ updating' = <<updating'[1]>> /\ updating' # <<>>
        /\ updating'[1] \in [ram : Rams, from : Settings!Places, ver : Nat]
        /\ updating'[1].ver # shown.ver /\ updating'[1].from = shown.place
        /\ updating'[1].ram = shown.ram
    BY <1>2, SettingsAssumption DEF Settings!runUpdate, SettingsTypeOK
  <2>2. /\ touches \in Nat => touches' \in Nat
        /\ saving = <<>> /\ syncing = <<>> /\ updating = <<>>
        /\ UNCHANGED <<conf, place, jar, picks, shown, form, saving, syncing, crossed, halfSaved>>
    BY <1>2 DEF Settings!runUpdate, Settings!Touch, Settings!Nothing, Settings!isFormLocked
  <2>3. CallsShaped' BY <2>1, <2>2 DEF CallsShaped
  <2>4. SettingsTypeOK' BY <2>1, <2>2 DEF SettingsTypeOK
  <2>5. NothingCrossed' BY <2>1, <2>2 DEF NothingCrossed
  <2> QED BY <2>2, <2>3, <2>4, <2>5 DEF PickHeld, Settings!JarIsRecorded
<1>3. CASE Settings!handleManualSync
  <2>1. syncing' = <<conf>> /\ syncing' # <<>> /\ syncing'[1] = conf
    BY <1>3 DEF Settings!handleManualSync
  <2>2. /\ touches \in Nat => touches' \in Nat
        /\ saving = <<>> /\ crossed' = (crossed \/ updating # <<>>)
        /\ UNCHANGED <<conf, place, jar, picks, shown, form, saving, updating, halfSaved>>
    BY <1>3 DEF Settings!handleManualSync, Settings!Touch, Settings!Nothing,
                Settings!isFormLocked
  <2>3. CallsShaped' BY <2>1, <2>2 DEF CallsShaped, SettingsTypeOK
  <2>4. SettingsTypeOK' BY <2>2 DEF SettingsTypeOK
  <2>5. NothingCrossed' BY <2>1, <2>2 DEF NothingCrossed
  <2> QED BY <2>2, <2>3, <2>4, <2>5 DEF PickHeld, Settings!JarIsRecorded
<1> QED BY <1>1, <1>2, <1>3

\* A save that lands exchanges the jars, then records the draft; one that stops in
\* between has exchanged them only.
LEMMA SettingsSave ==
    ASSUME SettingsInv, NEW w, Settings!SaveReturns(w) PROVE SettingsInv'
<1> USE DEF SettingsInv
<1> DEFINE p == saving[1]
<1>1. /\ saving # <<>> /\ p \in Saves /\ p.swap \in {0} \union DOMAIN picks
      /\ saving' = <<>> /\ UNCHANGED <<updating, syncing, touches, crossed>>
      /\ w \in {"refused", "stopped", "done"} /\ (w # "refused" => p.from = place)
  BY DEF Settings!SaveReturns, CallsShaped, SettingsTypeOK, Settings!Outcome
<1>2. /\ jar' = IF w # "refused" /\ p.swap # 0 THEN picks[p.swap] ELSE jar
      /\ picks' = IF w # "refused" /\ p.swap # 0 THEN [picks EXCEPT ![p.swap] = jar] ELSE picks
      /\ place' = IF w = "done" THEN p.to ELSE place
      /\ conf' = IF w = "done" THEN [ram |-> p.ram, ver |-> p.ver] ELSE conf
      /\ halfSaved' = (halfSaved \/ (w = "stopped" /\ p.swap # 0))
      /\ w # "done" => UNCHANGED <<shown, form>>
      /\ w = "done" => shown' = [shown EXCEPT !.ram = p.ram, !.ver = p.ver, !.place = p.to]
  BY DEF Settings!SaveReturns, Settings!update_server_settings, Settings!updateServer
<1>3. w = "done" =>
        \/ form' = [form EXCEPT !.swap = 0, !.place = p.to]
        \/ form' = [ram |-> p.ram, ver |-> p.ver, place |-> p.to, swap |-> 0]
  <2>1. w = "done" =>
          form' = Settings!resetToBaseline(shown', [form EXCEPT !.swap = 0, !.place = p.to])
    BY DEF Settings!SaveReturns, Settings!updateServer
  <2>2. w = "done" => shown'.ram = p.ram /\ shown'.ver = p.ver /\ shown'.place = p.to
    BY <1>2 DEF SettingsTypeOK
  <2> QED BY <2>1, <2>2 DEF Settings!resetToBaseline, Settings!buildSettingsFormFromServer
<1> HIDE DEF p
<1>4. /\ jar' \in Nat /\ picks' \in Seq(Nat) /\ DOMAIN picks' = DOMAIN picks
  BY <1>1, <1>2 DEF SettingsTypeOK
<1>5. /\ w = "done" => /\ shown'.ram = p.ram /\ shown'.ver = p.ver /\ shown'.place = p.to
                       /\ shown' \in [ram : Rams, ver : Nat, place : Settings!Places, sample : {0, 1}]
                       /\ conf'.ram = p.ram /\ conf'.ver = p.ver /\ place' = p.to
                       /\ conf' \in [ram : Rams, ver : Nat] /\ place' \in Settings!Places
                       /\ form' \in Forms /\ form'.swap = 0
                       /\ form'.ver \in {form.ver, p.ver}
      /\ w # "done" => UNCHANGED <<shown, form, conf, place>>
  <2>1. p.to \in Settings!Places /\ p.ram \in Rams /\ p.ver \in Nat
    BY <1>1 DEF Saves
  <2>2. CASE w = "done"
    <3>1. /\ shown'.ram = p.ram /\ shown'.ver = p.ver /\ shown'.place = p.to
          /\ shown' \in [ram : Rams, ver : Nat, place : Settings!Places, sample : {0, 1}]
      BY <1>2, <2>1, <2>2 DEF SettingsTypeOK
    <3>2. /\ conf'.ram = p.ram /\ conf'.ver = p.ver /\ place' = p.to
          /\ conf' \in [ram : Rams, ver : Nat] /\ place' \in Settings!Places
      BY <1>2, <2>1, <2>2
    <3>3. form' \in Forms /\ form'.swap = 0 /\ form'.ver \in {form.ver, p.ver}
      <4>1. CASE form' = [form EXCEPT !.swap = 0, !.place = p.to]
        BY <2>1, <4>1 DEF SettingsTypeOK, Forms
      <4>2. CASE form' = [ram |-> p.ram, ver |-> p.ver, place |-> p.to, swap |-> 0]
        BY <2>1, <4>2 DEF Forms
      <4> QED BY <1>3, <2>2, <4>1, <4>2
    <3> QED BY <2>2, <3>1, <3>2, <3>3
  <2> QED BY <1>2, <2>2
<1>6. CallsShaped' BY <1>1 DEF CallsShaped
<1>7. SettingsTypeOK' BY <1>1, <1>4, <1>5 DEF SettingsTypeOK
<1>8. NothingCrossed' BY <1>1, <1>5 DEF NothingCrossed, p
<1>9. ~halfSaved' /\ ~crossed' => ~halfSaved /\ ~crossed /\ p.ver = form.ver /\ p.swap = form.swap
  BY <1>1, <1>2 DEF NothingCrossed, p
<1>10. PickHeld'
  <2>1. CASE w = "done" BY <2>1, <1>5 DEF PickHeld
  <2>2. CASE w # "done"
    <3>1. ~halfSaved' /\ ~crossed' => picks' = picks BY <2>2, <1>1, <1>2
    <3> QED BY <2>2, <3>1, <1>5, <1>9 DEF PickHeld
  <2> QED BY <2>1, <2>2
<1>11. Settings!JarIsRecorded'
  <2>1. CASE w = "done"
    <3>1. CASE p.swap # 0
      BY <2>1, <3>1, <1>1, <1>2, <1>5, <1>9 DEF PickHeld, Settings!JarIsRecorded
    <3>2. CASE p.swap = 0
      BY <2>1, <3>2, <1>1, <1>2, <1>5, <1>9 DEF NothingCrossed, Settings!JarIsRecorded
    <3> QED BY <3>1, <3>2
  <2>2. CASE w # "done"
    BY <2>2, <1>1, <1>2, <1>5, <1>9 DEF Settings!JarIsRecorded
  <2> QED BY <2>1, <2>2
<1> QED BY <1>6, <1>7, <1>8, <1>10, <1>11

\* An update that lands installs its build and records it beside the RAM it read.
LEMMA SettingsUpdate ==
    ASSUME SettingsInv, NEW w, Settings!UpdateReturns(w) PROVE SettingsInv'
<1> USE DEF SettingsInv
<1> DEFINE u == updating[1]
<1>1. /\ updating # <<>> /\ u \in [ram : Rams, from : Settings!Places, ver : Nat]
      /\ updating' = <<>> /\ UNCHANGED <<picks, saving, syncing, touches, halfSaved, crossed>>
      /\ w \in {"refused", "done"} /\ (w = "done" => u.from = place)
  BY DEF Settings!UpdateReturns, Settings!Outcome, CallsShaped
<1>2. /\ w = "refused" => UNCHANGED <<jar, place, conf, shown, form>>
      /\ w = "done" => /\ jar' = u.ver /\ place' = u.from /\ conf' = [ram |-> u.ram, ver |-> u.ver]
                       /\ shown' = [shown EXCEPT !.ver = u.ver, !.place = u.from]
                       /\ form' = Settings!resetToBaseline(shown', form)
  BY <1>1 DEF Settings!UpdateReturns, Settings!update_server_settings, Settings!updateServer
<1> HIDE DEF u
<1>3. CASE w = "refused"
  <2>1. NothingCrossed' BY <1>1, <1>2, <1>3 DEF NothingCrossed
  <2>2. SettingsTypeOK' BY <1>1, <1>2, <1>3 DEF SettingsTypeOK
  <2> QED BY <1>1, <1>2, <1>3, <2>1, <2>2 DEF CallsShaped, PickHeld, Settings!JarIsRecorded
<1>4. CASE w = "done"
  <2>1. /\ shown' \in [ram : Rams, ver : Nat, place : Settings!Places, sample : {0, 1}]
        /\ shown'.ram = shown.ram /\ shown'.ver = u.ver /\ shown'.place = u.from
    BY <1>1, <1>2, <1>4 DEF SettingsTypeOK
  <2>2. /\ conf' \in [ram : Rams, ver : Nat] /\ conf'.ram = u.ram /\ conf'.ver = u.ver
    BY <1>1, <1>2, <1>4
  <2>3. \/ form' = [ram |-> shown.ram, ver |-> u.ver, place |-> u.from, swap |-> 0]
        \/ form' = form /\ u.ver = shown.ver
    BY <1>2, <1>4, <2>1 DEF Settings!resetToBaseline, Settings!buildSettingsFormFromServer
  <2>4. /\ form' \in Forms /\ form'.swap \in {0, form.swap}
        /\ u.ver # shown.ver => form'.swap = 0 /\ form'.ver = u.ver
    BY <1>1, <2>1, <2>3 DEF SettingsTypeOK, Forms
  <2>5. CallsShaped' BY <1>1 DEF CallsShaped
  <2>6. SettingsTypeOK'
    <3>1. jar' \in Nat /\ place' \in Settings!Places BY <1>1, <1>2, <1>4
    <3> QED BY <1>1, <2>1, <2>2, <2>4, <3>1 DEF SettingsTypeOK
  <2>7. ~crossed => u.ver # shown.ver /\ saving = <<>> /\ syncing = <<>> /\ u.ram = shown.ram
    BY <1>1 DEF NothingCrossed, u
  <2>8. NothingCrossed' BY <1>1, <1>2, <1>4, <2>1, <2>2, <2>4, <2>7 DEF NothingCrossed
  <2>9. PickHeld' BY <1>1, <2>4, <2>7 DEF PickHeld
  <2>10. Settings!JarIsRecorded' BY <1>2, <1>4, <2>2 DEF Settings!JarIsRecorded
  <2> QED BY <2>5, <2>6, <2>8, <2>9, <2>10
<1> QED BY <1>1, <1>3, <1>4

\* A sync shows what mserve.json said at its click; a sample changes no setting.
LEMMA SettingsLands ==
    ASSUME SettingsInv, Settings!SyncReturns \/ Settings!TelemetrySample PROVE SettingsInv'
<1> USE DEF SettingsInv
<1>1. CASE Settings!SyncReturns
  <2> DEFINE c == syncing[1]
  <2>1. /\ syncing # <<>> /\ c \in [ram : Rams, ver : Nat] /\ syncing' = <<>>
        /\ UNCHANGED <<conf, place, jar, picks, saving, updating, touches, halfSaved, crossed>>
        /\ shown' = [shown EXCEPT !.ram = c.ram, !.ver = c.ver]
        /\ form' = Settings!resetToBaseline(shown', form)
    BY <1>1 DEF Settings!SyncReturns, Settings!Nothing, Settings!updateServer, CallsShaped
  <2>2. ~crossed => c = conf /\ saving = <<>> /\ updating = <<>>
    BY <2>1 DEF NothingCrossed
  <2> HIDE DEF c
  <2>3. /\ shown' \in [ram : Rams, ver : Nat, place : Settings!Places, sample : {0, 1}]
        /\ shown'.ram = c.ram /\ shown'.ver = c.ver /\ shown'.place = shown.place
    BY <2>1 DEF SettingsTypeOK
  <2>4. \/ form' = [ram |-> c.ram, ver |-> c.ver, place |-> shown.place, swap |-> 0]
        \/ form' = form /\ c.ver = shown.ver
    BY <2>1, <2>3 DEF Settings!resetToBaseline, Settings!buildSettingsFormFromServer
  <2>5. /\ form' \in Forms /\ form'.swap \in {0, form.swap}
        /\ form'.swap # 0 => form' = form
        /\ form'.swap = 0 => form'.ver = c.ver \/ (form' = form /\ c.ver = shown.ver)
    BY <2>1, <2>3, <2>4 DEF SettingsTypeOK, Forms
  <2>6. CallsShaped' BY <2>1 DEF CallsShaped
  <2>7. SettingsTypeOK' BY <2>1, <2>3, <2>5 DEF SettingsTypeOK
  <2>8. NothingCrossed' BY <2>1, <2>2, <2>3, <2>5 DEF NothingCrossed
  <2>9. PickHeld' /\ Settings!JarIsRecorded'
    BY <2>1, <2>5 DEF PickHeld, Settings!JarIsRecorded
  <2> QED BY <2>6, <2>7, <2>8, <2>9
<1>2. CASE Settings!TelemetrySample
  <2>1. /\ UNCHANGED <<conf, place, jar, picks, saving, updating, syncing, touches, halfSaved, crossed>>
        /\ shown' = [shown EXCEPT !.sample = 1 - @]
        /\ form' = Settings!resetToBaseline(shown', form)
    BY <1>2 DEF Settings!TelemetrySample, Settings!Nothing, Settings!NoCall,
       Settings!updateServer
  <2>2. /\ shown' \in [ram : Rams, ver : Nat, place : Settings!Places, sample : {0, 1}]
        /\ shown'.ram = shown.ram /\ shown'.ver = shown.ver /\ shown'.place = shown.place
    BY <2>1 DEF SettingsTypeOK
  <2>3. form' = form
    BY <2>1, <2>2 DEF Settings!resetToBaseline, Settings!buildSettingsFormFromServer
  <2>4. CallsShaped' BY <2>1 DEF CallsShaped
  <2>5. SettingsTypeOK' BY <2>1, <2>2, <2>3 DEF SettingsTypeOK
  <2>6. NothingCrossed' BY <2>1, <2>2, <2>3 DEF NothingCrossed
  <2> QED BY <2>1, <2>3, <2>4, <2>5, <2>6 DEF PickHeld, Settings!JarIsRecorded
<1> QED BY <1>1, <1>2

LEMMA SettingsStep ==
    ASSUME SettingsInv, [Settings!SettingsNext]_settingsVars PROVE SettingsInv'
<1>1. CASE UNCHANGED settingsVars
  BY <1>1
     DEF settingsVars, SettingsInv, CallsShaped, SettingsTypeOK, NothingCrossed, PickHeld,
         Settings!JarIsRecorded
<1>2. CASE Settings!SettingsNext
  BY <1>2, SettingsTyped, SettingsDownload, SettingsClicks, SettingsSave, SettingsUpdate,
     SettingsLands DEF Settings!SettingsNext
<1> QED BY <1>1, <1>2

\* Jar, mserve.json and list agree about a server, for any RAM and any builds.
THEOREM WindowSettingsAgree == Spec => []SettingsAgree
<1>1. SettingsInv => SettingsAgree
  BY DEF SettingsInv, NothingCrossed, SettingsAgree, Settings!ShownIsSaved
<1>2. Init => SettingsInv BY SettingsStarts
<1>3. SettingsInv /\ [Next]_vars => SettingsInv' BY WindowStep, SettingsStep
<1> QED BY <1>1, <1>2, <1>3, PTL DEF Spec

--------------------------------------------------------------------------------
(* The list of networks.                                                        *)

NetworkLoads == [from : Roots, read : Int, done : BOOLEAN, active : BOOLEAN]

\* Saves go where a list was loaded from, or where there was none, and no file of
\* such a root has become unreadable since.
NetworksInv ==
    /\ networks \in Int \ {Networks!Broken} /\ local \in Int \ {Networks!Broken}
    /\ changes \in Nat /\ root \in Roots /\ onDisk \in [Roots -> Int]
    /\ saveTo # "none" => saveTo \in Roots /\ onDisk[saveTo] # Networks!Broken
    /\ loads \subseteq NetworkLoads
    /\ \A l \in loads : l.done /\ l.read # Networks!Broken => onDisk[l.from] # Networks!Broken

LEMMA NetworksStart == ASSUME Init PROVE NetworksInv
<1>1. Networks!NetworksInit BY DEF Init
<1> QED
  BY <1>1
     DEF Networks!NetworksInit, NetworksInv, NetworkLoads, Networks!Absent, Networks!Broken,
         Networks!Stored

LEMMA NetworksStep ==
    ASSUME NetworksInv, [Networks!NetworksNext]_networksVars
    PROVE  /\ NetworksInv'
           /\ \A r \in Roots : onDisk[r] = Networks!Broken => onDisk'[r] = Networks!Broken
<1> USE DEF NetworksInv
<1>1. CASE UNCHANGED networksVars
  BY <1>1 DEF networksVars
<1>2. ASSUME NEW l \in loads, Networks!ReadsFile(l)
      PROVE  NetworksInv' /\ onDisk' = onDisk
  <2> DEFINE k == [l EXCEPT !.read = onDisk[l.from], !.done = TRUE]
  <2>1. k \in NetworkLoads /\ k.read = onDisk[k.from]
    BY DEF NetworkLoads
  <2>2. loads' = (loads \ {l}) \union {k}
        /\ UNCHANGED <<networks, onDisk, local, ready, root, saveTo, unsaved, changes>>
    BY <1>2 DEF Networks!ReadsFile
  <2> HIDE DEF k
  <2> QED BY <2>1, <2>2
<1>3. ASSUME NEW l \in loads, Networks!SetNetworks(l)
      PROVE  NetworksInv' /\ onDisk' = onDisk
  BY <1>3 DEF Networks!SetNetworks, Networks!LoadedFrom, NetworkLoads, Networks!Absent,
              Networks!Broken
<1>4. CASE Networks!saveToLocalStorage
  BY <1>4 DEF Networks!saveToLocalStorage
<1>5. CASE Networks!updateNetwork
  BY <1>5 DEF Networks!updateNetwork, Networks!Changes, Networks!Broken
<1>6. CASE Networks!Quit
  BY <1>6 DEF Networks!Quit, Networks!Changes, Networks!Broken, Networks!Absent, NetworkLoads
<1>7. ASSUME NEW r \in Roots, Networks!SetRoot(r)
      PROVE  NetworksInv' /\ onDisk' = onDisk
  <2> DEFINE new == [from |-> r, read |-> Networks!Absent, done |-> FALSE, active |-> TRUE]
             Left(l) == [l EXCEPT !.active = FALSE]
  <2>1. /\ loads' = {Left(l) : l \in loads} \union {new} /\ changes' \in Nat /\ root' = r
        /\ UNCHANGED <<networks, onDisk, local, ready, saveTo, unsaved>>
    BY <1>7 DEF Networks!SetRoot, Networks!Changes
  <2>2. new \in NetworkLoads /\ ~new.done BY DEF NetworkLoads, Networks!Absent
  <2>3. \A l \in NetworkLoads : /\ Left(l) \in NetworkLoads /\ Left(l).done = l.done
                                /\ Left(l).read = l.read /\ Left(l).from = l.from
    BY DEF NetworkLoads
  <2> HIDE DEF new, Left
  <2> QED BY <2>1, <2>2, <2>3
<1> QED BY <1>1, <1>2, <1>3, <1>4, <1>5, <1>6, <1>7 DEF Networks!NetworksNext, networksVars

--------------------------------------------------------------------------------
(* What a directory holds and the page lists of it.                             *)

Lists == [Contents!Entries -> {"absent", "off", "on"}]
Jobs  == [id : Nat, alone : BOOLEAN, kind : {"delete", "create", "on", "off", "scan"},
          of : Seq(Contents!Entries), todo : Seq(Contents!Entries),
          lock : {"page", "tab", "none"}, from : Lists, read : Nat, saw : Lists]

ContentsTypeOK ==
    /\ folder \in Lists /\ list \in Lists /\ jobs \subseteq Jobs
    /\ clicks \in Nat /\ reads \in Nat /\ shownAt \in Nat /\ needed \in Nat

\* What a job has left to do is what it was begun for.
JobShaped(j) ==
    /\ Contents!isLockSwitch(j) =>
          /\ j.read = 0 /\ j.of # <<>> /\ Head(j.of) \in Backups
          /\ j.todo = <<>> \/ (Head(j.todo) = Head(j.of) /\ Tail(j.todo) = <<>>)
    /\ j.kind = "delete" => \A i \in DOMAIN j.todo : j.from[j.todo[i]] # "absent"
    /\ j.read # 0 \/ j.kind = "scan" => j.todo = <<>>

\* Each scan has a place of its own in the order in which they read.
ReadsOrdered ==
    /\ shownAt <= reads
    /\ \A j \in jobs : j.read # 0 => j.read <= reads /\ j.read # shownAt
    /\ \A j, k \in jobs : j.read = k.read /\ j.read # 0 => j = k

\* What the list will be when the switch of a lock ends.
Told(j) == IF j.todo = <<>> THEN [list EXCEPT ![Head(j.of)] = j.kind] ELSE list

\* The switch of a lock that runs alone captured a true list, if the list was true.
AloneKnows ==
    \A j \in jobs : j.alone /\ Contents!isLockSwitch(j) =>
        /\ jobs = {j}
        /\ reads >= needed => shownAt = reads /\ j.from = list /\ folder = Told(j)

\* Once nobody is left who has not read the directory, the last scan is right.
LastScanSaw ==
    (\A j \in jobs : j.read # 0) /\ reads >= needed =>
        \/ \E j \in jobs : j.read = reads /\ j.saw = folder
        \/ shownAt = reads /\ list = folder

ContentsInv ==
    /\ ContentsTypeOK /\ \A j \in jobs : JobShaped(j)
    /\ ReadsOrdered /\ AloneKnows /\ LastScanSaw

\* A sequence of the members of a finite set has no others.
LEMMA SeqOfSet ==
    ASSUME NEW S, IsFiniteSet(S)
    PROVE  Contents!SetToSeq(S) \in Seq(S)
<1> DEFINE n == Cardinality(S)
<1>1. n \in Nat /\ ExistsBijection(1..n, S) BY FS_CardinalityType
<1>2. PICK f : f \in Bijection(1..n, S) BY <1>1 DEF ExistsBijection
<1>3. f \in [1..n -> S] /\ Contents!IsInjective(f)
  BY <1>2 DEF Contents!IsInjective, Bijection, Injection, IsInjective
<1>4. Contents!Cardinality(S) = Cardinality(S)
  BY DEF Contents!Cardinality, Cardinality
<1>5. Contents!SetToSeq(S) \in [1..n -> S]
  BY <1>3, <1>4 DEF Contents!SetToSeq
<1> QED BY <1>1, <1>5

LEMMA ContentsStart == ASSUME Init PROVE ContentsInv
<1>1. Contents!ContentInit BY DEF Init
<1>2. folder \in Lists
  BY <1>1 DEF Contents!ContentInit, Lists
<1>3. jobs = {} /\ list = folder /\ reads = 0 /\ shownAt = 0 /\ needed = 0 /\ clicks = 0
  BY <1>1 DEF Contents!ContentInit
<1> QED
  BY <1>2, <1>3
     DEF ContentsInv, ContentsTypeOK, ReadsOrdered, AloneKnows, LastScanSaw

\* A job begins: the others lose nothing but being alone.
LEMMA ContentsBegin ==
    ASSUME ContentsInv,
           NEW job \in {"delete", "create", "on", "off", "scan"},
           NEW todo \in Seq(Contents!Entries),
           NEW lock \in {"page", "tab", "none"},
           Contents!Begin(job, todo, lock), folder' \in Lists,
           folder' # folder => job = "scan", job = "scan" => todo = <<>>,
           job = "delete" => \A i \in DOMAIN todo : list[todo[i]] # "absent",
           job \in {"on", "off"} /\ lock = "none" =>
              todo # <<>> /\ Head(todo) \in Backups /\ Tail(todo) = <<>>
    PROVE  ContentsInv'
<1> PICK new : new = [id |-> clicks', alone |-> jobs = {}, kind |-> job, of |-> todo,
                      todo |-> todo, lock |-> lock, from |-> list, read |-> 0, saw |-> list]
  OBVIOUS
<1> DEFINE Beside(j) == [j EXCEPT !.alone = FALSE]
<1>1. /\ jobs' = {Beside(j) : j \in jobs} \union {new} /\ clicks' \in Nat
      /\ UNCHANGED <<list, reads, shownAt, needed>>
  BY DEF Contents!Begin, ContentsInv, ContentsTypeOK
<1>2. new \in Jobs /\ new.read = 0 /\ new.kind = job /\ new.of = todo /\ new.todo = todo
      /\ new.from = list /\ new.lock = lock /\ new.alone = (jobs = {})
  BY <1>1 DEF ContentsInv, ContentsTypeOK, Jobs
<1>3. \A j \in jobs : /\ Beside(j) \in Jobs /\ Beside(j).alone = FALSE /\ Beside(j).kind = j.kind
                      /\ Beside(j).of = j.of /\ Beside(j).todo = j.todo /\ Beside(j).lock = j.lock
                      /\ Beside(j).from = j.from /\ Beside(j).read = j.read /\ Beside(j).saw = j.saw
  BY DEF ContentsInv, ContentsTypeOK, Jobs
<1> HIDE DEF Beside
<1>4. ContentsTypeOK'
  BY <1>1, <1>2, <1>3 DEF ContentsInv, ContentsTypeOK
<1>5. \A j \in jobs' : JobShaped(j)
  <2>1. JobShaped(new)
    BY <1>2 DEF JobShaped, Contents!isLockSwitch
  <2>2. ASSUME NEW j \in jobs PROVE JobShaped(Beside(j))
    BY <1>3 DEF ContentsInv, JobShaped, Contents!isLockSwitch
  <2> QED BY <1>1, <2>1, <2>2
<1>6. ReadsOrdered'
  BY <1>1, <1>2, <1>3 DEF ContentsInv, ReadsOrdered
<1>7. AloneKnows'
  <2>1. SUFFICES ASSUME new.alone, Contents!isLockSwitch(new)
                 PROVE  jobs' = {new} /\ (reads >= needed => shownAt = reads /\ new.from = list
                                                              /\ folder' = Told(new))
    BY <1>1, <1>3 DEF AloneKnows, Told
  <2>2. jobs = {} BY <1>2, <2>1
  <2>3. jobs' = {new} BY <1>1, <2>2
  <2>4. folder' = folder /\ todo # <<>> BY <1>2, <2>1 DEF Contents!isLockSwitch
  <2>5. reads >= needed => shownAt = reads /\ list = folder BY <2>2 DEF ContentsInv, LastScanSaw
  <2> QED BY <1>1, <1>2, <2>3, <2>4, <2>5 DEF Told
<1>8. LastScanSaw'
  BY <1>1, <1>2 DEF LastScanSaw
<1> QED BY <1>4, <1>5, <1>6, <1>7, <1>8 DEF ContentsInv, JobShaped, Contents!isLockSwitch

\* Every click, and every change the backend announces, begins one.
LEMMA ContentsClicks ==
    ASSUME ContentsInv,
           \/ \E b \in Backups : \/ Contents!handleDeleteBackup(b) \/ Contents!handleCreateBackup(b)
                                 \/ Contents!handleSetBackupLocked(b) \/ Contents!backupsChanged(b)
           \/ \E i \in Items : Contents!handleToggleActive(i) \/ Contents!handleDelete(i)
           \/ \E picked \in SUBSET Items : Contents!handleAddItem(picked)
           \/ Contents!handleClearAllBackups \/ Contents!syncServerContents
    PROVE  /\ ContentsInv'
           /\ \A b \in Backups : Contents!Held(b) => folder'[b] # "absent"
<1> USE DEF Contents!Entries
<1> folder \in Lists /\ list \in Lists BY DEF ContentsInv, ContentsTypeOK
<1>0. folder' = folder => \A b \in Backups : Contents!Held(b) => folder'[b] # "absent"
  BY DEF Contents!Held
<1>1. ASSUME NEW e \in Contents!Entries, NEW job \in {"delete", "create", "on", "off"},
             NEW lock \in {"page", "tab", "none"}, Contents!BeginOnly(job, <<e>>, lock),
             job = "delete" => Contents!Shown(e),
             job \in {"on", "off"} /\ lock = "none" => e \in Backups
      PROVE  ContentsInv' /\ folder' = folder
  <2>1. /\ <<e>> \in Seq(Contents!Entries) /\ DOMAIN <<e>> = {1} /\ <<e>>[1] = e
        /\ Head(<<e>>) = e /\ Tail(<<e>>) = <<>> /\ <<e>> # <<>>
    OBVIOUS
  <2> QED BY <1>1, <2>1, ContentsBegin DEF Contents!BeginOnly, Contents!Shown
<1>2. ASSUME NEW S, S \subseteq Contents!Entries, IsFiniteSet(S),
             NEW job \in {"delete", "create"}, NEW lock \in {"page", "tab", "none"},
             Contents!BeginOnly(job, Contents!SetToSeq(S), lock),
             job = "delete" => \A e \in S : Contents!Shown(e)
      PROVE  ContentsInv' /\ folder' = folder
  <2>1. Contents!SetToSeq(S) \in Seq(S) BY <1>2, SeqOfSet
  <2>2. /\ Contents!SetToSeq(S) \in Seq(Contents!Entries)
        /\ \A i \in DOMAIN Contents!SetToSeq(S) : Contents!SetToSeq(S)[i] \in S
    BY <1>2, <2>1
  <2> QED BY <1>2, <2>2, ContentsBegin DEF Contents!BeginOnly, Contents!Shown
<1>3. ASSUME NEW b \in Backups, Contents!handleDeleteBackup(b) PROVE ContentsInv' /\ folder' = folder
  BY <1>1, <1>3 DEF Contents!handleDeleteBackup
<1>4. ASSUME NEW b \in Backups, Contents!handleCreateBackup(b) PROVE ContentsInv' /\ folder' = folder
  BY <1>1, <1>4 DEF Contents!handleCreateBackup
<1>5. ASSUME NEW b \in Backups, Contents!handleSetBackupLocked(b) PROVE ContentsInv' /\ folder' = folder
  BY <1>1, <1>5 DEF Contents!handleSetBackupLocked, Contents!Switch
<1>6. ASSUME NEW i \in Items, Contents!handleToggleActive(i) PROVE ContentsInv' /\ folder' = folder
  BY <1>1, <1>6 DEF Contents!handleToggleActive, Contents!Switch
<1>7. ASSUME NEW i \in Items, Contents!handleDelete(i) PROVE ContentsInv' /\ folder' = folder
  BY <1>1, <1>7 DEF Contents!handleDelete
<1>8. ASSUME NEW picked \in SUBSET Items, Contents!handleAddItem(picked)
      PROVE  ContentsInv' /\ folder' = folder
  <2>1. IsFiniteSet(picked) BY ContentsAssumption, FS_Subset
  <2> QED BY <1>2, <1>8, <2>1 DEF Contents!handleAddItem
<1>9. CASE Contents!handleClearAllBackups
  <2> DEFINE S == {b \in Backups : Contents!Shown(b)}
  <2>1. IsFiniteSet(S) /\ S \subseteq Contents!Entries BY ContentsAssumption, FS_Subset
  <2>2. Contents!BeginOnly("delete", Contents!SetToSeq(S), "page")
    BY <1>9 DEF Contents!handleClearAllBackups
  <2>3. \A e \in S : Contents!Shown(e) OBVIOUS
  <2>4. "delete" \in {"delete", "create"} /\ "page" \in {"page", "tab", "none"} OBVIOUS
  <2> HIDE DEF S
  <2>5. ContentsInv' /\ folder' = folder BY <1>2, <2>1, <2>2, <2>3, <2>4
  <2> QED BY <1>0, <2>5
<1>10. CASE Contents!syncServerContents
  <2>1. <<>> \in Seq(Contents!Entries) OBVIOUS
  <2>2. Contents!Begin("scan", <<>>, "none") /\ folder' = folder
    BY <1>10 DEF Contents!syncServerContents, Contents!BeginOnly
  <2> QED BY <1>0, <2>1, <2>2, ContentsBegin
<1>11. ASSUME NEW b \in Backups, Contents!backupsChanged(b)
       PROVE  ContentsInv' /\ \A c \in Backups : Contents!Held(c) => folder'[c] # "absent"
  <2>1. <<>> \in Seq(Contents!Entries) OBVIOUS
  <2>2. folder' = [folder EXCEPT ![b] = "off"] /\ folder' \in Lists
    BY <1>11 DEF Contents!backupsChanged, Lists
  <2>3. ContentsInv'
    BY <1>11, <2>1, <2>2, ContentsBegin DEF Contents!backupsChanged
  <2> QED BY <2>2, <2>3 DEF Contents!Held, Lists
<1> QED BY <1>0, <1>3, <1>4, <1>5, <1>6, <1>7, <1>8, <1>9, <1>10, <1>11

\* One entry done: a backup goes only if it was listed when the job was begun.
LEMMA ContentsWork ==
    ASSUME ContentsInv, NEW j \in jobs, Contents!Step(j)
    PROVE  /\ ContentsInv'
           /\ \A b \in Backups : Contents!Held(b) /\ folder'[b] = "absent" =>
                 j.kind = "delete" /\ j.from[b] # "absent"
<1> DEFINE e == Head(j.todo)
<1> PICK k : k = [j EXCEPT !.todo = Tail(j.todo)] OBVIOUS
<1>1. /\ j \in Jobs /\ JobShaped(j) /\ folder \in Lists /\ list \in Lists
      /\ j.todo # <<>> /\ j.todo \in Seq(Contents!Entries)
  BY DEF ContentsInv, ContentsTypeOK, Jobs, Contents!Step
<1>2. /\ e \in Contents!Entries /\ e = j.todo[1] /\ 1 \in DOMAIN j.todo
      /\ Tail(j.todo) \in Seq(Contents!Entries)
      /\ \A i \in DOMAIN Tail(j.todo) : i + 1 \in DOMAIN j.todo /\ Tail(j.todo)[i] = j.todo[i + 1]
  BY <1>1
<1>3. /\ folder' = [folder EXCEPT ![e] = Contents!Result(j.kind)]
      /\ jobs' = (jobs \ {j}) \union {k}
      /\ UNCHANGED <<clicks, list, reads, shownAt, needed>>
  BY DEF Contents!Step, Contents!Replace, Contents!Waits
<1> HIDE DEF e
<1>4. /\ k \in Jobs /\ k.alone = j.alone /\ k.kind = j.kind /\ k.of = j.of /\ k.lock = j.lock
      /\ k.todo = Tail(j.todo) /\ k.from = j.from /\ k.read = j.read /\ k.saw = j.saw
  BY <1>1, <1>2 DEF Jobs
<1>5. j.read = 0 /\ j.kind # "scan"
  BY <1>1, <1>2 DEF JobShaped, Contents!Step, Jobs
<1>6. /\ Contents!Result(j.kind) \in {"absent", "off", "on"}
      /\ Contents!Result(j.kind) = "absent" <=> j.kind = "delete"
      /\ j.kind \in {"on", "off"} => Contents!Result(j.kind) = j.kind
  BY <1>1, <1>5 DEF Contents!Result, Jobs
<1>7. ContentsTypeOK'
  BY <1>2, <1>3, <1>4, <1>6 DEF ContentsInv, ContentsTypeOK, Lists
<1>8. JobShaped(k)
  BY <1>1, <1>2, <1>4, <1>5 DEF JobShaped, Contents!isLockSwitch
<1>9. ReadsOrdered'
  BY <1>3, <1>4, <1>5, ZenonT(40) DEF ContentsInv, ReadsOrdered
<1>10. AloneKnows'
  <2>1. ASSUME k.alone, Contents!isLockSwitch(k)
        PROVE  jobs' = {k} /\ (reads >= needed => shownAt = reads /\ k.from = list
                                                   /\ folder' = Told(k))
    <3>1. j.alone /\ Contents!isLockSwitch(j) BY <1>4, <2>1 DEF Contents!isLockSwitch
    <3>2. /\ jobs = {j}
          /\ reads >= needed => shownAt = reads /\ j.from = list /\ folder = Told(j)
      BY <3>1 DEF ContentsInv, AloneKnows
    <3>3. k.todo = <<>> /\ e = Head(j.of) BY <1>1, <1>2, <1>4, <3>1 DEF JobShaped, e
    <3> QED BY <1>1, <1>3, <1>4, <1>6, <3>1, <3>2, <3>3 DEF Told, Contents!isLockSwitch
  <2>2. ASSUME NEW h \in jobs, h # j, h.alone, Contents!isLockSwitch(h) PROVE FALSE
    BY <2>2 DEF ContentsInv, AloneKnows
  <2> QED BY <1>3, <2>1, <2>2 DEF AloneKnows, Told
<1>11. LastScanSaw'
  BY <1>3, <1>4, <1>5 DEF LastScanSaw
<1>12. \A b \in Backups : Contents!Held(b) /\ folder'[b] = "absent" =>
          j.kind = "delete" /\ j.from[b] # "absent"
  <2>1. ASSUME NEW b \in Backups, Contents!Held(b), folder'[b] = "absent"
        PROVE  b = e /\ j.kind = "delete"
    BY <1>1, <1>2, <1>3, <1>6, <2>1 DEF Contents!Held, Lists, Contents!Entries
  <2> QED BY <1>1, <1>2, <2>1 DEF JobShaped
<1>13. \A h \in jobs' : JobShaped(h)
  BY <1>3, <1>8 DEF ContentsInv
<1> QED BY <1>7, <1>9, <1>10, <1>11, <1>12, <1>13 DEF ContentsInv, JobShaped,
   Contents!isLockSwitch

\* A job that is removed leaves what is left in order.
LEMMA ContentsEnd ==
    ASSUME ContentsInv, NEW j \in jobs, Contents!End(j), list' \in Lists,
           UNCHANGED <<folder, clicks, reads>>, shownAt' \in Nat, needed' \in Nat,
           shownAt' \in {shownAt, j.read}, shownAt' <= reads,
           list' # list => \A k \in jobs : k.alone /\ Contents!isLockSwitch(k) => k = j
    PROVE  ContentsTypeOK' /\ ReadsOrdered' /\ (\A k \in jobs' : JobShaped(k))
           /\ (shownAt' = shownAt /\ needed' = needed => AloneKnows')
           /\ (needed' = reads' + 1 => AloneKnows')
<1>1. jobs' = jobs \ {j} BY DEF Contents!End
<1>2. ContentsTypeOK' BY <1>1 DEF ContentsInv, ContentsTypeOK
<1>3. ReadsOrdered'
  <2>1. ASSUME NEW k \in jobs', k.read # 0 PROVE k.read <= reads' /\ k.read # shownAt'
    BY <1>1, <2>1 DEF ContentsInv, ReadsOrdered
  <2> QED BY <1>1, <2>1 DEF ContentsInv, ReadsOrdered
<1>4. \A k \in jobs' : JobShaped(k) BY <1>1 DEF ContentsInv
<1>5. \A k \in jobs' : k.alone /\ Contents!isLockSwitch(k) => FALSE
  BY <1>1 DEF ContentsInv, AloneKnows
<1>6. AloneKnows' BY <1>5 DEF AloneKnows, Contents!isLockSwitch
<1> QED BY <1>2, <1>3, <1>4, <1>6

LEMMA ContentsJobs ==
    ASSUME ContentsInv, NEW j \in jobs,
           \/ Contents!Fail(j) \/ Contents!WriteCaptured(j) \/ Contents!scanServerContents(j)
           \/ Contents!ScanLands(j)
    PROVE  ContentsInv' /\ folder' = folder
<1>0. /\ j \in Jobs /\ JobShaped(j) /\ folder \in Lists /\ list \in Lists
      /\ reads \in Nat /\ shownAt \in Nat /\ needed \in Nat /\ j.read \in Nat /\ shownAt <= reads
  BY DEF ContentsInv, ContentsTypeOK, Jobs, ReadsOrdered
<1>1. CASE Contents!Fail(j)
  <2>1. /\ Contents!End(j) /\ needed' = reads + 1 /\ UNCHANGED <<folder, list, clicks, reads, shownAt>>
    BY <1>1 DEF Contents!Fail, Contents!Rescanned
  <2>2. LastScanSaw' BY <1>0, <2>1 DEF LastScanSaw
  <2>3. ContentsTypeOK' /\ ReadsOrdered' /\ (\A k \in jobs' : JobShaped(k)) /\ AloneKnows'
    BY <1>0, <2>1, ContentsEnd
  <2> QED BY <2>1, <2>2, <2>3 DEF ContentsInv, JobShaped, Contents!isLockSwitch
<1>2. CASE Contents!WriteCaptured(j)
  <2>1. /\ Contents!End(j) /\ jobs' = jobs \ {j} /\ UNCHANGED <<folder, clicks, reads, shownAt>>
        /\ needed' = IF j.alone THEN needed ELSE reads + 1
        /\ Contents!isLockSwitch(j) /\ j.todo = <<>>
        /\ list' = [e \in Contents!Entries |->
                       IF e \in Items THEN list[e]
                       ELSE IF e = Head(j.of) THEN j.kind ELSE j.from[e]]
    BY <1>2 DEF Contents!WriteCaptured, Contents!Rescanned, Contents!End
  <2>2. list' \in Lists
    BY <1>0, <2>1 DEF Lists, Jobs, Contents!isLockSwitch, Contents!Entries
  <2>3. ContentsTypeOK' /\ ReadsOrdered' /\ (\A k \in jobs' : JobShaped(k)) /\ AloneKnows'
    <3>1. CASE \A k \in jobs : k.alone /\ Contents!isLockSwitch(k) => k = j
      BY <1>0, <2>1, <2>2, <3>1, ContentsEnd
    <3>2. CASE ~\A k \in jobs : k.alone /\ Contents!isLockSwitch(k) => k = j
      BY <3>2 DEF ContentsInv, AloneKnows
    <3> QED BY <3>1, <3>2
  <2>4. LastScanSaw'
    <3>1. CASE ~j.alone BY <1>0, <2>1, <3>1 DEF LastScanSaw
    <3>2. CASE j.alone /\ reads >= needed
      <4>1. jobs = {j} /\ shownAt = reads /\ j.from = list /\ folder = Told(j)
        BY <2>1, <3>2 DEF ContentsInv, AloneKnows
      <4>2. Head(j.of) \in Backups /\ Head(j.of) \notin Items /\ Head(j.of) \in Contents!Entries
        BY <1>0, <2>1, ContentsAssumption DEF JobShaped, Contents!Entries
      <4>3. list' = folder
        BY <1>0, <2>1, <4>1, <4>2 DEF Told, Lists
      <4> QED BY <2>1, <4>1, <4>3 DEF LastScanSaw
    <3>3. CASE j.alone /\ ~(reads >= needed) BY <2>1, <3>3 DEF LastScanSaw
    <3> QED BY <3>1, <3>2, <3>3
  <2> QED BY <2>1, <2>3, <2>4 DEF ContentsInv, JobShaped, Contents!isLockSwitch
<1>3. CASE Contents!scanServerContents(j)
  <2> PICK k : k = [j EXCEPT !.read = reads + 1, !.saw = folder] OBVIOUS
  <2>1. /\ reads' = reads + 1 /\ jobs' = (jobs \ {j}) \union {k} /\ j.todo = <<>> /\ j.read = 0
        /\ ~Contents!isLockSwitch(j)
        /\ UNCHANGED <<folder, list, shownAt, needed, clicks>>
    BY <1>3 DEF Contents!scanServerContents, Contents!Replace, Contents!Waits
  <2>2. /\ k \in Jobs /\ k.read = reads + 1 /\ k.saw = folder /\ k.todo = j.todo /\ k.kind = j.kind
        /\ k.lock = j.lock /\ k.of = j.of /\ k.from = j.from
    <3> PICK h : h = [j EXCEPT !.read = reads + 1] OBVIOUS
    <3>1. h \in Jobs /\ h.read = reads + 1 /\ h.todo = j.todo /\ h.kind = j.kind /\ h.lock = j.lock
          /\ h.of = j.of /\ h.from = j.from
      BY <1>0 DEF Jobs
    <3>2. k = [h EXCEPT !.saw = folder] OBVIOUS
    <3> QED BY <1>0, <3>1, <3>2 DEF Jobs
  <2>3. JobShaped(k) /\ ~Contents!isLockSwitch(k)
    BY <1>0, <2>1, <2>2 DEF JobShaped, Contents!isLockSwitch
  <2>4. ContentsTypeOK' BY <1>0, <2>1, <2>2 DEF ContentsInv, ContentsTypeOK
  <2>5. ReadsOrdered'
    <3>1. \A h \in jobs : h.read # 0 => h.read <= reads /\ h.read # reads + 1 /\ h.read # shownAt
      BY <1>0 DEF ContentsInv, ReadsOrdered, ContentsTypeOK, Jobs
    <3>2. \A h, i \in jobs : h.read = i.read /\ h.read # 0 => h = i
      BY DEF ContentsInv, ReadsOrdered
    <3>3. \A h \in jobs : h.read \in Nat BY DEF ContentsInv, ContentsTypeOK, Jobs
    <3>4. shownAt' <= reads' BY <1>0, <2>1
    <3>5. \A h \in jobs' : h.read # 0 => h.read <= reads' /\ h.read # shownAt'
      <4>1. \A h \in jobs : h.read # 0 => h.read <= reads' /\ h.read # shownAt'
        BY <1>0, <2>1, <3>1, <3>3
      <4>2. k.read <= reads' /\ k.read # shownAt' BY <1>0, <2>1, <2>2
      <4> QED BY <2>1, <4>1, <4>2
    <3>6. \A h, i \in jobs' : h.read = i.read /\ h.read # 0 => h = i
      <4>1. \A h \in jobs : h.read # 0 => h.read # k.read BY <2>2, <3>1
      <4>2. \A h, i \in jobs : h.read = i.read /\ h.read # 0 => h = i BY <3>2
      <4>3. \A h \in jobs' : h = k \/ h \in jobs BY <2>1
      <4> QED BY <2>2, <4>1, <4>2, <4>3
    <3> QED BY <3>4, <3>5, <3>6 DEF ReadsOrdered
  <2>6. AloneKnows'
    <3>1. ASSUME NEW h \in jobs, h # j, h.alone, Contents!isLockSwitch(h) PROVE FALSE
      BY <3>1 DEF ContentsInv, AloneKnows
    <3> QED BY <2>1, <2>3, <3>1 DEF AloneKnows, Contents!isLockSwitch
  <2>7. LastScanSaw' BY <2>1, <2>2 DEF LastScanSaw
  <2>8. \A h \in jobs' : JobShaped(h) BY <2>1, <2>3 DEF ContentsInv
  <2> QED BY <2>1, <2>4, <2>5, <2>6, <2>7, <2>8 DEF ContentsInv, JobShaped,
     Contents!isLockSwitch
<1>4. CASE Contents!ScanLands(j)
  <2>1. /\ j.read # 0 /\ list' = j.saw /\ shownAt' = j.read /\ Contents!End(j) /\ jobs' = jobs \ {j}
        /\ needed' = IF j.read < shownAt THEN reads + 1 ELSE needed
        /\ UNCHANGED <<folder, clicks, reads>>
    BY <1>4 DEF Contents!ScanLands, Contents!Rescanned, Contents!End
  <2>2. list' \in Lists BY <1>0, <2>1 DEF Jobs
  <2>3. j.read <= reads /\ j.read # shownAt
        /\ \A k \in jobs : k.read = j.read => k = j
    BY <2>1 DEF ContentsInv, ReadsOrdered
  <2>4. ~Contents!isLockSwitch(j) BY <1>0, <2>1 DEF JobShaped
  <2>5. \A k \in jobs : ~(k.alone /\ Contents!isLockSwitch(k))
    BY <2>4 DEF ContentsInv, AloneKnows
  <2>6. ContentsTypeOK' /\ ReadsOrdered' /\ (\A k \in jobs' : JobShaped(k))
    BY <1>0, <2>1, <2>2, <2>3, <2>5, ContentsEnd
  <2>7. AloneKnows' BY <2>1, <2>5 DEF AloneKnows, Contents!isLockSwitch
  <2>8. LastScanSaw'
    <3>1. CASE j.read < shownAt BY <1>0, <2>1, <3>1 DEF LastScanSaw
    <3>2. CASE ~(j.read < shownAt)
      <4>1. shownAt # reads BY <1>0, <2>3, <3>2
      <4>2. SUFFICES ASSUME \A k \in jobs' : k.read # 0, reads' >= needed'
                     PROVE  \/ \E k \in jobs' : k.read = reads' /\ k.saw = folder'
                            \/ shownAt' = reads' /\ list' = folder'
        BY DEF LastScanSaw
      <4>3. (\A k \in jobs : k.read # 0) /\ reads >= needed BY <2>1, <3>2, <4>2
      <4>4. PICK k \in jobs : k.read = reads /\ k.saw = folder
        BY <4>1, <4>3 DEF ContentsInv, LastScanSaw
      <4>5. CASE k = j BY <2>1, <4>4, <4>5
      <4>6. CASE k # j BY <2>1, <4>4, <4>6
      <4> QED BY <4>5, <4>6
    <3> QED BY <3>1, <3>2
  <2> QED BY <2>1, <2>6, <2>7, <2>8 DEF ContentsInv, JobShaped, Contents!isLockSwitch
<1> QED BY <1>1, <1>2, <1>3, <1>4

LEMMA ContentsStep ==
    ASSUME ContentsInv, [Contents!ContentNext]_contentVars
    PROVE  /\ ContentsInv'
           /\ \A b \in Backups : Contents!Held(b) /\ folder'[b] = "absent" =>
                 \E j \in jobs : j.kind = "delete" /\ j.from[b] # "absent"
<1>1. CASE UNCHANGED contentVars
  BY <1>1
     DEF contentVars, Contents!Held, ContentsInv, ContentsTypeOK, JobShaped, ReadsOrdered, AloneKnows,
         LastScanSaw, Told, Contents!isLockSwitch
<1>2. CASE Contents!leaveTab
  BY <1>2
     DEF Contents!leaveTab, Contents!Held, ContentsInv, ContentsTypeOK, JobShaped, ReadsOrdered,
         AloneKnows, LastScanSaw, Told, Contents!isLockSwitch
<1>3. ASSUME NEW j \in jobs,
             \/ Contents!Fail(j) \/ Contents!WriteCaptured(j) \/ Contents!scanServerContents(j)
             \/ Contents!ScanLands(j)
      PROVE  ContentsInv' /\ \A b \in Backups : Contents!Held(b) => folder'[b] # "absent"
  BY <1>3, ContentsJobs DEF Contents!Held
<1>4. ASSUME NEW j \in jobs, Contents!Step(j)
      PROVE  /\ ContentsInv'
             /\ \A b \in Backups : Contents!Held(b) /\ folder'[b] = "absent" =>
                   j.kind = "delete" /\ j.from[b] # "absent"
  BY <1>4, ContentsWork
<1> QED BY <1>1, <1>2, <1>3, <1>4, ContentsClicks DEF Contents!ContentNext

\* With nothing in flight the page lists what the directory holds, for any backups
\* and items and however many handlers and scans overlapped before, unless what
\* went wrong since the last scan is still to be made up for.
THEOREM WindowQuietListIsTrue == Spec => []QuietListIsTrue
<1>1. ContentsInv => QuietListIsTrue
  BY DEF ContentsInv, ContentsTypeOK, ReadsOrdered, LastScanSaw, QuietListIsTrue,
         Contents!QuietListIsTrue
<1>2. Init => ContentsInv BY ContentsStart
<1>3. ContentsInv /\ [Next]_vars => ContentsInv' BY WindowStep, ContentsStep
<1> QED BY <1>1, <1>2, <1>3, PTL DEF Spec

--------------------------------------------------------------------------------
(* What is never done without asking.                                           *)

\* A typed draft goes only for a touch, a save or a change of what is saved.
LEMMA TypingStays ==
    ASSUME SettingsInv, [Settings!SettingsNext]_settingsVars
    PROVE  [form' # form => \/ touches' # touches
                            \/ saving' # saving
                            \/ Settings!buildSettingsFormFromServer(shown')
                                  # Settings!buildSettingsFormFromServer(shown)]_settingsVars
<1> DEFINE Because == \/ touches' # touches
                      \/ saving' # saving
                      \/ Settings!buildSettingsFormFromServer(shown')
                            # Settings!buildSettingsFormFromServer(shown)
<1> SUFFICES form' = form \/ Because OBVIOUS
<1>1. touches \in Nat BY DEF SettingsInv, SettingsTypeOK
<1>2. Settings!Touch => Because BY <1>1 DEF Settings!Touch
<1>3. ASSUME NEW s, NEW f, Settings!updateServer(s, f) PROVE form' = f \/ Because
  BY <1>3 DEF Settings!updateServer, Settings!resetToBaseline
<1>4. CASE \/ Settings!updateSettingsField \/ Settings!handleProviderJarDownloaded
           \/ Settings!handleResetSettingsForm \/ Settings!handleSaveSettings
           \/ Settings!runUpdate \/ Settings!handleManualSync \/ Settings!StartOrStop
  BY <1>2, <1>4
     DEF Settings!updateSettingsField, Settings!handleProviderJarDownloaded,
         Settings!handleResetSettingsForm, Settings!handleSaveSettings, Settings!runUpdate,
         Settings!handleManualSync, Settings!StartOrStop
<1>5. ASSUME NEW w, Settings!SaveReturns(w) PROVE Because
  BY <1>5 DEF Settings!SaveReturns
<1>6. ASSUME NEW w, Settings!UpdateReturns(w) PROVE form' = form \/ Because
  BY <1>3, <1>6 DEF Settings!UpdateReturns
<1>7. CASE Settings!SyncReturns BY <1>3, <1>7 DEF Settings!SyncReturns
<1>8. CASE Settings!TelemetrySample BY <1>3, <1>8 DEF Settings!TelemetrySample
<1>9. CASE UNCHANGED settingsVars BY <1>9 DEF settingsVars
<1> HIDE DEF Because
<1> QED BY <1>4, <1>5, <1>6, <1>7, <1>8, <1>9 DEF Settings!SettingsNext

\* Nothing of the user's goes unasked, for any roots, backups, settings and number
\* of clicks: a networks.json that cannot be read stays as it is, Clear All spares
\* what it did not list, and what was typed stays through samples and statuses.
THEOREM WindowNothingGoesUnasked == Spec => NothingGoesUnasked
<1> DEFINE Inv == NetworksInv /\ ContentsInv /\ SettingsInv
<1>1. Init => Inv BY NetworksStart, ContentsStart, SettingsStarts
<1>2. Inv /\ [Next]_vars => Inv' BY WindowStep, NetworksStep, ContentsStep, SettingsStep
<1>3. Inv /\ [Next]_vars =>
        [\A r \in Roots : onDisk[r] = Networks!Broken => onDisk'[r] = Networks!Broken]_(Networks!networksVars)
  BY WindowStep, NetworksStep DEF networksVars, Networks!networksVars
<1>4. Inv /\ [Next]_vars =>
        [\A b \in Backups : Contents!Held(b) /\ folder'[b] = "absent" =>
            \E j \in jobs : j.kind = "delete" /\ j.from[b] # "absent"]_(Contents!contentVars)
  BY WindowStep, ContentsStep DEF contentVars, Contents!contentVars
<1>5. Inv /\ [Next]_vars =>
        [form' # form => \/ touches' # touches
                         \/ saving' # saving
                         \/ Settings!buildSettingsFormFromServer(shown')
                               # Settings!buildSettingsFormFromServer(shown)]_(Settings!settingsVars)
  BY WindowStep, TypingStays DEF settingsVars, Settings!settingsVars
<1> HIDE DEF Inv
<1> QED
  BY <1>1, <1>2, <1>3, <1>4, <1>5, PTL
     DEF Spec, NothingGoesUnasked, Networks!UnreadableFileIsKept,
         Contents!ClearsOnlyWhatWasListed, Settings!TypingSurvives

--------------------------------------------------------------------------------
(* The list of servers.                                                         *)

\* A server of the list has the id of its folder.
Known  == {s \in [dir : Dirs, id : Nat, config : Configs] : s.id = Listing!Ids[s.dir]}
Nobody == Listing!Server("none", 0, 0)

\* The servers the sweep has yet to compare with their mserve.json.
Due == sweep.todo \union (IF sweep.at = "none" THEN {} ELSE {sweep.server})

\* A request of the sweep's, or of an import's, that the dialog has not answered.
Waiting(who) == repair.active = who \/ \E i \in DOMAIN repair.queue : repair.queue[i] = who

OncePerFolder(S) == \A s, t \in S : s.dir = t.dir => s = t

StoreTypeOK ==
    /\ disk \in [Dirs -> [id : Nat, config : Configs, valid : BOOLEAN]]
    /\ \A d \in Dirs : disk[d].id = Listing!Ids[d]
    /\ store \subseteq Known /\ saved \subseteq Known
    /\ sweep \in [todo : SUBSET Known, at : {"none", "asked", "prompt", "read"},
                  server : Known \union {Nobody}, read : Configs \union {0}]
    /\ sweep.at # "none" => sweep.server \in Known
    /\ sweep.at = "read" => sweep.read \in Configs
    /\ import \in [dir : Dirs \union {"none"}, at : {"none", "asked", "prompt"}]
    /\ import.at # "none" => import.dir \in Dirs
    /\ OncePerFolder(store) /\ OncePerFolder(saved)

DialogTyped ==
    /\ repair \in [queue : Seq({"sweep", "import"}), active : {"none", "sweep", "import"}]
    /\ \A i \in DOMAIN repair.queue : repair.queue[i] # repair.active
    /\ \A i, k \in DOMAIN repair.queue : repair.queue[i] = repair.queue[k] => i = k

\* Who waits for the dialog asked for it once, and stands still.
DialogInv ==
    /\ DialogTyped
    /\ Waiting("sweep") => sweep.at = "prompt"
    /\ Waiting("import") => import.at = "prompt"

NotLoaded == ~isReady => /\ store = {} /\ sweep = Listing!NoSweep
                         /\ import = Listing!NoImport /\ repair = Listing!NoRepair

\* What the sweep has read is what the file says.
ReadIsTrue ==
    sweep.at = "read" =>
        /\ disk[sweep.server.dir].valid
        /\ sweep.server.dir \in excused \/ sweep.read = disk[sweep.server.dir].config

\* A server of the list is what its file says, or as it was loaded and still due.
TrueOrDue ==
    \A s \in store : \/ s.dir \in excused \/ s.config = disk[s.dir].config
                     \/ \E t \in Due : t.dir = s.dir /\ t.config = s.config

\* Over a file that is broken nobody has edited the server.
BrokenIsAsLoaded ==
    \A t \in Due : ~disk[t.dir].valid =>
        \A s \in store : s.dir = t.dir => s.config = t.config

ListInv ==
    /\ StoreTypeOK /\ DialogInv /\ NotLoaded /\ ReadIsTrue /\ TrueOrDue /\ BrokenIsAsLoaded
    /\ Listing!PersistedServersSurvive

\* Ids, chosen by the model, does number the folders.
LEMMA IdsTellApart ==
    /\ Listing!Ids \in [Dirs -> Nat]
    /\ \A c, d \in Dirs : Listing!Ids[c] = Listing!Ids[d] => c = d
<1> DEFINE n == Cardinality(Dirs)
<1>1. n \in Nat /\ ExistsBijection(1..n, Dirs) BY ListAssumption, FS_CardinalityType
<1>2. PICK f : f \in Bijection(1..n, Dirs) BY <1>1 DEF ExistsBijection
<1>3. /\ f \in [1..n -> Dirs] /\ \A d \in Dirs : \E i \in 1..n : f[i] = d
  BY <1>2 DEF Bijection, Injection, Surjection, IsInjective
<1> DEFINE g == [d \in Dirs |-> CHOOSE i \in 1..n : f[i] = d]
<1>4. g \in [Dirs -> 1..n] /\ \A d \in Dirs : f[g[d]] = d BY <1>3
<1>5. \A c, d \in Dirs : g[c] = g[d] => c = d BY <1>4
<1> HIDE DEF g
<1>6. Listing!Cardinality(Dirs) = n BY DEF Listing!Cardinality, Cardinality
<1> HIDE DEF n
<1>7. /\ Listing!Ids \in [Dirs -> 1..n]
      /\ \A c, d \in Dirs : Listing!Ids[c] = Listing!Ids[d] => c = d
  BY <1>4, <1>5, <1>6 DEF Listing!Ids
<1> QED BY <1>1, <1>7

LEMMA ListStarts == ASSUME Init PROVE ListInv
<1>1. Listing!StoreInit BY DEF Init
<1>2. PICK found \in [Dirs -> [config : Configs, valid : BOOLEAN]] :
         disk = [d \in Dirs |-> [id |-> Listing!Ids[d], config |-> found[d].config,
                                 valid |-> found[d].valid]]
  BY <1>1 DEF Listing!StoreInit
<1>3. PICK known \in SUBSET Dirs, was \in Configs :
         saved = {Listing!Server(d, Listing!Ids[d], was) : d \in known}
  BY <1>1 DEF Listing!StoreInit
<1>4. /\ disk \in [Dirs -> [id : Nat, config : Configs, valid : BOOLEAN]]
      /\ \A d \in Dirs : disk[d].id = Listing!Ids[d]
  BY <1>2, IdsTellApart
<1>5. saved \subseteq Known /\ OncePerFolder(saved)
  BY <1>3, IdsTellApart DEF Listing!Server, Known, OncePerFolder
<1>6. /\ store = {} /\ isReady = FALSE /\ sweep = Listing!NoSweep /\ import = Listing!NoImport
      /\ repair = Listing!NoRepair /\ owed = Listing!DirsOf(saved)
  BY <1>1 DEF Listing!StoreInit
<1>7. StoreTypeOK
  BY <1>4, <1>5, <1>6 DEF StoreTypeOK, OncePerFolder, Listing!NoSweep, Listing!NoImport, Nobody
<1>8. DialogInv
  BY <1>6 DEF DialogInv, DialogTyped, Waiting, Listing!NoRepair
<1> QED
  BY <1>6, <1>7, <1>8
     DEF ListInv, NotLoaded, ReadIsTrue, TrueOrDue, BrokenIsAsLoaded, Listing!NoSweep,
         Listing!PersistedServersSurvive

\* A request is shown or queued once, and the others wait as they did.
LEMMA RequestsOnce ==
    ASSUME DialogTyped, NEW who \in {"sweep", "import"}, ~Waiting(who), Listing!Request(who)
    PROVE  /\ DialogTyped'
           /\ \A w \in {"sweep", "import"} : Waiting(w)' => Waiting(w) \/ w = who
<1> DEFINE W == {"sweep", "import"}
           q == Append(repair.queue, who)
           n == Len(repair.queue)
<1>1. /\ repair.queue \in Seq(W) /\ n \in Nat /\ DOMAIN repair.queue = 1..n
      /\ \A i \in 1..n : repair.queue[i] \in W /\ repair.queue[i] # who
  BY DEF DialogTyped, Waiting
<1>2. /\ q \in Seq(W) /\ Len(q) = n + 1 /\ DOMAIN q = 1..(n + 1) /\ q[n + 1] = who
      /\ \A i \in 1..n : q[i] = repair.queue[i]
  BY <1>1
<1>3. \A i, k \in DOMAIN q : q[i] = q[k] => i = k
  BY <1>1, <1>2 DEF DialogTyped
<1>4. CASE repair.active = "none"
  <2>1. /\ repair'.queue = Tail(q) /\ repair'.active = Head(q) /\ DOMAIN repair' = {"queue", "active"}
        /\ repair' = [queue |-> Tail(q), active |-> Head(q)]
    BY <1>4 DEF Listing!Request
  <2>2. /\ Tail(q) \in Seq(W) /\ Head(q) = q[1] /\ 1 \in DOMAIN q
        /\ \A i \in DOMAIN Tail(q) : i + 1 \in DOMAIN q /\ i + 1 # 1 /\ Tail(q)[i] = q[i + 1] /\ i \in Nat
    BY <1>2
  <2>3. Head(q) \in W BY <1>2, <2>2
  <2> HIDE DEF q
  <2>4. DialogTyped'
    <3>1. repair' \in [queue : Seq(W), active : {"none", "sweep", "import"}]
      BY <2>1, <2>2, <2>3
    <3>2. \A i \in DOMAIN repair'.queue : repair'.queue[i] # repair'.active
      BY <1>3, <2>1, <2>2
    <3>3. \A i, k \in DOMAIN repair'.queue : repair'.queue[i] = repair'.queue[k] => i = k
      BY <1>3, <2>1, <2>2
    <3> QED BY <3>1, <3>2, <3>3 DEF DialogTyped
  <2>5. \A w \in W : Waiting(w)' => \E i \in DOMAIN q : q[i] = w
    BY <2>1, <2>2 DEF Waiting
  <2> QED BY <1>2, <1>1, <2>4, <2>5 DEF Waiting
<1>5. CASE repair.active # "none"
  <2>1. repair' = [repair EXCEPT !.queue = q]
    BY <1>5 DEF Listing!Request
  <2>2. repair' \in [queue : Seq(W), active : {"none", "sweep", "import"}]
        /\ repair'.queue = q /\ repair'.active = repair.active
    BY <1>2, <2>1 DEF DialogTyped
  <2> HIDE DEF q
  <2>3. \A i \in DOMAIN q : q[i] # repair.active
    BY <1>1, <1>2 DEF DialogTyped, Waiting
  <2>4. DialogTyped' BY <1>3, <2>2, <2>3 DEF DialogTyped
  <2> QED BY <1>1, <1>2, <2>2, <2>4 DEF Waiting
<1> QED BY <1>4, <1>5

\* Who is answered waits no more.
LEMMA AnswersOnce ==
    ASSUME DialogTyped, Listing!closeWith
    PROVE  /\ DialogTyped'
           /\ \A w \in {"sweep", "import"} : Waiting(w)' => Waiting(w) /\ repair.active # w
<1>1. /\ repair' \in [queue : Seq({"sweep", "import"}), active : {"none", "sweep", "import"}]
      /\ repair'.queue = repair.queue /\ repair'.active = "none"
  BY DEF DialogTyped, Listing!closeWith
<1>2. \A i \in DOMAIN repair.queue : repair.queue[i] \in {"sweep", "import"}
  BY DEF DialogTyped
<1> QED BY <1>1, <1>2 DEF DialogTyped, Waiting

LEMMA ListLoads == ASSUME ListInv, Listing!loadServers PROVE ListInv'
<1>1. /\ isReady' /\ store' = saved /\ saved' = saved /\ disk' = disk /\ excused' = excused
      /\ owed' = owed /\ import' = import /\ repair' = repair
      /\ import = Listing!NoImport /\ repair = Listing!NoRepair
      /\ sweep' = [Listing!NoSweep EXCEPT !.todo = saved] /\ sweep = Listing!NoSweep
  BY DEF ListInv, NotLoaded, Listing!loadServers
<1>2. /\ sweep' = [todo |-> saved, at |-> "none", server |-> Nobody, read |-> 0]
      /\ Due' = saved
  BY <1>1 DEF Listing!NoSweep, Nobody, Due
<1>3. StoreTypeOK' BY <1>1, <1>2 DEF ListInv, StoreTypeOK, OncePerFolder
<1>4. DialogInv'
  BY <1>1, <1>2 DEF ListInv, DialogInv, DialogTyped, Waiting, Listing!NoRepair
<1>5. TrueOrDue' BY <1>1, <1>2 DEF TrueOrDue
<1>6. BrokenIsAsLoaded' BY <1>1, <1>2 DEF BrokenIsAsLoaded, ListInv, StoreTypeOK, OncePerFolder
<1>7. NotLoaded' /\ ReadIsTrue' BY <1>1, <1>2 DEF NotLoaded, ReadIsTrue
<1>8. Listing!PersistedServersSurvive'
  BY <1>1 DEF ListInv, Listing!PersistedServersSurvive, Listing!DirsOf
<1> QED BY <1>3, <1>4, <1>5, <1>6, <1>7, <1>8 DEF ListInv

LEMMA ListSaves == ASSUME ListInv, Listing!saveServers PROVE ListInv'
<1>1. /\ isReady /\ saved' = store /\ owed' = Listing!DirsOf(store)
      /\ UNCHANGED <<disk, store, isReady, sweep, import, repair, excused>>
  BY DEF Listing!saveServers
<1>2. Due' = Due BY <1>1 DEF Due
<1>3. StoreTypeOK' BY <1>1 DEF ListInv, StoreTypeOK, OncePerFolder
<1>4. DialogInv' BY <1>1 DEF ListInv, DialogInv, DialogTyped, Waiting
<1> QED BY <1>1, <1>2, <1>3, <1>4
        DEF ListInv, NotLoaded, ReadIsTrue, TrueOrDue, BrokenIsAsLoaded,
            Listing!PersistedServersSurvive, Listing!DirsOf

LEMMA ListRestarts == ASSUME ListInv, Listing!Restart PROVE ListInv'
<1>1. /\ ~isReady' /\ store' = {} /\ sweep' = Listing!NoSweep /\ import' = Listing!NoImport
      /\ repair' = Listing!NoRepair /\ UNCHANGED <<saved, owed>>
  BY DEF Listing!Restart
<1>2. PICK d \in Dirs, c \in Configs, v \in BOOLEAN :
         disk' = [disk EXCEPT ![d].config = c, ![d].valid = v]
  BY DEF Listing!Restart
<1>3. PICK mid : mid = [disk EXCEPT ![d].config = c] OBVIOUS
<1>4. /\ mid \in [Dirs -> [id : Nat, config : Configs, valid : BOOLEAN]]
      /\ \A e \in Dirs : mid[e].id = Listing!Ids[e]
      /\ disk' = [mid EXCEPT ![d].valid = v]
  BY <1>2, <1>3 DEF ListInv, StoreTypeOK
<1>5. /\ disk' \in [Dirs -> [id : Nat, config : Configs, valid : BOOLEAN]]
      /\ \A e \in Dirs : disk'[e].id = Listing!Ids[e]
  BY <1>4
<1>6. StoreTypeOK'
  BY <1>1, <1>5 DEF ListInv, StoreTypeOK, OncePerFolder, Listing!NoSweep, Listing!NoImport,
     Nobody
<1>7. DialogInv' BY <1>1 DEF DialogInv, DialogTyped, Waiting, Listing!NoRepair
<1> QED BY <1>1, <1>6, <1>7
        DEF ListInv, NotLoaded, ReadIsTrue, TrueOrDue, BrokenIsAsLoaded, Listing!NoSweep,
            Listing!PersistedServersSurvive, Listing!DirsOf

LEMMA SweepTakesTheNext == ASSUME ListInv, Listing!SweepNext PROVE ListInv'
<1>1. /\ sweep.at = "none"
      /\ UNCHANGED <<disk, store, saved, isReady, import, repair, owed, excused>>
  BY DEF Listing!SweepNext
<1>2. PICK s \in sweep.todo :
         sweep' = [sweep EXCEPT !.todo = @ \ {s}, !.at = "asked", !.server = s]
  BY DEF Listing!SweepNext
<1>3. /\ sweep'.todo = sweep.todo \ {s} /\ sweep'.at = "asked" /\ sweep'.server = s
      /\ sweep' = [todo |-> sweep.todo \ {s}, at |-> "asked", server |-> s, read |-> sweep.read]
      /\ s \in Known
  BY <1>2 DEF ListInv, StoreTypeOK
<1>4. Due' = Due BY <1>1, <1>2, <1>3 DEF Due
<1>5. StoreTypeOK' BY <1>1, <1>3 DEF ListInv, StoreTypeOK, OncePerFolder
<1>6. DialogInv' BY <1>1, <1>3 DEF ListInv, DialogInv, DialogTyped, Waiting
<1>7. isReady BY <1>2 DEF ListInv, NotLoaded, Listing!NoSweep
<1> QED BY <1>1, <1>3, <1>4, <1>5, <1>6, <1>7
        DEF ListInv, NotLoaded, ReadIsTrue, TrueOrDue, BrokenIsAsLoaded,
            Listing!PersistedServersSurvive, Listing!DirsOf

LEMMA SweepReadsAFile == ASSUME ListInv, Listing!SweepReads PROVE ListInv'
<1> DEFINE d == sweep.server.dir
<1>1. /\ sweep.at = "asked"
      /\ UNCHANGED <<disk, store, saved, isReady, import, owed, excused>>
  BY DEF Listing!SweepReads
<1>2. /\ sweep.server \in Known /\ d \in Dirs /\ disk[d].config \in Configs /\ isReady
      /\ ~Waiting("sweep")
  BY <1>1 DEF ListInv, StoreTypeOK, Known, NotLoaded, DialogInv, Listing!NoSweep
<1>3. CASE disk[d].valid
  <2>1. sweep' = [sweep EXCEPT !.at = "read", !.read = disk[d].config] /\ repair' = repair
    BY <1>3 DEF Listing!SweepReads
  <2>2. /\ sweep'.todo = sweep.todo /\ sweep'.at = "read" /\ sweep'.server = sweep.server
        /\ sweep'.read = disk[d].config
        /\ sweep' = [todo |-> sweep.todo, at |-> "read", server |-> sweep.server,
                     read |-> disk[d].config]
    BY <2>1 DEF ListInv, StoreTypeOK
  <2>3. Due' = Due BY <1>1, <2>2 DEF Due
  <2>4. StoreTypeOK' BY <1>1, <1>2, <2>2 DEF ListInv, StoreTypeOK, OncePerFolder
  <2>5. DialogInv' BY <1>1, <1>2, <2>1 DEF ListInv, DialogInv, DialogTyped, Waiting
  <2>6. ReadIsTrue' BY <1>1, <1>3, <2>2 DEF ReadIsTrue
  <2> QED BY <1>1, <1>2, <2>3, <2>4, <2>5, <2>6
          DEF ListInv, NotLoaded, TrueOrDue, BrokenIsAsLoaded,
              Listing!PersistedServersSurvive, Listing!DirsOf
<1>4. CASE ~disk[d].valid
  <2>1. sweep' = [sweep EXCEPT !.at = "prompt"] /\ Listing!Request("sweep")
    BY <1>4 DEF Listing!SweepReads
  <2>2. /\ sweep'.todo = sweep.todo /\ sweep'.at = "prompt" /\ sweep'.server = sweep.server
        /\ sweep' = [todo |-> sweep.todo, at |-> "prompt", server |-> sweep.server,
                     read |-> sweep.read]
    BY <2>1 DEF ListInv, StoreTypeOK
  <2>3. Due' = Due BY <1>1, <2>2 DEF Due
  <2>4. StoreTypeOK' BY <1>1, <1>2, <2>2 DEF ListInv, StoreTypeOK, OncePerFolder
  <2>5. DialogInv' BY <1>1, <1>2, <2>1, <2>2, RequestsOnce DEF ListInv, DialogInv
  <2> QED BY <1>1, <1>2, <2>2, <2>3, <2>4, <2>5
          DEF ListInv, NotLoaded, ReadIsTrue, TrueOrDue, BrokenIsAsLoaded,
              Listing!PersistedServersSurvive, Listing!DirsOf
<1> QED BY <1>3, <1>4

\* Only a loaded list has a sweep or an import that waits for the dialog.
LEMMA AskedIsLoaded ==
    ASSUME ListInv, repair.active # "none"
    PROVE  /\ isReady
           /\ repair.active = "sweep" => sweep.at = "prompt"
           /\ repair.active = "import" => import.at = "prompt" /\ import.dir \in Dirs
BY DEF ListInv, NotLoaded, DialogInv, Waiting, Listing!NoRepair, StoreTypeOK

LEMMA SweepRebuildsAFile == ASSUME ListInv, Listing!SweepRebuilds PROVE ListInv'
<1> DEFINE d == sweep.server.dir
           c == sweep.server.config
<1>1. /\ repair.active = "sweep" /\ sweep.at = "prompt" /\ Listing!closeWith /\ isReady
      /\ sweep' = [sweep EXCEPT !.at = "read", !.read = c]
      /\ excused' = IF disk[d].valid THEN excused \union {d} ELSE excused
      /\ UNCHANGED <<store, saved, isReady, import, owed>>
  BY AskedIsLoaded DEF Listing!SweepRebuilds
<1>2. sweep.server \in Known /\ d \in Dirs /\ c \in Configs
  BY <1>1 DEF ListInv, StoreTypeOK, Known
<1>3. PICK mid : mid = [disk EXCEPT ![d].config = c] OBVIOUS
<1>4. /\ mid \in [Dirs -> [id : Nat, config : Configs, valid : BOOLEAN]]
      /\ \A e \in Dirs : mid[e].id = Listing!Ids[e] /\ (e # d => mid[e] = disk[e])
      /\ mid[d].config = c /\ disk' = [mid EXCEPT ![d].valid = TRUE]
  BY <1>2, <1>3 DEF ListInv, StoreTypeOK, Listing!SweepRebuilds
<1>5. /\ disk' \in [Dirs -> [id : Nat, config : Configs, valid : BOOLEAN]]
      /\ \A e \in Dirs : disk'[e].id = Listing!Ids[e] /\ (e # d => disk'[e] = disk[e])
      /\ disk'[d].config = c /\ disk'[d].valid
  BY <1>2, <1>4
<1>6. /\ sweep'.todo = sweep.todo /\ sweep'.at = "read" /\ sweep'.server = sweep.server
      /\ sweep'.read = c
      /\ sweep' = [todo |-> sweep.todo, at |-> "read", server |-> sweep.server, read |-> c]
  BY <1>1 DEF ListInv, StoreTypeOK
<1>7. Due' = Due /\ sweep.server \in Due BY <1>1, <1>6 DEF Due
<1>8. StoreTypeOK' BY <1>1, <1>2, <1>5, <1>6 DEF ListInv, StoreTypeOK, OncePerFolder
<1>9. DialogInv' BY <1>1, AnswersOnce DEF ListInv, DialogInv
<1>10. ReadIsTrue' BY <1>5, <1>6 DEF ReadIsTrue
<1>11. TrueOrDue'
  <2> SUFFICES ASSUME NEW s \in store
               PROVE  \/ s.dir \in excused' \/ s.config = disk'[s.dir].config
                      \/ \E t \in Due : t.dir = s.dir /\ t.config = s.config
    BY <1>1, <1>7 DEF TrueOrDue
  <2>1. s.dir \in Dirs BY DEF ListInv, StoreTypeOK, Known
  <2>2. CASE s.dir = d
    BY <1>1, <1>5, <1>7, <2>2 DEF ListInv, BrokenIsAsLoaded
  <2>3. CASE s.dir # d BY <1>1, <1>5, <2>1, <2>3 DEF ListInv, TrueOrDue
  <2> QED BY <2>2, <2>3
<1>12. BrokenIsAsLoaded'
  <2> SUFFICES ASSUME NEW t \in Due, ~disk'[t.dir].valid, NEW s \in store, s.dir = t.dir
               PROVE  s.config = t.config
    BY <1>1, <1>7 DEF BrokenIsAsLoaded
  <2>1. t.dir # d /\ s.dir \in Dirs BY <1>5 DEF ListInv, StoreTypeOK, Known
  <2> QED BY <1>5, <2>1 DEF ListInv, BrokenIsAsLoaded
<1> QED BY <1>1, <1>8, <1>9, <1>10, <1>11, <1>12
        DEF ListInv, NotLoaded, Listing!PersistedServersSurvive, Listing!DirsOf

LEMMA SweepSkipsAFile == ASSUME ListInv, Listing!SweepSkips PROVE ListInv'
<1> DEFINE d == sweep.server.dir
<1>1. /\ repair.active = "sweep" /\ sweep.at = "prompt" /\ Listing!closeWith /\ isReady
      /\ sweep' = [sweep EXCEPT !.at = "none"] /\ excused' = excused \union {d}
      /\ UNCHANGED <<disk, store, saved, isReady, import, owed>>
  BY AskedIsLoaded DEF Listing!SweepSkips
<1>2. /\ sweep'.todo = sweep.todo /\ sweep'.at = "none" /\ sweep'.server = sweep.server
      /\ sweep' = [todo |-> sweep.todo, at |-> "none", server |-> sweep.server,
                   read |-> sweep.read]
  BY <1>1 DEF ListInv, StoreTypeOK
<1>3. Due = Due' \union {sweep.server} BY <1>1, <1>2 DEF Due
<1>4. StoreTypeOK' BY <1>1, <1>2 DEF ListInv, StoreTypeOK, OncePerFolder
<1>5. DialogInv' BY <1>1, AnswersOnce DEF ListInv, DialogInv
<1>6. TrueOrDue' BY <1>1, <1>3 DEF ListInv, TrueOrDue
<1>7. BrokenIsAsLoaded' BY <1>1, <1>3 DEF ListInv, BrokenIsAsLoaded
<1> QED BY <1>1, <1>2, <1>4, <1>5, <1>6, <1>7
        DEF ListInv, NotLoaded, ReadIsTrue, Listing!PersistedServersSurvive, Listing!DirsOf

LEMMA ListSyncs == ASSUME ListInv, Listing!syncServerFromDisk PROVE ListInv'
<1> DEFINE d == sweep.server.dir
           S(s) == IF s.id = sweep.server.id THEN [s EXCEPT !.config = sweep.read] ELSE s
<1>1. /\ sweep.at = "read" /\ sweep' = [sweep EXCEPT !.at = "none"]
      /\ UNCHANGED <<disk, saved, isReady, import, repair, owed, excused>>
      /\ store' = IF sweep.read = sweep.server.config THEN store ELSE {S(s) : s \in store}
  BY DEF Listing!syncServerFromDisk
<1>2. /\ sweep'.todo = sweep.todo /\ sweep'.at = "none" /\ sweep'.server = sweep.server
      /\ sweep' = [todo |-> sweep.todo, at |-> "none", server |-> sweep.server,
                   read |-> sweep.read]
  BY <1>1 DEF ListInv, StoreTypeOK
<1>3. /\ Due = Due' \union {sweep.server} /\ isReady
      /\ sweep.server \in Known /\ sweep.read \in Configs /\ d \in Dirs
      /\ disk[d].valid /\ (d \in excused \/ sweep.read = disk[d].config)
  BY <1>1, <1>2 DEF Due, ListInv, NotLoaded, Listing!NoSweep, StoreTypeOK, ReadIsTrue, Known
<1>4. \A s \in store : /\ S(s) \in Known /\ S(s).dir = s.dir
                       /\ IF s.dir = d THEN S(s).config = sweep.read ELSE S(s) = s
  <2> TAKE s \in store
  <2>1. s \in Known /\ (s.id = sweep.server.id <=> s.dir = d)
    BY <1>3, IdsTellApart DEF ListInv, StoreTypeOK, Known
  <2> QED BY <1>3, <2>1 DEF Known
<1>5. /\ store' \subseteq Known /\ OncePerFolder(store')
      /\ \A s \in store' : \E o \in store : /\ o.dir = s.dir
             /\ IF s.dir = d THEN (o = s /\ sweep.read = sweep.server.config) \/ s.config = sweep.read
                ELSE o = s
  <2>1. CASE sweep.read = sweep.server.config
    BY <1>1, <2>1 DEF ListInv, StoreTypeOK
  <2>2. CASE sweep.read # sweep.server.config
    <3>1. store' = {S(s) : s \in store} BY <1>1, <2>2
    <3> HIDE DEF S
    <3>2. store' \subseteq Known BY <3>1, <1>4
    <3>3. OncePerFolder(store') BY <3>1, <1>4 DEF ListInv, StoreTypeOK, OncePerFolder
    <3>4. ASSUME NEW s \in store'
          PROVE  \E o \in store : /\ o.dir = s.dir
                    /\ IF s.dir = d THEN s.config = sweep.read ELSE o = s
      BY <3>1, <1>4
    <3> QED BY <3>2, <3>3, <3>4
  <2> QED BY <2>1, <2>2
<1> HIDE DEF S
<1>6. StoreTypeOK' BY <1>1, <1>2, <1>5 DEF ListInv, StoreTypeOK, OncePerFolder
<1>7. DialogInv' BY <1>1, <1>2 DEF ListInv, DialogInv, DialogTyped, Waiting
<1>8. TrueOrDue'
  <2> SUFFICES ASSUME NEW s \in store'
               PROVE  \/ s.dir \in excused \/ s.config = disk[s.dir].config
                      \/ \E t \in Due' : t.dir = s.dir /\ t.config = s.config
    BY <1>1 DEF TrueOrDue
  <2>1. PICK o \in store : /\ o.dir = s.dir
             /\ IF s.dir = d THEN (o = s /\ sweep.read = sweep.server.config) \/ s.config = sweep.read
                ELSE o = s
    BY <1>5
  <2>2. CASE s.dir # d BY <1>3, <2>1, <2>2 DEF ListInv, TrueOrDue
  <2>3. CASE s.dir = d /\ s.config = sweep.read BY <1>3, <2>3
  <2>4. CASE s.dir = d /\ o = s /\ sweep.read = sweep.server.config
    BY <1>3, <2>4 DEF ListInv, TrueOrDue
  <2> QED BY <2>1, <2>2, <2>3, <2>4
<1>9. BrokenIsAsLoaded'
  <2> SUFFICES ASSUME NEW t \in Due', ~disk[t.dir].valid, NEW s \in store', s.dir = t.dir
               PROVE  s.config = t.config
    BY <1>1 DEF BrokenIsAsLoaded
  <2>1. t.dir # d /\ t \in Due BY <1>3
  <2> QED BY <1>5, <2>1 DEF ListInv, BrokenIsAsLoaded
<1> QED BY <1>1, <1>2, <1>3, <1>6, <1>7, <1>8, <1>9
        DEF ListInv, NotLoaded, ReadIsTrue, Listing!PersistedServersSurvive, Listing!DirsOf

LEMMA ServerIsEdited ==
    ASSUME ListInv, NEW s \in store, NEW c \in Configs, Listing!updateServer(s, c)
    PROVE  ListInv'
<1> DEFINE d == s.dir
           new == [s EXCEPT !.config = c]
<1>1. /\ disk[d].valid /\ disk' = [disk EXCEPT ![d].config = c]
      /\ store' = (store \ {s}) \union {new}
      /\ excused' = IF sweep.at = "read" /\ sweep.server.id = s.id
                    THEN excused \union {d} ELSE excused
      /\ UNCHANGED <<saved, isReady, sweep, import, repair, owed>>
  BY DEF Listing!updateServer
<1>2. /\ s \in Known /\ d \in Dirs /\ isReady
      /\ new \in Known /\ new.dir = d /\ new.config = c
  BY DEF ListInv, StoreTypeOK, Known, NotLoaded
<1>3. /\ disk' \in [Dirs -> [id : Nat, config : Configs, valid : BOOLEAN]]
      /\ \A e \in Dirs : disk'[e].id = Listing!Ids[e] /\ (e # d => disk'[e] = disk[e])
      /\ disk'[d].config = c /\ disk'[d].valid
  BY <1>1, <1>2 DEF ListInv, StoreTypeOK
<1>4. Due' = Due BY <1>1 DEF Due
<1>5. \A o \in store' : o = new \/ (o \in store /\ o.dir # d /\ o.dir \in Dirs)
  BY <1>1, <1>2 DEF ListInv, StoreTypeOK, OncePerFolder, Known
<1> HIDE DEF new
<1>6. StoreTypeOK'
  <2>1. store' \subseteq Known /\ OncePerFolder(store')
    BY <1>1, <1>2, <1>5 DEF ListInv, StoreTypeOK, OncePerFolder
  <2> QED BY <1>1, <1>3, <2>1 DEF ListInv, StoreTypeOK, OncePerFolder
<1>7. DialogInv' BY <1>1 DEF ListInv, DialogInv, DialogTyped, Waiting
<1>8. ReadIsTrue'
  <2> SUFFICES ASSUME sweep.at = "read"
               PROVE  /\ disk'[sweep.server.dir].valid
                      /\ sweep.server.dir \in excused' \/ sweep.read = disk'[sweep.server.dir].config
    BY <1>1 DEF ReadIsTrue
  <2>1. /\ sweep.server \in Known /\ sweep.server.dir \in Dirs
        /\ disk[sweep.server.dir].valid
        /\ sweep.server.dir \in excused \/ sweep.read = disk[sweep.server.dir].config
    BY DEF ListInv, StoreTypeOK, Known, ReadIsTrue
  <2>2. CASE sweep.server.dir = d
    <3>1. sweep.server.id = s.id BY <1>2, <2>1, <2>2 DEF Known
    <3> QED BY <1>1, <1>3, <2>2, <3>1
  <2>3. CASE sweep.server.dir # d BY <1>1, <1>3, <2>1, <2>3
  <2> QED BY <2>2, <2>3
<1>9. TrueOrDue'
  <2> SUFFICES ASSUME NEW o \in store'
               PROVE  \/ o.dir \in excused' \/ o.config = disk'[o.dir].config
                      \/ \E t \in Due : t.dir = o.dir /\ t.config = o.config
    BY <1>4 DEF TrueOrDue
  <2>1. CASE o = new BY <1>2, <1>3, <2>1
  <2>2. CASE o \in store /\ o.dir # d /\ o.dir \in Dirs
    BY <1>1, <1>3, <2>2 DEF ListInv, TrueOrDue
  <2> QED BY <1>5, <2>1, <2>2
<1>10. BrokenIsAsLoaded'
  <2> SUFFICES ASSUME NEW t \in Due, ~disk'[t.dir].valid, NEW o \in store', o.dir = t.dir
               PROVE  o.config = t.config
    BY <1>4 DEF BrokenIsAsLoaded
  <2>1. t.dir # d BY <1>3
  <2>2. o \in store /\ o.dir # d /\ o.dir \in Dirs BY <1>2, <1>5, <2>1
  <2> QED BY <1>3, <2>2 DEF ListInv, BrokenIsAsLoaded
<1> QED BY <1>1, <1>2, <1>6, <1>7, <1>8, <1>9, <1>10
        DEF ListInv, NotLoaded, Listing!PersistedServersSurvive, Listing!DirsOf

LEMMA ServerIsRemoved ==
    ASSUME ListInv, NEW s \in store, Listing!removeServer(s)
    PROVE  ListInv'
<1>1. /\ store' = store \ {s} /\ owed' = owed \ {s.dir}
      /\ UNCHANGED <<disk, saved, isReady, sweep, import, repair, excused>>
  BY DEF Listing!removeServer
<1>2. Due' = Due BY <1>1 DEF Due
<1>3. StoreTypeOK' BY <1>1 DEF ListInv, StoreTypeOK, OncePerFolder
<1>4. DialogInv' BY <1>1 DEF ListInv, DialogInv, DialogTyped, Waiting
<1> QED BY <1>1, <1>2, <1>3, <1>4
        DEF ListInv, NotLoaded, ReadIsTrue, TrueOrDue, BrokenIsAsLoaded,
            Listing!PersistedServersSurvive, Listing!DirsOf

LEMMA ImportIsAsked ==
    ASSUME ListInv, NEW d \in Dirs, Listing!ImportServer(d)
    PROVE  ListInv'
<1>1. /\ isReady /\ import = Listing!NoImport /\ import' = [dir |-> d, at |-> "asked"]
      /\ UNCHANGED <<disk, store, saved, isReady, sweep, repair, owed, excused>>
  BY DEF Listing!ImportServer
<1>2. Due' = Due BY <1>1 DEF Due
<1>3. StoreTypeOK' BY <1>1 DEF ListInv, StoreTypeOK, OncePerFolder
<1>4. DialogInv'
  BY <1>1 DEF ListInv, DialogInv, DialogTyped, Waiting, Listing!NoImport
<1> QED BY <1>1, <1>2, <1>3, <1>4
        DEF ListInv, NotLoaded, ReadIsTrue, TrueOrDue, BrokenIsAsLoaded,
            Listing!PersistedServersSurvive, Listing!DirsOf

\* A server that is added is what its file says, and the only one of its folder.
LEMMA AddedIsTrue ==
    ASSUME ListInv, isReady, NEW d \in Dirs, Listing!addServer(d),
           disk' \in [Dirs -> [id : Nat, config : Configs, valid : BOOLEAN]],
           \A e \in Dirs : /\ disk'[e].id = disk[e].id /\ disk'[e].config = disk[e].config
                           /\ disk[e].valid => disk'[e].valid,
           disk'[d].valid,
           sweep' = sweep, saved' = saved, excused' = excused, owed' = owed, isReady' = isReady,
           import' = Listing!NoImport, DialogInv'
    PROVE  ListInv'
<1> DEFINE new == Listing!Server(d, disk[d].id, disk'[d].config)
<1>1. new \in Known /\ new.dir = d /\ new.config = disk'[d].config
  BY IdsTellApart DEF Listing!Server, Known, ListInv, StoreTypeOK
<1>2. /\ store' \subseteq Known /\ OncePerFolder(store')
      /\ \A s \in store' : s \in store \/ s = new
  <2>1. CASE disk[d].id \in Listing!IdsOf(store)
    BY <2>1 DEF Listing!addServer, ListInv, StoreTypeOK
  <2>2. CASE disk[d].id \notin Listing!IdsOf(store)
    <3>1. store' = store \union {new} BY <2>2 DEF Listing!addServer
    <3>2. \A s \in store : s.dir # d
      BY <2>2 DEF Listing!IdsOf, ListInv, StoreTypeOK, Known
    <3> HIDE DEF new
    <3> QED BY <1>1, <3>1, <3>2 DEF ListInv, StoreTypeOK, OncePerFolder
  <2> QED BY <2>1, <2>2
<1> HIDE DEF new
<1>3. Due' = Due BY DEF Due
<1>4. StoreTypeOK'
  BY <1>2 DEF ListInv, StoreTypeOK, OncePerFolder, Listing!NoImport
<1>5. ReadIsTrue' BY DEF ListInv, ReadIsTrue, StoreTypeOK, Known
<1>6. TrueOrDue'
  <2> SUFFICES ASSUME NEW s \in store'
               PROVE  \/ s.dir \in excused \/ s.config = disk'[s.dir].config
                      \/ \E t \in Due : t.dir = s.dir /\ t.config = s.config
    BY <1>3 DEF TrueOrDue
  <2>1. s.dir \in Dirs BY <1>2 DEF Known
  <2>2. CASE s = new BY <1>1, <2>2
  <2>3. CASE s \in store BY <2>1, <2>3 DEF ListInv, TrueOrDue
  <2> QED BY <1>2, <2>2, <2>3
<1>7. BrokenIsAsLoaded'
  <2> SUFFICES ASSUME NEW t \in Due, ~disk'[t.dir].valid, NEW s \in store', s.dir = t.dir
               PROVE  s.config = t.config
    BY <1>3 DEF BrokenIsAsLoaded
  <2>1. s.dir \in Dirs BY <1>2 DEF Known
  <2> QED BY <1>1, <1>2, <2>1 DEF ListInv, BrokenIsAsLoaded
<1> QED BY <1>4, <1>5, <1>6, <1>7
        DEF ListInv, NotLoaded, Listing!PersistedServersSurvive, Listing!DirsOf

LEMMA ImportReadsAFile == ASSUME ListInv, Listing!ImportReads PROVE ListInv'
<1> DEFINE d == import.dir
<1>1. /\ import.at = "asked" /\ d \in Dirs /\ isReady
      /\ UNCHANGED <<saved, isReady, sweep, owed, excused>>
  BY DEF Listing!ImportReads, ListInv, StoreTypeOK, NotLoaded, Listing!NoImport
<1>2. ~Waiting("import") BY <1>1 DEF ListInv, DialogInv
<1>3. CASE disk[d].valid
  <2>1. /\ import' = Listing!NoImport /\ disk' = disk /\ repair' = repair /\ Listing!addServer(d)
    BY <1>3 DEF Listing!ImportReads
  <2>2. DialogInv' BY <1>1, <1>2, <2>1 DEF ListInv, DialogInv, DialogTyped, Waiting
  <2>3. disk \in [Dirs -> [id : Nat, config : Configs, valid : BOOLEAN]]
    BY DEF ListInv, StoreTypeOK
  <2> QED BY <1>1, <1>3, <2>1, <2>2, <2>3, AddedIsTrue
<1>4. CASE ~disk[d].valid
  <2>1. /\ import' = [import EXCEPT !.at = "prompt"] /\ Listing!Request("import")
        /\ disk' = disk /\ store' = store
    BY <1>4 DEF Listing!ImportReads
  <2>2. /\ import' = [dir |-> d, at |-> "prompt"] /\ import'.at = "prompt"
    BY <2>1 DEF ListInv, StoreTypeOK
  <2>3. DialogInv' BY <1>1, <1>2, <2>1, <2>2, RequestsOnce DEF ListInv, DialogInv
  <2>4. Due' = Due BY <1>1 DEF Due
  <2>5. StoreTypeOK' BY <1>1, <2>1, <2>2 DEF ListInv, StoreTypeOK, OncePerFolder
  <2> QED BY <1>1, <2>1, <2>3, <2>4, <2>5
          DEF ListInv, NotLoaded, ReadIsTrue, TrueOrDue, BrokenIsAsLoaded,
              Listing!PersistedServersSurvive, Listing!DirsOf
<1> QED BY <1>3, <1>4

LEMMA ImportRebuildsAFile == ASSUME ListInv, Listing!ImportRebuilds PROVE ListInv'
<1> DEFINE d == import.dir
<1>1. /\ repair.active = "import" /\ Listing!closeWith /\ import' = Listing!NoImport
      /\ disk' = [disk EXCEPT ![d].valid = TRUE] /\ Listing!addServer(d)
      /\ UNCHANGED <<saved, isReady, sweep, owed, excused>>
      /\ isReady /\ import.at = "prompt" /\ d \in Dirs
  BY AskedIsLoaded DEF Listing!ImportRebuilds
<1>2. /\ disk' \in [Dirs -> [id : Nat, config : Configs, valid : BOOLEAN]]
      /\ \A e \in Dirs : /\ disk'[e].id = disk[e].id /\ disk'[e].config = disk[e].config
                          /\ disk[e].valid => disk'[e].valid
      /\ disk'[d].valid
  BY <1>1, ZenonT(40) DEF ListInv, StoreTypeOK
<1>3. ~Waiting("import")' /\ DialogTyped' /\ (Waiting("sweep")' => Waiting("sweep"))
  BY <1>1, AnswersOnce DEF ListInv, DialogInv
<1>4. DialogInv' BY <1>1, <1>3 DEF ListInv, DialogInv
<1> QED BY <1>1, <1>2, <1>4, AddedIsTrue

LEMMA ImportIsCancelled == ASSUME ListInv, Listing!ImportCancelled PROVE ListInv'
<1>1. /\ repair.active = "import" /\ Listing!closeWith /\ import' = Listing!NoImport
      /\ UNCHANGED <<disk, store, saved, isReady, sweep, owed, excused>>
      /\ isReady
  BY AskedIsLoaded DEF Listing!ImportCancelled
<1>2. ~Waiting("import")' /\ DialogTyped' /\ (Waiting("sweep")' => Waiting("sweep"))
  BY <1>1, AnswersOnce DEF ListInv, DialogInv
<1>3. DialogInv' BY <1>1, <1>2 DEF ListInv, DialogInv
<1>4. Due' = Due BY <1>1 DEF Due
<1>5. StoreTypeOK' BY <1>1 DEF ListInv, StoreTypeOK, OncePerFolder, Listing!NoImport
<1> QED BY <1>1, <1>3, <1>4, <1>5
        DEF ListInv, NotLoaded, ReadIsTrue, TrueOrDue, BrokenIsAsLoaded,
            Listing!PersistedServersSurvive, Listing!DirsOf

LEMMA ListSteps == ASSUME ListInv, [Listing!StoreNext]_storeVars PROVE ListInv'
<1>1. CASE UNCHANGED storeVars
  <2>1. UNCHANGED <<disk, store, saved, isReady, sweep, import, repair, owed, excused>>
    BY <1>1 DEF storeVars
  <2> QED BY <2>1
          DEF ListInv, StoreTypeOK, OncePerFolder, DialogInv, DialogTyped, Waiting, NotLoaded,
              ReadIsTrue, TrueOrDue, BrokenIsAsLoaded, Due,
              Listing!PersistedServersSurvive, Listing!DirsOf
<1>2. CASE \E s \in store : Listing!removeServer(s) \/ \E c \in Configs : Listing!updateServer(s, c)
  BY <1>2, ServerIsRemoved, ServerIsEdited
<1>3. CASE \E d \in Dirs : Listing!ImportServer(d) BY <1>3, ImportIsAsked
<1> QED
  BY <1>1, <1>2, <1>3, ListLoads, ListSaves, ListRestarts, SweepTakesTheNext, SweepReadsAFile,
     SweepRebuildsAFile, SweepSkipsAFile, ListSyncs, ImportReadsAFile, ImportRebuildsAFile,
     ImportIsCancelled DEF Listing!StoreNext

\* Every server that was persisted is in local storage until the user removes it,
\* and once the start's sweep is over the list says of each server what its
\* mserve.json says, but for the folders excused: edited while they were read, left
\* broken, or rebuilt twice (data/servers.tsx, lib/mserve-sync.ts).
THEOREM WindowListIsTrue == Spec => []ListIsTrue
<1>1. ListInv => ListIsTrue
  <2> SUFFICES ASSUME ListInv, Listing!SweepOver PROVE Listing!ListMatchesDisk
    BY DEF ListIsTrue, ListInv, Listing!ListMatchesDisk
  <2>1. Due = {} BY DEF Due, Listing!SweepOver, Listing!NoSweep
  <2> QED BY <2>1 DEF ListInv, TrueOrDue, Listing!ListMatchesDisk
<1>2. Init => ListInv BY ListStarts
<1>3. ListInv /\ [Next]_vars => ListInv' BY WindowStep, ListSteps
<1> QED BY <1>1, <1>2, <1>3, PTL DEF Spec

--------------------------------------------------------------------------------
(* A configuration file in its editor.                                          *)

Cells  == Editor!Values \union {"absent", "bad"}
Drafts == [Editor!Keys -> Cells]

EditorTypeOK ==
    /\ kind \in {"properties", "velocity", "list"}
    /\ text \in Editor!File /\ source \in Editor!File /\ readable \in BOOLEAN
    /\ rows \in Drafts /\ originalRows \in Editor!File
    /\ typed \in [Editor!Keys -> Cells \union {"-"}]
    /\ reading # <<>> => /\ reading = <<reading[1]>>
                         /\ reading[1] \in [text : Editor!File, readable : BOOLEAN]
    /\ writing # <<>> => /\ writing = <<writing[1]>>
                         /\ writing[1] \in [content : Editor!File, done : BOOLEAN]

\* A cell of the draft is what the user typed there, or what was loaded; only a
\* key the draft owns was ever emptied, and only a featured one or a row holds what
\* cannot be written.
DraftIsTyped ==
    \A k \in Editor!Keys :
        /\ rows[k] = IF typed[k] = "-" THEN originalRows[k] ELSE typed[k]
        /\ typed[k] = "absent" => Editor!DraftOwns(k)
        /\ typed[k] = "bad" => kind = "list" \/ k \in Editor!Featured

\* The draft does not move under a write: what is written is built from it, and
\* was let through.
WriteIsTheDraft ==
    writing # <<>> =>
        /\ reading = <<>> /\ ~Editor!Rejected
        /\ writing[1].content = [k \in Editor!Keys |-> Editor!buildCell(k)]

\* Until a write is done, a file nobody else wrote is the one that was loaded.
FreshIsLoaded ==
    fresh => /\ originalRows = Editor!parseState(source)
             /\ ~(writing # <<>> /\ writing[1].done) => text = source

EditorInv == EditorTypeOK /\ DraftIsTyped /\ WriteIsTheDraft /\ FreshIsLoaded

LEMMA ParsedIsADraft ==
    ASSUME NEW f \in Editor!File
    PROVE  Editor!parseState(f) \in Drafts /\ Editor!parseState(f) \in Editor!File
BY DEF Editor!parseState, Editor!parseVelocityEditorState, Drafts, Cells, Editor!File,
       Editor!Values, Editor!Default

LEMMA EditorStarts == ASSUME Init PROVE EditorInv
<1>1. /\ kind \in {"properties", "velocity", "list"} /\ text \in Editor!File /\ readable = TRUE
      /\ rows = Editor!Empty /\ originalRows = Editor!Empty /\ source = Editor!Empty
      /\ reading = <<[text |-> text, readable |-> TRUE]>> /\ writing = <<>>
      /\ typed = Editor!NotTyped /\ fresh = FALSE
  BY DEF Init, Editor!ConfigInit
<1>2. Editor!Empty \in Editor!File /\ Editor!Empty \in Drafts
      /\ Editor!NotTyped \in [Editor!Keys -> Cells \union {"-"}]
  BY DEF Editor!Empty, Editor!File, Drafts, Cells, Editor!NotTyped
<1>3. EditorTypeOK BY <1>1, <1>2 DEF EditorTypeOK
<1> QED BY <1>1, <1>3 DEF EditorInv, DraftIsTyped, WriteIsTheDraft, FreshIsLoaded,
   Editor!NotTyped

\* A file is loaded, or what was written becomes what was loaded.
LEMMA FileIsApplied ==
    ASSUME EditorInv, NEW f \in Editor!File, Editor!applyContent(f),
           writing' = <<>>, reading' = <<>>,
           UNCHANGED <<kind, text, readable>>, fresh' => text = f
    PROVE  EditorInv'
<1>1. /\ rows' = Editor!parseState(f) /\ originalRows' = Editor!parseState(f) /\ source' = f
      /\ typed' = Editor!NotTyped
  BY DEF Editor!applyContent
<1>2. Editor!parseState(f) \in Drafts /\ Editor!parseState(f) \in Editor!File BY ParsedIsADraft
<1>3. EditorTypeOK' BY <1>1, <1>2 DEF EditorInv, EditorTypeOK, Editor!NotTyped
<1>4. DraftIsTyped' BY <1>1 DEF DraftIsTyped, Editor!NotTyped
<1>5. FreshIsLoaded'
  BY <1>1 DEF FreshIsLoaded, Editor!parseState, Editor!parseVelocityEditorState, Editor!Featured
<1> QED BY <1>3, <1>4, <1>5 DEF EditorInv, WriteIsTheDraft

\* One cell is changed while nothing is in flight.
LEMMA CellIsTyped ==
    ASSUME EditorInv, NEW k \in Editor!Keys, NEW v \in Cells, Editor!Types(k, v),
           v = "absent" => Editor!DraftOwns(k),
           v = "bad" => kind = "list" \/ k \in Editor!Featured
    PROVE  EditorInv'
<1>1. /\ rows' = [rows EXCEPT ![k] = v] /\ typed' = [typed EXCEPT ![k] = v]
      /\ reading = <<>> /\ writing = <<>>
      /\ UNCHANGED <<kind, text, readable, originalRows, source, reading, writing, fresh>>
  BY DEF Editor!Types, Editor!isLocked, Editor!FileStays
<1>2. EditorTypeOK' BY <1>1 DEF EditorInv, EditorTypeOK, Drafts
<1>3. \A j \in Editor!Keys : /\ rows'[j] = IF j = k THEN v ELSE rows[j]
                             /\ typed'[j] = IF j = k THEN v ELSE typed[j]
  BY <1>1 DEF EditorInv, EditorTypeOK, Drafts
<1>4. v # "-" BY DEF Cells, Editor!Values
<1>5. DraftIsTyped'
  BY <1>1, <1>3, <1>4 DEF EditorInv, DraftIsTyped, Editor!DraftOwns, Editor!Featured
<1>6. FreshIsLoaded'
  BY <1>1 DEF EditorInv, FreshIsLoaded, Editor!parseState, Editor!parseVelocityEditorState,
     Editor!Featured
<1> QED BY <1>1, <1>2, <1>5, <1>6 DEF EditorInv, WriteIsTheDraft

\* What is let through can be written: no cell is bad.
LEMMA WrittenIsAFile ==
    ASSUME EditorInv, ~Editor!Rejected, writing = <<>>
    PROVE  [k \in Editor!Keys |-> Editor!buildCell(k)] \in Editor!File
<1> SUFFICES ASSUME NEW k \in Editor!Keys
             PROVE  Editor!buildCell(k) \in Editor!Values \union {"absent"}
  BY DEF Editor!File
<1>1. /\ rows[k] \in Cells /\ source[k] \in Editor!Values \union {"absent"}
      /\ originalRows[k] \in Editor!Values \union {"absent"}
      /\ kind \in {"properties", "velocity", "list"}
  BY DEF EditorInv, EditorTypeOK, Drafts, Editor!File
<1>2. rows[k] # "bad"
  <2> SUFFICES ASSUME rows[k] = "bad" PROVE FALSE
    OBVIOUS
  <2>1. originalRows[k] # "bad" BY <1>1 DEF Editor!Values
  <2>2. typed[k] = "bad" BY <2>1 DEF EditorInv, DraftIsTyped
  <2>3. CASE kind = "list" BY <2>1, <2>3 DEF Editor!Rejected, Editor!validateJsonRecords
  <2>4. CASE k \in Editor!Featured
    BY <2>4 DEF Editor!Rejected, Editor!parsePropertyNumber, Editor!isNoOption, Editor!Featured
  <2> QED BY <2>2, <2>3, <2>4 DEF EditorInv, DraftIsTyped
<1> QED
  BY <1>1, <1>2 DEF Editor!buildCell, Editor!createServerPropertiesContent,
     Editor!createVelocityTomlContent, Editor!jsonRowsToRecords, Cells, Editor!Values

\* A step that leaves the draft alone.
LEMMA DraftStands ==
    ASSUME EditorInv, EditorTypeOK',
           UNCHANGED <<kind, rows, originalRows, source, typed>>,
           writing' # <<>> =>
               /\ reading' = <<>> /\ ~Editor!Rejected
               /\ writing'[1].content = [k \in Editor!Keys |-> Editor!buildCell(k)],
           fresh' => fresh,
           fresh' /\ ~(writing' # <<>> /\ writing'[1].done) => text' = source
    PROVE  EditorInv'
<1>1. DraftIsTyped'
  BY DEF EditorInv, DraftIsTyped, Editor!DraftOwns, Editor!Featured
<1>2. WriteIsTheDraft'
  BY DEF WriteIsTheDraft, Editor!Rejected, Editor!parsePropertyNumber,
     Editor!isNoOption, Editor!validateJsonRecords, Editor!buildCell, Editor!Featured,
     Editor!createServerPropertiesContent, Editor!createVelocityTomlContent,
     Editor!jsonRowsToRecords
<1>3. FreshIsLoaded'
  BY DEF EditorInv, FreshIsLoaded, Editor!parseState, Editor!parseVelocityEditorState,
     Editor!Featured
<1> QED BY <1>1, <1>2, <1>3 DEF EditorInv

LEMMA EditorReloads == ASSUME EditorInv, Editor!reload PROVE EditorInv'
<1>1. /\ reading = <<>> /\ writing = <<>> /\ reading' = <<[text |-> text, readable |-> readable]>>
      /\ UNCHANGED <<kind, text, readable, rows, originalRows, source, writing, typed, fresh>>
  BY DEF Editor!reload, Editor!isLocked, Editor!FileStays
<1>2. EditorTypeOK' BY <1>1 DEF EditorInv, EditorTypeOK
<1> QED BY <1>1, <1>2, DraftStands DEF EditorInv, FreshIsLoaded

LEMMA EditorReads == ASSUME EditorInv, Editor!ReadLands PROVE EditorInv'
<1>1. /\ reading # <<>> /\ reading' = <<>> /\ Head(reading) = reading[1]
      /\ reading[1] \in [text : Editor!File, readable : BOOLEAN]
      /\ writing = <<>> /\ UNCHANGED <<kind, text, readable, writing>>
  BY DEF Editor!ReadLands, Editor!FileStays, EditorInv, EditorTypeOK, WriteIsTheDraft
<1>2. CASE reading[1].readable
  <2>1. /\ Editor!applyContent(reading[1].text)
        /\ fresh' = (reading[1] = [text |-> text, readable |-> readable])
    BY <1>1, <1>2 DEF Editor!ReadLands
  <2>2. reading[1] = [text |-> text, readable |-> readable] => text = reading[1].text
    OBVIOUS
  <2>3. fresh' => text = reading[1].text BY <2>1, <2>2
  <2> QED BY <1>1, <2>1, <2>3, FileIsApplied
<1>3. CASE ~reading[1].readable
  <2>1. UNCHANGED <<rows, originalRows, source, typed, fresh>>
    BY <1>1, <1>3 DEF Editor!ReadLands
  <2>2. EditorTypeOK' BY <1>1, <2>1 DEF EditorInv, EditorTypeOK
  <2> QED BY <1>1, <2>1, <2>2, DraftStands DEF EditorInv, FreshIsLoaded
<1> QED BY <1>2, <1>3

LEMMA EditorResets == ASSUME EditorInv, Editor!reset PROVE EditorInv'
<1>1. /\ writing = <<>> /\ rows' = originalRows /\ typed' = Editor!NotTyped
      /\ UNCHANGED <<kind, text, readable, originalRows, source, reading, writing, fresh>>
  BY DEF Editor!reset, Editor!isLocked, Editor!FileStays
<1>2. originalRows \in Drafts
  BY DEF EditorInv, EditorTypeOK, Drafts, Cells, Editor!File
<1>3. EditorTypeOK' BY <1>1, <1>2 DEF EditorInv, EditorTypeOK, Editor!NotTyped
<1>4. DraftIsTyped' BY <1>1 DEF DraftIsTyped, Editor!NotTyped
<1>5. FreshIsLoaded'
  BY <1>1 DEF EditorInv, FreshIsLoaded, Editor!parseState, Editor!parseVelocityEditorState,
     Editor!Featured
<1> QED BY <1>1, <1>3, <1>4, <1>5 DEF EditorInv, WriteIsTheDraft

LEMMA EditorSaves == ASSUME EditorInv, Editor!save PROVE EditorInv'
<1>1. /\ reading = <<>> /\ writing = <<>>
      /\ UNCHANGED <<kind, text, readable, rows, originalRows, source, reading, typed, fresh>>
  BY DEF Editor!save, Editor!isLocked, Editor!FileStays
<1>2. CASE Editor!Rejected
  <2>1. writing' = writing BY <1>2 DEF Editor!save
  <2>2. EditorTypeOK' BY <1>1, <2>1 DEF EditorInv, EditorTypeOK
  <2> QED BY <1>1, <2>1, <2>2, DraftStands DEF EditorInv, FreshIsLoaded
<1>3. CASE ~Editor!Rejected
  <2>1. PICK content : content = [k \in Editor!Keys |-> Editor!buildCell(k)] OBVIOUS
  <2>2. content \in Editor!File BY <1>1, <1>3, <2>1, WrittenIsAFile
  <2>3. writing' = <<[content |-> content, done |-> FALSE]>> BY <1>3, <2>1 DEF Editor!save
  <2>4. writing' # <<>> /\ writing'[1].content = content /\ ~writing'[1].done BY <2>3
  <2>5. EditorTypeOK' BY <1>1, <2>2, <2>3 DEF EditorInv, EditorTypeOK
  <2> QED BY <1>1, <1>3, <2>1, <2>4, <2>5, DraftStands DEF EditorInv, FreshIsLoaded
<1> QED BY <1>2, <1>3

\* What a write in flight holds.
LEMMA WriteIsOne ==
    ASSUME EditorInv, writing # <<>>
    PROVE  /\ Head(writing) = writing[1] /\ writing[1] \in [content : Editor!File, done : BOOLEAN]
           /\ reading = <<>> /\ ~Editor!Rejected
           /\ writing[1].content = [k \in Editor!Keys |-> Editor!buildCell(k)]
BY DEF EditorInv, EditorTypeOK, WriteIsTheDraft

LEMMA EditorWrites == ASSUME EditorInv, Editor!Writes PROVE EditorInv'
<1>1. /\ writing # <<>> /\ text' = writing[1].content /\ readable' = TRUE
      /\ writing' = <<[writing[1] EXCEPT !.done = TRUE]>>
      /\ UNCHANGED <<kind, rows, originalRows, source, typed, reading, fresh>>
  BY WriteIsOne DEF Editor!Writes, Editor!OnlyTheFile
<1>2. /\ writing' # <<>> /\ writing'[1].content = writing[1].content /\ writing'[1].done
      /\ writing'[1] \in [content : Editor!File, done : BOOLEAN] /\ writing' = <<writing'[1]>>
  BY <1>1, WriteIsOne
<1>3. EditorTypeOK' BY <1>1, <1>2, WriteIsOne DEF EditorInv, EditorTypeOK
<1> QED BY <1>1, <1>2, <1>3, WriteIsOne, DraftStands

LEMMA EditorSaved == ASSUME EditorInv, Editor!SaveLands PROVE EditorInv'
<1>1. /\ writing # <<>> /\ writing' = <<>> /\ Editor!applyContent(writing[1].content)
      /\ fresh' => text = writing[1].content
      /\ UNCHANGED <<kind, text, readable, reading>>
  BY WriteIsOne DEF Editor!SaveLands, Editor!FileStays
<1> QED BY <1>1, WriteIsOne, FileIsApplied

LEMMA EditorSaveFails == ASSUME EditorInv, Editor!SaveFails PROVE EditorInv'
<1>1. /\ writing # <<>> /\ ~writing[1].done /\ writing' = <<>> /\ (fresh' => fresh)
      /\ UNCHANGED <<kind, text, rows, originalRows, source, reading, typed>>
  BY WriteIsOne DEF Editor!SaveFails
<1>2. readable' \in BOOLEAN BY DEF Editor!SaveFails, EditorInv, EditorTypeOK
<1>3. EditorTypeOK' BY <1>1, <1>2 DEF EditorInv, EditorTypeOK
<1> QED BY <1>1, <1>3, DraftStands DEF EditorInv, FreshIsLoaded

LEMMA OtherWritesTheFile == ASSUME EditorInv, Editor!OthersWrite PROVE EditorInv'
<1>1. ~fresh' /\ UNCHANGED <<kind, rows, originalRows, source, typed, reading, writing>>
  BY DEF Editor!OthersWrite, Editor!OnlyTheFile
<1>2. readable' \in BOOLEAN BY DEF Editor!OthersWrite
<1>3. ASSUME NEW k \in Editor!Keys, NEW v \in Editor!Values, text' = [text EXCEPT ![k] = v]
      PROVE  text' \in Editor!File
  BY <1>3 DEF EditorInv, EditorTypeOK, Editor!File
<1>4. text' \in Editor!File
  BY <1>3 DEF Editor!OthersWrite, EditorInv, EditorTypeOK
<1>5. EditorTypeOK' BY <1>1, <1>2, <1>4 DEF EditorInv, EditorTypeOK
<1> QED BY <1>1, <1>5, WriteIsOne, DraftStands

LEMMA EditorStandsStill ==
    ASSUME EditorInv, UNCHANGED <<kind, text, readable, rows, originalRows, source, reading,
                                  writing, typed, fresh>>
    PROVE  EditorInv'
<1>1. EditorTypeOK' BY DEF EditorInv, EditorTypeOK
<1> QED BY <1>1, WriteIsOne, DraftStands DEF EditorInv, FreshIsLoaded

LEMMA EditorStep == ASSUME EditorInv, [Editor!ConfigNext]_configVars PROVE EditorInv'
<1>1. CASE UNCHANGED configVars \/ Editor!GameTurns
  BY <1>1, EditorStandsStill DEF configVars, Editor!GameTurns
<1>2. ASSUME NEW k \in Editor!Keys, NEW v \in Cells, Editor!PropertyField(k, v) PROVE EditorInv'
  BY <1>2, CellIsTyped DEF Editor!PropertyField
<1>3. ASSUME NEW k \in Editor!Keys, NEW v \in Cells, Editor!AdvancedPropertiesSection(k, v)
      PROVE  EditorInv'
  BY <1>3, CellIsTyped DEF Editor!AdvancedPropertiesSection, Editor!Values
<1>4. ASSUME NEW k \in Editor!Keys, NEW v \in Cells, Editor!updateRowValue(k, v) PROVE EditorInv'
  BY <1>4, CellIsTyped DEF Editor!updateRowValue, Editor!DraftOwns
<1> QED
  BY <1>1, <1>2, <1>3, <1>4, EditorReloads, EditorReads, EditorResets, EditorSaves,
     EditorWrites,
     EditorSaved, EditorSaveFails, OtherWritesTheFile DEF Editor!ConfigNext, Cells

\* A save of a file nobody else wrote meanwhile puts exactly what the user typed into
\* the cells the user touched, and leaves every other value of the file alone
\* (use-managed-config-file.ts, server-config-files.ts).
THEOREM WindowSaveWritesOnlyEdits == Spec => SaveWritesOnlyEdits
<1>1. Init => EditorInv BY EditorStarts
<1>2. EditorInv /\ [Next]_vars => EditorInv' BY WindowStep, EditorStep
<1>3. ASSUME EditorInv, Editor!Writes, fresh, NEW k \in Editor!Keys
      PROVE  IF typed[k] # "-" THEN text'[k] = typed[k]
             ELSE text[k] # "absent" => text'[k] = text[k]
  <2>1. /\ text' = writing[1].content /\ writing # <<>> /\ ~writing[1].done
        /\ writing[1].content = [j \in Editor!Keys |-> Editor!buildCell(j)]
    BY <1>3, WriteIsOne DEF Editor!Writes
  <2>2. text'[k] = Editor!buildCell(k) BY <2>1
  <2>3. /\ text = source /\ originalRows = Editor!parseState(text)
        /\ kind \in {"properties", "velocity", "list"}
        /\ rows[k] = IF typed[k] = "-" THEN originalRows[k] ELSE typed[k]
        /\ typed[k] = "absent" => Editor!DraftOwns(k)
    BY <1>3, <2>1 DEF EditorInv, FreshIsLoaded, EditorTypeOK, DraftIsTyped
  <2>4. rows[k] # "absent" => Editor!buildCell(k) = rows[k]
    BY <2>3 DEF Editor!buildCell, Editor!createServerPropertiesContent,
       Editor!createVelocityTomlContent, Editor!jsonRowsToRecords
  <2>5. CASE typed[k] # "-"
    <3>1. CASE typed[k] = "absent"
      BY <2>2, <2>3, <3>1 DEF Editor!buildCell, Editor!createVelocityTomlContent,
         Editor!jsonRowsToRecords, Editor!DraftOwns
    <3> QED BY <2>2, <2>3, <2>4, <2>5, <3>1
  <2>6. CASE typed[k] = "-" /\ text[k] # "absent"
    <3>1. originalRows[k] = text[k]
      BY <2>3, <2>6 DEF Editor!parseState, Editor!parseVelocityEditorState
    <3> QED BY <2>2, <2>3, <2>4, <2>6, <3>1
  <2> QED BY <2>5, <2>6
<1>4. EditorInv /\ [Next]_vars =>
        [Editor!Writes /\ fresh => \A k \in Editor!Keys :
             IF typed[k] # "-" THEN text'[k] = typed[k]
             ELSE text[k] # "absent" => text'[k] = text[k]]_(Editor!configVars)
  BY <1>3, WindowStep DEF configVars, Editor!configVars
<1> QED
  BY <1>1, <1>2, <1>4, PTL DEF Spec, SaveWritesOnlyEdits, Editor!SaveWritesOnlyEdits

--------------------------------------------------------------------------------
(* The wizard that creates a server.                                            *)

Shown(d) == Wizard!getCreateServerVisibleSlide(d.slide, d.provider.name)

LEMMA MinIsLeast ==
    ASSUME NEW S, S \subseteq Int, NEW m \in S, \A x \in S : m <= x
    PROVE  Wizard!Min(S) = m
<1> DEFINE least == CHOOSE x \in S : \A y \in S : x =< y
<1>1. least \in S /\ \A y \in S : least <= y BY Zenon
<1> HIDE DEF least
<1>2. least = m BY <1>1
<1> QED BY <1>2 DEF least, Wizard!Min

LEMMA MaxIsGreatest ==
    ASSUME NEW S, S \subseteq Int, NEW m \in S, \A x \in S : x <= m
    PROVE  Wizard!Max(S) = m
<1> DEFINE most == CHOOSE x \in S : \A y \in S : x >= y
<1>1. \A x \in S : m >= x OBVIOUS
<1>2. most \in S /\ \A y \in S : most >= y BY <1>1, Zenon
<1> HIDE DEF most
<1>3. most = m BY <1>2
<1> QED BY <1>3 DEF most, Wizard!Max

\* A proxy's wizard has no slide for backups; it shows the one after it.
LEMMA VisibleSlide ==
    ASSUME NEW s \in 0..8, NEW p
    PROVE  Wizard!getCreateServerVisibleSlide(s, p) =
               IF s = 6 /\ Wizard!isProxyProvider(p) THEN 7 ELSE s
<1> DEFINE v == IF s = 6 /\ Wizard!isProxyProvider(p) THEN 7 ELSE s
           after == {x \in Wizard!FlowSlides(p) : x >= s}
<1>1. Wizard!FlowSlides(p) = IF Wizard!isProxyProvider(p) THEN (0..8) \ {6} ELSE 0..8
  BY DEF Wizard!FlowSlides, Wizard!getCreateServerStepSlides, Wizard!SlideIndex
<1>2. v \in after /\ after \subseteq Int /\ \A x \in after : v <= x
  BY <1>1
<1> HIDE DEF v, after
<1>3. Wizard!Min(after) = v BY <1>2, MinIsLeast
<1> QED BY <1>2, <1>3 DEF Wizard!getCreateServerVisibleSlide, v, after

\* One on, and no further; the last slide stays.
LEMMA NextSlide ==
    ASSUME NEW s \in 0..8, NEW p
    PROVE  LET v == Wizard!getCreateServerVisibleSlide(s, p)
               n == Wizard!getCreateServerNextSlide(s, p)
           IN  /\ n \in 1..8
               /\ n = IF v = 8 THEN 8 ELSE IF v = 5 /\ Wizard!isProxyProvider(p) THEN 7 ELSE v + 1
               /\ Wizard!getCreateServerVisibleSlide(n, p) = n
<1> DEFINE v == Wizard!getCreateServerVisibleSlide(s, p)
           w == IF v = 5 /\ Wizard!isProxyProvider(p) THEN 7 ELSE v + 1
           after == {x \in Wizard!FlowSlides(p) : x > v}
<1>1. Wizard!FlowSlides(p) = IF Wizard!isProxyProvider(p) THEN (0..8) \ {6} ELSE 0..8
  BY DEF Wizard!FlowSlides, Wizard!getCreateServerStepSlides, Wizard!SlideIndex
<1>2. v = IF s = 6 /\ Wizard!isProxyProvider(p) THEN 7 ELSE s BY VisibleSlide
<1> HIDE DEF v
<1>3. CASE v = 8
  <2>1. after = {} BY <1>1, <1>3
  <2>2. Wizard!getCreateServerNextSlide(s, p) = 8
    BY <2>1 DEF Wizard!getCreateServerNextSlide, Wizard!SlideIndex, v
  <2>3. Wizard!getCreateServerVisibleSlide(8, p) = 8 BY VisibleSlide
  <2> QED BY <1>3, <2>2, <2>3 DEF v
<1>4. CASE v # 8
  <2>1. w \in after /\ after \subseteq Int /\ (\A x \in after : w <= x) /\ w \in 1..8
        /\ ~(w = 6 /\ Wizard!isProxyProvider(p))
    BY <1>1, <1>2, <1>4
  <2> HIDE DEF w, after
  <2>2. Wizard!Min(after) = w BY <2>1, MinIsLeast
  <2>3. Wizard!getCreateServerNextSlide(s, p) = w
    BY <2>1, <2>2 DEF Wizard!getCreateServerNextSlide, v, after
  <2>4. Wizard!getCreateServerVisibleSlide(w, p) = w BY <2>1, VisibleSlide
  <2> QED BY <1>4, <2>1, <2>3, <2>4 DEF v, w
<1> QED BY <1>3, <1>4

\* Back to a slide before this one, or to the first.
LEMMA PreviousSlide ==
    ASSUME NEW s \in 0..8, NEW p
    PROVE  LET v == Wizard!getCreateServerVisibleSlide(s, p)
               n == Wizard!getCreateServerPreviousSlide(s, p)
           IN  /\ n \in 0..7
               /\ v # 0 => n < v
               /\ Wizard!getCreateServerVisibleSlide(n, p) = n
<1> DEFINE v == Wizard!getCreateServerVisibleSlide(s, p)
           w == IF v = 7 /\ Wizard!isProxyProvider(p) THEN 5 ELSE v - 1
           before == {x \in Wizard!FlowSlides(p) : x < v}
<1>1. Wizard!FlowSlides(p) = IF Wizard!isProxyProvider(p) THEN (0..8) \ {6} ELSE 0..8
  BY DEF Wizard!FlowSlides, Wizard!getCreateServerStepSlides, Wizard!SlideIndex
<1>2. v = IF s = 6 /\ Wizard!isProxyProvider(p) THEN 7 ELSE s BY VisibleSlide
<1> HIDE DEF v
<1>3. CASE v = 0
  <2>1. before = {} BY <1>1, <1>3
  <2>2. Wizard!getCreateServerPreviousSlide(s, p) = 0
    BY <2>1 DEF Wizard!getCreateServerPreviousSlide, Wizard!SlideIndex, v
  <2>3. Wizard!getCreateServerVisibleSlide(0, p) = 0 BY VisibleSlide
  <2> QED BY <1>3, <2>2, <2>3 DEF v
<1>4. CASE v # 0
  <2>1. w \in before /\ before \subseteq Int /\ (\A x \in before : x <= w) /\ w \in 0..7 /\ w < v
        /\ ~(w = 6 /\ Wizard!isProxyProvider(p))
    BY <1>1, <1>2, <1>4
  <2> HIDE DEF w, before
  <2>2. Wizard!Max(before) = w BY <2>1, MaxIsGreatest
  <2>3. Wizard!getCreateServerPreviousSlide(s, p) = w
    BY <2>1, <2>2 DEF Wizard!getCreateServerPreviousSlide, v, before
  <2>4. Wizard!getCreateServerVisibleSlide(w, p) = w BY <2>1, VisibleSlide
  <2> QED BY <1>4, <2>1, <2>3, <2>4 DEF v, w
<1> QED BY <1>3, <1>4

Chosens   == Sources \union {"none"}
ProviderNames ==
    Chosens \union {Wizard!createProvider(c).name : c \in Sources}
            \union {Wizard!inferProviderFromJarPath(Wizard!JarName({p, "server"})) : p \in Sources}
SomeProviders == [name : ProviderNames, versioned : BOOLEAN]
WizardDrafts ==
    [slide : 0..8, name : Names \union {Wizard!NoName}, choice : Chosens, provider : SomeProviders,
     jar : Chosens, modpack : BOOLEAN, eula : BOOLEAN, created : Names \union {"none"},
     submitting : BOOLEAN, manual : BOOLEAN]

MadeCalls ==
    [id : Nat, kind : {"name", "jar", "file", "create"}, of : Names \union Sources,
     at : {"asked", "folder", "jar", "install", "installing", "init"}, here : BOOLEAN,
     form : [provider : SomeProviders, jar : Chosens, modpack : BOOLEAN]]

\* What a call keeps of the click that made it.
CallMade(c) ==
    /\ c \in MadeCalls
    /\ c.kind \in {"name", "create"} => c.of \in Names /\ c.of # Wizard!NoName
    /\ c.kind \in {"jar", "file"} => c.of \in Sources
    /\ c.kind = "file" => c.form.provider.versioned
    /\ c.kind = "create" =>
          /\ c.at = "jar" => c.form.jar # "none" /\ c.form.provider.versioned
          /\ c.at \in {"install", "installing"} => c.form.modpack

SlideOf == [name |-> 1, jar |-> 3, file |-> 3, create |-> 7]

\* A call whose slide is still shown is about the draft d.
Belongs(c, d) ==
    /\ Shown(d) = SlideOf[c.kind]
    /\ c.kind = "jar" => c.of = d.choice
    /\ c.kind = "file" => /\ d.choice \notin {"none", "modpack"}
                          /\ d.jar = c.of /\ ~d.manual => c.form.provider.name = d.choice

\* What DraftHoldsTogether says of a draft nothing has strayed from.
Fits(d) ==
    /\ d.slide = 8 => d.created # "none"
    /\ Shown(d) > 1 /\ d.created = "none" => d.name # Wizard!NoName
    /\ Shown(d) > 3 => d.modpack \/ (d.jar # "none" /\ d.provider.versioned)
    /\ d.jar # "none" /\ ~d.manual => d.provider.name = d.choice /\ d.jar = d.choice

WizardInv ==
    /\ draft \in WizardDrafts /\ made \in Nat /\ strayed \in BOOLEAN
    /\ \A c \in calls : CallMade(c)
    /\ \A c \in calls : c.here => /\ Shown(draft) = SlideOf[c.kind]
                                  /\ ~strayed => Belongs(c, draft)
    /\ ~strayed => Fits(draft)

LEMMA WizardIsShown == Wizard!ActiveSlide = Shown(draft)
BY DEF Wizard!ActiveSlide, Shown

LEMMA ShownDraft ==
    ASSUME NEW d \in WizardDrafts
    PROVE  Shown(d) = (IF d.slide = 6 /\ Wizard!isProxyProvider(d.provider.name) THEN 7
                       ELSE d.slide)
BY VisibleSlide DEF Shown, WizardDrafts

\* A slide that goes takes its calls' word with it; what they were made for stays.
LEMMA LeavingKeepsTheCall ==
    ASSUME NEW c, CallMade(c)
    PROVE  /\ CallMade([c EXCEPT !.here = FALSE])
           /\ [c EXCEPT !.here = FALSE].here = FALSE
<1>1. PICK k : k = [c EXCEPT !.here = FALSE] OBVIOUS
<1>2. c \in MadeCalls BY DEF CallMade
<1>3. k \in MadeCalls BY <1>1, <1>2 DEF MadeCalls
<1>4. /\ k.id = c.id /\ k.kind = c.kind /\ k.of = c.of /\ k.at = c.at /\ k.here = FALSE
      /\ k.form = c.form
  BY <1>1, <1>2 DEF MadeCalls
<1>5. CallMade(k) BY <1>3, <1>4 DEF CallMade
<1> QED BY <1>1, <1>4, <1>5

\* The draft becomes d, and the calls of a slide that goes with it lose it.
LEMMA DraftBecomes ==
    ASSUME WizardInv, NEW d \in WizardDrafts, draft' = d, NEW rest \in SUBSET calls,
           calls' = {IF c.here /\ Shown(d) # Shown(draft) THEN [c EXCEPT !.here = FALSE] ELSE c :
                     c \in rest},
           made' \in Nat, strayed' \in BOOLEAN,
           ~strayed' => Fits(d),
           \A c \in rest : c.here /\ Shown(d) = Shown(draft) /\ ~strayed' => Belongs(c, d)
    PROVE  WizardInv'
<1> SUFFICES ASSUME NEW k \in calls'
             PROVE  /\ CallMade(k)
                    /\ k.here => /\ Shown(d) = SlideOf[k.kind]
                                 /\ ~strayed' => Belongs(k, d)
  BY DEF WizardInv, Fits, Belongs, Shown, CallMade
<1>1. PICK c \in rest : k = IF c.here /\ Shown(d) # Shown(draft) THEN [c EXCEPT !.here = FALSE] ELSE c
  OBVIOUS
<1>2. CallMade(c) BY DEF WizardInv
<1>3. CASE c.here /\ Shown(d) # Shown(draft) BY <1>1, <1>2, <1>3, LeavingKeepsTheCall
<1>4. CASE ~(c.here /\ Shown(d) # Shown(draft))
  BY <1>1, <1>2, <1>4 DEF WizardInv
<1> QED BY <1>3, <1>4

LEMMA DraftIsShown ==
    ASSUME WizardInv, NEW d \in WizardDrafts, Wizard!Shows(d),
           made' = made, strayed' \in BOOLEAN, ~strayed' => Fits(d),
           \A c \in calls : c.here /\ Shown(d) = Shown(draft) /\ ~strayed' => Belongs(c, d)
    PROVE  WizardInv'
<1>1. calls' = {IF c.here /\ Shown(d) # Shown(draft) THEN [c EXCEPT !.here = FALSE] ELSE c :
                c \in calls}
  BY WizardIsShown DEF Wizard!Shows, Wizard!Unmounted, Shown
<1>2. draft' = d /\ made' \in Nat BY DEF Wizard!Shows, WizardInv
<1> QED BY <1>1, <1>2, DraftBecomes

LEMMA DraftLands ==
    ASSUME WizardInv, NEW c \in calls, NEW d \in WizardDrafts, Wizard!Lands(c, d),
           made' = made, strayed' \in BOOLEAN, ~strayed' => Fits(d),
           \A k \in calls : k.here /\ Shown(d) = Shown(draft) /\ ~strayed' => Belongs(k, d)
    PROVE  WizardInv'
<1>1. /\ Wizard!Done(c) \in SUBSET calls
      /\ calls' = {IF k.here /\ Shown(d) # Shown(draft) THEN [k EXCEPT !.here = FALSE] ELSE k :
                   k \in Wizard!Done(c)}
  BY WizardIsShown DEF Wizard!Lands, Wizard!Done, Shown
<1>2. draft' = d /\ made' \in Nat BY DEF Wizard!Lands, WizardInv
<1> QED BY <1>1, <1>2, DraftBecomes

\* Only the slide changes: to one before, or past what the draft answers.
LEMMA SlideMoves ==
    ASSUME WizardInv, NEW s \in 0..7,
           NEW d, d = [draft EXCEPT !.slide = s], Wizard!Shows(d), Wizard!Keeps,
           Shown(d) # Shown(draft), Shown(d) > 1 => Shown(draft) > 1,
           Shown(d) > 3 => Shown(draft) > 3 \/ draft.modpack
    PROVE  WizardInv'
<1>1. draft \in WizardDrafts BY DEF WizardInv
<1>2. s \in 0..8 /\ s # 8 OBVIOUS
<1>3. d \in WizardDrafts BY <1>1, <1>2, Zenon DEF WizardDrafts
<1>4. /\ d.slide = s /\ d.name = draft.name /\ d.choice = draft.choice
      /\ d.provider = draft.provider /\ d.jar = draft.jar /\ d.created = draft.created
      /\ d.modpack = draft.modpack /\ d.manual = draft.manual
  BY <1>1 DEF WizardDrafts
<1>5. ~strayed => Fits(d)
  <2> SUFFICES ASSUME ~strayed PROVE Fits(d) OBVIOUS
  <2>1. Fits(draft) BY DEF WizardInv
  <2>2. d.slide # 8 BY <1>2, <1>4
  <2> QED BY <1>4, <2>1, <2>2 DEF Fits
<1>6. strayed' = strayed /\ made' = made /\ strayed \in BOOLEAN BY DEF Wizard!Keeps, WizardInv
<1> QED BY <1>3, <1>5, <1>6, DraftIsShown

\* Where the steps between the slides lead.
LEMMA WizardMoves ==
    ASSUME WizardInv, \/ Wizard!startFlow \/ Wizard!prevSlide \/ Wizard!SettingsContinue
                      \/ Wizard!ModpackContinue
    PROVE  WizardInv'
<1> DEFINE p == draft.provider.name
           next == Wizard!getCreateServerNextSlide(draft.slide, p)
           prev == Wizard!getCreateServerPreviousSlide(draft.slide, p)
<1>1. draft \in WizardDrafts /\ draft.slide \in 0..8 /\ Wizard!ActiveSlide = Shown(draft)
      /\ Shown(draft) = Wizard!getCreateServerVisibleSlide(draft.slide, p)
  BY WizardIsShown DEF WizardInv, WizardDrafts, Shown
<1>2. \A s \in 0..8 : LET d == [draft EXCEPT !.slide = s]
                      IN  Shown(d) = Wizard!getCreateServerVisibleSlide(s, p)
  BY <1>1 DEF Shown, WizardDrafts
<1>3. CASE Wizard!startFlow
  <2>1. PICK d : d = [draft EXCEPT !.slide = 1] OBVIOUS
  <2>2. Wizard!Shows(d) /\ Wizard!Keeps /\ Shown(draft) = 0
    BY <1>1, <1>3, <2>1 DEF Wizard!startFlow
  <2>3. Shown(d) = 1 BY <1>2, <2>1, VisibleSlide
  <2> QED BY <2>1, <2>2, <2>3, SlideMoves
<1>4. CASE Wizard!prevSlide
  <2>1. PICK d : d = [draft EXCEPT !.slide = prev] OBVIOUS
  <2>2. Wizard!Shows(d) /\ Wizard!Keeps /\ Shown(draft) \in 1..7
    BY <1>1, <1>4, <2>1 DEF Wizard!prevSlide
  <2>3. prev \in 0..7 /\ Shown(d) = prev /\ prev < Shown(draft)
    BY <1>1, <1>2, <2>1, <2>2, PreviousSlide
  <2> HIDE DEF prev
  <2> QED BY <2>1, <2>2, <2>3, SlideMoves
<1>5. CASE Wizard!SettingsContinue \/ Wizard!ModpackContinue
  <2>1. PICK d : d = [draft EXCEPT !.slide = next] OBVIOUS
  <2>2. /\ Wizard!Shows(d) /\ Wizard!Keeps
        /\ Shown(draft) \in 4..6 \/ (Shown(draft) = 3 /\ draft.modpack)
    BY <1>1, <1>5, <2>1
       DEF Wizard!SettingsContinue, Wizard!ModpackContinue, Wizard!nextSlide, Wizard!SlideIndex
  <2>3. next \in 0..7 /\ Shown(d) = next /\ next > Shown(draft)
    BY <1>1, <1>2, <2>1, <2>2, NextSlide
  <2> HIDE DEF next
  <2> QED BY <2>1, <2>2, <2>3, SlideMoves
<1> QED BY <1>3, <1>4, <1>5

LEMMA WizardNames ==
    ASSUME WizardInv, NEW n \in Names \union {Wizard!NoName}, Wizard!setServerName(n)
    PROVE  WizardInv'
<1>1. PICK d : d = [draft EXCEPT !.name = n] OBVIOUS
<1>2. /\ Wizard!Shows(d) /\ Wizard!Keeps /\ Shown(draft) = 1
  BY <1>1, WizardIsShown DEF Wizard!setServerName, Wizard!SlideIndex
<1>3. draft \in WizardDrafts /\ d \in WizardDrafts BY <1>1, Zenon DEF WizardInv, WizardDrafts
<1>4. /\ d.slide = draft.slide /\ d.choice = draft.choice /\ d.provider = draft.provider
      /\ d.jar = draft.jar /\ d.created = draft.created
      /\ d.modpack = draft.modpack /\ d.manual = draft.manual
  BY <1>1, <1>3 DEF WizardDrafts
<1>5. Shown(d) = 1 BY <1>2, <1>4 DEF Shown
<1>6. ~strayed => Fits(d)
  <2> SUFFICES ASSUME ~strayed PROVE Fits(d) OBVIOUS
  <2>1. Fits(draft) BY DEF WizardInv
  <2>2. ~(Shown(d) > 1) /\ ~(Shown(d) > 3) BY <1>5
  <2> QED BY <1>4, <2>1, <2>2 DEF Fits
<1>7. \A c \in calls : c.here /\ ~strayed => Belongs(c, d)
  BY <1>2, <1>4, <1>5 DEF WizardInv, Belongs
<1>8. strayed' = strayed /\ made' = made /\ strayed \in BOOLEAN
  BY <1>2 DEF Wizard!Keeps, WizardInv
<1> QED BY <1>2, <1>3, <1>6, <1>7, <1>8, DraftIsShown

\* Calls come from three slides.
LEMMA CallSlides ==
    ASSUME NEW c, CallMade(c)
    PROVE  /\ c.kind \in {"name", "jar", "file", "create"}
           /\ SlideOf[c.kind] = IF c.kind = "name" THEN 1 ELSE IF c.kind = "create" THEN 7 ELSE 3
BY DEF CallMade, MadeCalls, SlideOf

\* On to the next slide with the same answers.
LEMMA NextDraft ==
    ASSUME NEW e \in WizardDrafts, NEW d, d = Wizard!nextSlide(e)
    PROVE  /\ d \in WizardDrafts
           /\ Shown(d) = d.slide
           /\ d.slide = IF Shown(e) = 8 THEN 8
                        ELSE IF Shown(e) = 5 /\ Wizard!isProxyProvider(e.provider.name) THEN 7
                        ELSE Shown(e) + 1
           /\ d.name = e.name /\ d.choice = e.choice /\ d.provider = e.provider
           /\ d.jar = e.jar /\ d.created = e.created
           /\ d.modpack = e.modpack /\ d.manual = e.manual
<1>1. PICK n : n = Wizard!getCreateServerNextSlide(e.slide, e.provider.name) OBVIOUS
<1>2. d = [e EXCEPT !.slide = n] BY <1>1 DEF Wizard!nextSlide
<1>3. e.slide \in 0..8 BY DEF WizardDrafts
<1>4. /\ n \in 1..8
      /\ n = IF Shown(e) = 8 THEN 8
             ELSE IF Shown(e) = 5 /\ Wizard!isProxyProvider(e.provider.name) THEN 7
             ELSE Shown(e) + 1
      /\ Wizard!getCreateServerVisibleSlide(n, e.provider.name) = n
  BY <1>1, <1>3, NextSlide DEF Shown
<1>5. n \in 0..8 BY <1>4
<1>6. d \in WizardDrafts BY <1>2, <1>5, Zenon DEF WizardDrafts
<1>7. /\ d.slide = n /\ d.name = e.name /\ d.choice = e.choice /\ d.provider = e.provider
      /\ d.jar = e.jar /\ d.created = e.created
      /\ d.modpack = e.modpack /\ d.manual = e.manual
  BY <1>2 DEF WizardDrafts
<1>8. Shown(d) = n BY <1>4, <1>7 DEF Shown
<1> QED BY <1>4, <1>6, <1>7, <1>8

LEMMA WizardStarts ==
    ASSUME Wizard!WizardInit
    PROVE  WizardInv
<1>1. PICK d : d = Wizard!EmptyDraft OBVIOUS
<1>2. d \in WizardDrafts /\ d.slide = 0 /\ d.jar = "none"
  BY <1>1 DEF Wizard!EmptyDraft, Wizard!NoProvider, WizardDrafts, SomeProviders, ProviderNames,
     Chosens
<1>3. Shown(d) = 0 BY <1>2, ShownDraft
<1>4. ~(Shown(d) > 1) /\ ~(Shown(d) > 3) BY <1>3
<1>5. Fits(d) BY <1>2, <1>4 DEF Fits
<1>6. draft = d /\ calls = {} /\ made = 0 /\ strayed = FALSE BY <1>1 DEF Wizard!WizardInit
<1> QED BY <1>2, <1>5, <1>6 DEF WizardInv

LEMMA WizardResets ==
    ASSUME WizardInv, Wizard!Reset \/ Wizard!goToCreatedServer
    PROVE  WizardInv'
<1>1. PICK d : d = Wizard!EmptyDraft OBVIOUS
<1>2. d \in WizardDrafts /\ d.slide = 0 /\ d.jar = "none"
  BY <1>1 DEF Wizard!EmptyDraft, Wizard!NoProvider, WizardDrafts, SomeProviders, ProviderNames,
     Chosens
<1>3. Shown(d) = 0 BY <1>2, ShownDraft
<1>4. ~(Shown(d) > 1) /\ ~(Shown(d) > 3) BY <1>3
<1>5. Fits(d) BY <1>2, <1>4 DEF Fits
<1>6. Wizard!Shows(d) /\ strayed' = FALSE /\ made' = made
  BY <1>1 DEF Wizard!Reset, Wizard!goToCreatedServer, Wizard!resetDraft
<1>7. \A c \in calls : c.here => Shown(draft) # Shown(d)
  BY <1>3, CallSlides DEF WizardInv
<1> QED BY <1>2, <1>5, <1>6, <1>7, DraftIsShown

\* The user leaves the page; the draft is what another page makes of it, or as it was.
LEMMA PageIsLeft ==
    ASSUME WizardInv, NEW d \in WizardDrafts, draft' = d, made' = made, strayed' = strayed,
           calls' = {[c EXCEPT !.here = FALSE] : c \in calls},
           ~strayed => Fits(d)
    PROVE  WizardInv'
<1> SUFFICES ASSUME NEW k \in calls'
             PROVE  CallMade(k) /\ ~k.here
  BY DEF WizardInv, Fits, Belongs, Shown, CallMade
<1>1. PICK c \in calls : k = [c EXCEPT !.here = FALSE] OBVIOUS
<1>2. CallMade(c) BY DEF WizardInv
<1> QED BY <1>1, <1>2, LeavingKeepsTheCall

\* The same choice again keeps the draft; another one drops its jar.
LEMMA ChoiceDraft ==
    ASSUME NEW e \in WizardDrafts, NEW choice \in Sources, NEW d, d = Wizard!Chosen(e, choice)
    PROVE  /\ d \in WizardDrafts /\ d.slide = e.slide /\ d.name = e.name /\ d.created = e.created
           /\ d = e \/ d.jar = "none"
<1>1. CASE e.choice = choice BY <1>1 DEF Wizard!Chosen
<1>2. CASE e.choice # choice
  <2>1. PICK t : t = IF choice = "modpack" THEN Wizard!NoProvider ELSE Wizard!createProvider(choice)
    OBVIOUS
  <2>2. t \in SomeProviders
    BY <2>1 DEF Wizard!NoProvider, Wizard!createProvider, SomeProviders, ProviderNames, Chosens
  <2>3. PICK m : m = (e.modpack /\ choice = "modpack") OBVIOUS
  <2>4. d = [e EXCEPT !.choice = choice, !.provider = t, !.jar = "none", !.modpack = m,
                      !.manual = FALSE]
    BY <1>2, <2>1, <2>3 DEF Wizard!Chosen
  <2>5. choice \in Chosens /\ "none" \in Chosens /\ m \in BOOLEAN BY <2>3 DEF Chosens
  <2>6. d \in WizardDrafts BY <2>2, <2>4, <2>5 DEF WizardDrafts
  <2>7. d.slide = e.slide /\ d.name = e.name /\ d.created = e.created /\ d.jar = "none"
    BY <2>4 DEF WizardDrafts
  <2> QED BY <2>6, <2>7
<1> QED BY <1>1, <1>2

LEMMA WizardPicks ==
    ASSUME WizardInv, NEW choice \in Sources, Wizard!pick(choice)
    PROVE  WizardInv'
<1>1. PICK e : e = Wizard!Chosen(draft, choice) OBVIOUS
<1>2. PICK d : d = Wizard!nextSlide(e) OBVIOUS
<1>3. Shown(draft) = 2 /\ Wizard!Shows(d) /\ Wizard!Keeps /\ draft \in WizardDrafts
  BY <1>1, <1>2, WizardIsShown DEF Wizard!pick, Wizard!SlideIndex, WizardInv
<1>4. /\ e \in WizardDrafts /\ e.slide = draft.slide /\ e.name = draft.name
      /\ e.created = draft.created /\ (e = draft \/ e.jar = "none")
  BY <1>1, <1>3, ChoiceDraft
<1>5. draft.slide = 2 BY <1>3, ShownDraft
<1>6. Shown(e) = 2 BY <1>4, <1>5, ShownDraft
<1>7. /\ d \in WizardDrafts /\ d.slide = 3 /\ Shown(d) = 3
      /\ d.name = e.name /\ d.created = e.created /\ d.choice = e.choice /\ d.provider = e.provider
      /\ d.jar = e.jar /\ d.manual = e.manual
  BY <1>2, <1>4, <1>6, NextDraft
<1>8. ~strayed => Fits(d)
  <2> SUFFICES ASSUME ~strayed PROVE Fits(d) OBVIOUS
  <2>1. Fits(draft) BY DEF WizardInv
  <2>2. ~(Shown(d) > 3) /\ Shown(draft) > 1 /\ d.slide # 8 BY <1>3, <1>7
  <2> QED BY <1>4, <1>7, <2>1, <2>2 DEF Fits
<1>9. strayed' = strayed /\ made' = made /\ strayed \in BOOLEAN
  BY <1>3 DEF Wizard!Keeps, WizardInv
<1>10. \A c \in calls : c.here => Shown(draft) # Shown(d)
  BY <1>3, CallSlides DEF WizardInv
<1> QED BY <1>3, <1>7, <1>8, <1>9, <1>10, DraftIsShown

LEMMA WizardIsPreset ==
    ASSUME WizardInv, NEW choice \in Sources, Wizard!Preset(choice)
    PROVE  WizardInv'
<1>1. PICK d : d = Wizard!Chosen(draft, choice) OBVIOUS
<1>2. /\ draft' = d /\ calls' = {[c EXCEPT !.here = FALSE] : c \in calls} /\ Wizard!Keeps
      /\ draft.jar = "none" /\ ~draft.modpack /\ draft \in WizardDrafts
  BY <1>1 DEF Wizard!Preset, WizardInv
<1>3. /\ d \in WizardDrafts /\ d.slide = draft.slide /\ d.name = draft.name
      /\ d.created = draft.created /\ d.jar = "none"
  BY <1>1, <1>2, ChoiceDraft
<1>4. ~strayed => Fits(d)
  <2> SUFFICES ASSUME ~strayed PROVE Fits(d) OBVIOUS
  <2>1. Fits(draft) BY DEF WizardInv
  <2>2. ~(Shown(draft) > 3) BY <1>2, <2>1 DEF Fits
  <2>3. draft.slide \in 0..3 /\ Shown(draft) = draft.slide
    BY <1>2, <2>2, ShownDraft DEF WizardDrafts
  <2>4. Shown(d) = Shown(draft) /\ d.slide # 8 BY <1>3, <2>3, ShownDraft
  <2> QED BY <1>3, <2>1, <2>2, <2>4 DEF Fits
<1>5. strayed' = strayed /\ made' = made /\ strayed \in BOOLEAN
  BY <1>2 DEF Wizard!Keeps, WizardInv
<1> QED BY <1>2, <1>3, <1>4, <1>5, PageIsLeft

\* On the version slide the draft changes about its jar, not about its choice.
LEMMA JarChanges ==
    ASSUME WizardInv, NEW d \in WizardDrafts, Wizard!Shows(d), Wizard!Keeps,
           Shown(draft) = 3, d.slide = draft.slide,
           d.name = draft.name, d.choice = draft.choice, d.created = draft.created,
           d.jar = "none" \/ d.manual \/
              (d.jar = draft.jar /\ d.provider = draft.provider /\ d.manual = draft.manual),
           d.choice = "modpack" \/ d.manual
    PROVE  WizardInv'
<1>1. draft.slide = 3 BY ShownDraft DEF WizardInv
<1>2. Shown(d) = 3 BY <1>1, ShownDraft
<1>3. ~strayed => Fits(d)
  <2> SUFFICES ASSUME ~strayed PROVE Fits(d) OBVIOUS
  <2>1. Fits(draft) BY DEF WizardInv
  <2>2. ~(Shown(d) > 3) /\ Shown(draft) > 1 /\ d.slide # 8 BY <1>1, <1>2
  <2> QED BY <2>1, <2>2 DEF Fits
<1>4. \A c \in calls : c.here /\ ~strayed => Belongs(c, d)
  <2> SUFFICES ASSUME NEW c \in calls, c.here, ~strayed PROVE Belongs(c, d) OBVIOUS
  <2>1. Belongs(c, draft) BY DEF WizardInv
  <2> QED BY <1>2, <2>1 DEF Belongs
<1>5. strayed' = strayed /\ made' = made /\ strayed \in BOOLEAN BY DEF Wizard!Keeps, WizardInv
<1> QED BY <1>3, <1>4, <1>5, DraftIsShown

LEMMA WizardModpack ==
    ASSUME WizardInv, NEW on \in BOOLEAN, Wizard!setModpack(on)
    PROVE  WizardInv'
<1>1. /\ Shown(draft) = 3 /\ draft.choice = "modpack" /\ Wizard!Keeps /\ draft \in WizardDrafts
      /\ Wizard!Shows(IF on THEN [draft EXCEPT !.modpack = TRUE, !.provider = Wizard!NoProvider,
                                               !.jar = "none"]
                      ELSE [draft EXCEPT !.modpack = FALSE])
  BY WizardIsShown DEF Wizard!setModpack, Wizard!SlideIndex, WizardInv
<1>2. CASE on
  <2>1. PICK d : d = [draft EXCEPT !.modpack = TRUE, !.provider = Wizard!NoProvider, !.jar = "none"]
    OBVIOUS
  <2>2. Wizard!NoProvider \in SomeProviders /\ "none" \in Chosens
    BY DEF Wizard!NoProvider, SomeProviders, ProviderNames, Chosens
  <2>3. d \in WizardDrafts BY <1>1, <2>1, <2>2 DEF WizardDrafts
  <2>4. d.slide = draft.slide /\ d.name = draft.name /\ d.choice = draft.choice
        /\ d.created = draft.created /\ d.jar = "none"
    BY <1>1, <2>1 DEF WizardDrafts
  <2> QED BY <1>1, <1>2, <2>1, <2>3, <2>4, JarChanges
<1>3. CASE ~on
  <2>1. PICK d : d = [draft EXCEPT !.modpack = FALSE] OBVIOUS
  <2>2. d \in WizardDrafts BY <1>1, <2>1 DEF WizardDrafts
  <2>3. /\ d.slide = draft.slide /\ d.name = draft.name /\ d.choice = draft.choice
        /\ d.created = draft.created /\ d.jar = draft.jar /\ d.provider = draft.provider
        /\ d.manual = draft.manual
    BY <1>1, <2>1 DEF WizardDrafts
  <2> QED BY <1>1, <1>3, <2>1, <2>2, <2>3, JarChanges
<1> QED BY <1>2, <1>3

LEMMA WizardJar ==
    ASSUME WizardInv, Wizard!ClearJar \/ \E p \in Sources \ {"modpack"} : Wizard!PickJar(p)
    PROVE  WizardInv'
<1>1. CASE Wizard!ClearJar
  <2>1. PICK d : d = [draft EXCEPT !.jar = "none", !.manual = TRUE] OBVIOUS
  <2>2. Shown(draft) = 3 /\ Wizard!Keeps /\ draft \in WizardDrafts /\ Wizard!Shows(d)
    BY <1>1, <2>1, WizardIsShown DEF Wizard!ClearJar, Wizard!SlideIndex, WizardInv
  <2>3. d \in WizardDrafts BY <2>1, <2>2 DEF WizardDrafts, Chosens
  <2>4. d.slide = draft.slide /\ d.name = draft.name /\ d.choice = draft.choice
        /\ d.created = draft.created /\ d.manual = TRUE
    BY <2>1, <2>2 DEF WizardDrafts
  <2> QED BY <2>2, <2>3, <2>4, JarChanges
<1>2. ASSUME NEW p \in Sources \ {"modpack"}, Wizard!PickJar(p) PROVE WizardInv'
  <2>1. PICK i : i = Wizard!inferProviderFromJarPath(Wizard!JarName({p, "server"})) OBVIOUS
  <2>2. PICK t : t = [name |-> i, versioned |-> TRUE] OBVIOUS
  <2>3. PICK d : d = [draft EXCEPT !.jar = p, !.manual = TRUE, !.provider = t] OBVIOUS
  <2>4. Shown(draft) = 3 /\ Wizard!Keeps /\ draft \in WizardDrafts /\ Wizard!Shows(d)
    BY <1>2, <2>1, <2>2, <2>3, WizardIsShown DEF Wizard!PickJar, Wizard!SlideIndex, WizardInv
  <2>5. i \in ProviderNames BY <2>1 DEF ProviderNames
  <2>6. t \in SomeProviders /\ p \in Chosens BY <2>2, <2>5 DEF SomeProviders, Chosens
  <2>7. d \in WizardDrafts BY <2>3, <2>4, <2>6 DEF WizardDrafts
  <2>8. d.slide = draft.slide /\ d.name = draft.name /\ d.choice = draft.choice
        /\ d.created = draft.created /\ d.manual = TRUE
    BY <2>3, <2>4 DEF WizardDrafts
  <2> QED BY <2>4, <2>7, <2>8, JarChanges
<1> QED BY <1>1, <1>2

LEMMA WizardEula ==
    ASSUME WizardInv, NEW on \in BOOLEAN, Wizard!AcceptEula(on)
    PROVE  WizardInv'
<1>1. PICK d : d = [draft EXCEPT !.eula = on] OBVIOUS
<1>2. Wizard!Shows(d) /\ Wizard!Keeps /\ draft \in WizardDrafts
  BY <1>1 DEF Wizard!AcceptEula, WizardInv
<1>3. d \in WizardDrafts BY <1>1, <1>2 DEF WizardDrafts
<1>4. /\ d.slide = draft.slide /\ d.name = draft.name /\ d.choice = draft.choice
      /\ d.provider = draft.provider /\ d.jar = draft.jar /\ d.created = draft.created
      /\ d.modpack = draft.modpack /\ d.manual = draft.manual
  BY <1>1, <1>2 DEF WizardDrafts
<1>5. Shown(d) = Shown(draft) BY <1>4 DEF Shown
<1>6. ~strayed => Fits(d) BY <1>4, <1>5 DEF WizardInv, Fits
<1>7. \A c \in calls : c.here /\ ~strayed => Belongs(c, d) BY <1>4, <1>5 DEF WizardInv, Belongs
<1>8. strayed' = strayed /\ made' = made /\ strayed \in BOOLEAN
  BY <1>2 DEF Wizard!Keeps, WizardInv
<1> QED BY <1>2, <1>3, <1>6, <1>7, <1>8, DraftIsShown

\* A click makes a call of the shown slide.
LEMMA CallIsMade ==
    ASSUME WizardInv, NEW c, CallMade(c), c.here => Shown(draft) = SlideOf[c.kind],
           ~strayed => Belongs(c, draft), Wizard!Asks(c), draft' = draft
    PROVE  WizardInv'
<1>1. made' \in Nat /\ strayed' = strayed /\ calls' = calls \union {c}
  BY DEF Wizard!Asks, WizardInv
<1>2. \A k \in calls' : CallMade(k) BY <1>1 DEF WizardInv
<1>3. \A k \in calls' : k.here => /\ Shown(draft) = SlideOf[k.kind]
                                  /\ ~strayed => Belongs(k, draft)
  BY <1>1 DEF WizardInv
<1> QED BY <1>1, <1>2, <1>3 DEF WizardInv, Fits, Belongs, Shown, CallMade

LEMMA CallIsTyped ==
    ASSUME WizardInv, NEW what \in {"name", "jar", "file", "create"}, NEW of \in Names \union Sources,
           NEW at \in {"asked", "folder"}
    PROVE  Wizard!Call(what, of, at) \in MadeCalls
<1>1. PICK f : f = [provider |-> draft.provider, jar |-> draft.jar, modpack |-> draft.modpack]
  OBVIOUS
<1>2. f \in [provider : SomeProviders, jar : Chosens, modpack : BOOLEAN]
  BY <1>1 DEF WizardInv, WizardDrafts
<1>3. Wizard!Call(what, of, at)
        = [id |-> made, kind |-> what, of |-> of, at |-> at, here |-> TRUE, form |-> f]
  BY <1>1 DEF Wizard!Call
<1>4. made \in Nat BY DEF WizardInv
<1> QED BY <1>2, <1>3, <1>4 DEF MadeCalls

LEMMA WizardAsks ==
    ASSUME WizardInv, \/ Wizard!CheckName \/ Wizard!DownloadJar \/ Wizard!CheckJar
                      \/ Wizard!createServer
    PROVE  WizardInv'
<1>1. /\ draft \in WizardDrafts /\ draft.name \in Names \union {Wizard!NoName}
      /\ draft.choice \in Chosens /\ draft.jar \in Chosens
      /\ Wizard!ActiveSlide = Shown(draft)
  BY WizardIsShown DEF WizardInv, WizardDrafts
<1>2. CASE Wizard!CheckName
  <2>1. PICK c : c = Wizard!Call("name", draft.name, "asked") OBVIOUS
  <2>2. /\ Shown(draft) = 1 /\ draft.name \in Names /\ draft.name # Wizard!NoName
        /\ Wizard!Asks(c) /\ draft' = draft
    BY <1>1, <1>2, <2>1 DEF Wizard!CheckName, Wizard!SlideIndex, Wizard!validateServerName
  <2>3. c.kind = "name" /\ c.of = draft.name /\ c.at = "asked" BY <2>1 DEF Wizard!Call
  <2>4. c \in MadeCalls BY <2>1, <2>2, CallIsTyped
  <2>5. CallMade(c) BY <2>2, <2>3, <2>4 DEF CallMade
  <2>6. Shown(draft) = SlideOf[c.kind] BY <2>2, <2>3 DEF SlideOf
  <2>7. Belongs(c, draft) BY <2>3, <2>6 DEF Belongs
  <2> QED BY <2>2, <2>5, <2>6, <2>7, CallIsMade
<1>3. CASE Wizard!DownloadJar
  <2>1. PICK c : c = Wizard!Call("jar", draft.choice, "asked") OBVIOUS
  <2>2. /\ Shown(draft) = 3 /\ draft.choice \in Sources /\ Wizard!Asks(c) /\ draft' = draft
    BY <1>1, <1>3, <2>1 DEF Wizard!DownloadJar, Wizard!SlideIndex, Chosens
  <2>3. c.kind = "jar" /\ c.of = draft.choice /\ c.at = "asked" BY <2>1 DEF Wizard!Call
  <2>4. c \in MadeCalls BY <2>1, <2>2, CallIsTyped
  <2>5. CallMade(c) BY <2>2, <2>3, <2>4 DEF CallMade
  <2>6. Shown(draft) = SlideOf[c.kind] BY <2>2, <2>3 DEF SlideOf
  <2>7. Belongs(c, draft) BY <2>3, <2>6 DEF Belongs
  <2> QED BY <2>2, <2>5, <2>6, <2>7, CallIsMade
<1>4. CASE Wizard!CheckJar
  <2>1. PICK c : c = Wizard!Call("file", draft.jar, "asked") OBVIOUS
  <2>2. /\ Shown(draft) = 3 /\ draft.jar \in Sources /\ draft.jar # "none"
        /\ draft.choice \notin {"none", "modpack"}
        /\ draft.provider.versioned /\ Wizard!Asks(c) /\ draft' = draft
    BY <1>1, <1>4, <2>1 DEF Wizard!CheckJar, Wizard!SlideIndex, Chosens
  <2>3. c.kind = "file" /\ c.of = draft.jar /\ c.at = "asked" /\ c.form.provider = draft.provider
    BY <2>1 DEF Wizard!Call
  <2>4. c \in MadeCalls BY <2>1, <2>2, CallIsTyped
  <2>5. CallMade(c) BY <2>2, <2>3, <2>4 DEF CallMade
  <2>6. Shown(draft) = SlideOf[c.kind] BY <2>2, <2>3 DEF SlideOf
  <2>7. ~strayed => Belongs(c, draft)
    <3>1. ~strayed => Fits(draft) BY DEF WizardInv
    <3> QED BY <2>2, <2>3, <2>6, <3>1 DEF Belongs, Fits
  <2> QED BY <2>2, <2>5, <2>6, <2>7, CallIsMade
<1>5. CASE Wizard!createServer /\ Wizard!validateServerName(draft.name)
  <2>1. PICK c : c = Wizard!Call("create", draft.name, "folder") OBVIOUS
  <2>2. /\ Shown(draft) = 7 /\ draft.name \in Names /\ draft.name # Wizard!NoName
        /\ Wizard!Asks(c) /\ draft' = draft
    BY <1>1, <1>5, <2>1 DEF Wizard!createServer, Wizard!SlideIndex, Wizard!validateServerName
  <2>3. c.kind = "create" /\ c.of = draft.name /\ c.at = "folder" BY <2>1 DEF Wizard!Call
  <2>4. c \in MadeCalls BY <2>1, <2>2, CallIsTyped
  <2>5. CallMade(c) BY <2>2, <2>3, <2>4 DEF CallMade
  <2>6. Shown(draft) = SlideOf[c.kind] BY <2>2, <2>3 DEF SlideOf
  <2>7. Belongs(c, draft) BY <2>3, <2>6 DEF Belongs
  <2> QED BY <2>2, <2>5, <2>6, <2>7, CallIsMade
<1>6. CASE Wizard!createServer /\ ~Wizard!validateServerName(draft.name)
  <2>1. PICK d : d = [draft EXCEPT !.slide = 1] OBVIOUS
  <2>2. Shown(draft) = 7 /\ Wizard!Shows(d) /\ Wizard!Keeps
    BY <1>1, <1>6, <2>1 DEF Wizard!createServer, Wizard!SlideIndex
  <2>3. d.slide = 1 BY <1>1, <2>1 DEF WizardDrafts
  <2>4. Shown(d) = 1 BY <2>3, VisibleSlide DEF Shown
  <2> QED BY <2>1, <2>2, <2>4, SlideMoves
<1> QED BY <1>2, <1>3, <1>4, <1>5, <1>6

\* A call ends or goes on; of the draft only whether it is being submitted changes.
LEMMA CreationSteps ==
    ASSUME WizardInv, NEW b \in BOOLEAN, NEW d, d = draft \/ d = [draft EXCEPT !.submitting = b],
           draft' = d, made' = made, strayed' = strayed,
           \A k \in calls' : \/ k \in calls
                             \/ /\ CallMade(k)
                                /\ \E c \in calls : c.kind = "create" /\ k.kind = "create"
                                                    /\ (k.here <=> c.here)
    PROVE  WizardInv'
<1>1. draft \in WizardDrafts BY DEF WizardInv
<1>2. d \in WizardDrafts BY <1>1 DEF WizardDrafts
<1>3. /\ d.slide = draft.slide /\ d.name = draft.name /\ d.choice = draft.choice
      /\ d.provider = draft.provider /\ d.jar = draft.jar /\ d.created = draft.created
      /\ d.modpack = draft.modpack /\ d.manual = draft.manual
  BY <1>1 DEF WizardDrafts
<1>4. Shown(d) = Shown(draft) BY <1>3 DEF Shown
<1>5. ~strayed => Fits(d) BY <1>3, <1>4 DEF WizardInv, Fits
<1>6. ASSUME NEW k \in calls'
      PROVE  CallMade(k) /\ (k.here => /\ Shown(d) = SlideOf[k.kind] /\ (~strayed => Belongs(k, d)))
  <2>1. CASE k \in calls
    <3>1. CallMade(k) /\ (k.here => /\ Shown(draft) = SlideOf[k.kind] /\ (~strayed => Belongs(k, draft)))
      BY <2>1 DEF WizardInv
    <3> QED BY <1>3, <1>4, <3>1 DEF Belongs
  <2>2. CASE k \notin calls
    <3>1. PICK c \in calls : c.kind = "create" /\ k.kind = "create" /\ (k.here <=> c.here)
      BY <1>6, <2>2
    <3>2. c.here => Shown(draft) = SlideOf[c.kind] BY DEF WizardInv
    <3>3. k.here => Shown(d) = SlideOf[k.kind] BY <1>4, <3>1, <3>2
    <3>4. CallMade(k) BY <1>6, <2>2
    <3> QED BY <3>1, <3>3, <3>4 DEF Belongs
  <2> QED BY <2>1, <2>2
<1>7. made' \in Nat BY DEF WizardInv
<1> QED BY <1>2, <1>5, <1>6, <1>7 DEF WizardInv, Fits, Belongs, Shown, CallMade

\* A call that lands moves the draft on from the slide that made it.
LEMMA WizardLands ==
    ASSUME WizardInv, NEW c \in calls,
           Wizard!NameChecked(c) \/ Wizard!JarDownloaded(c) \/ Wizard!JarChecked(c)
    PROVE  WizardInv'
<1>1. /\ draft \in WizardDrafts /\ CallMade(c) /\ made' = made /\ strayed \in BOOLEAN
      /\ c.here => Shown(draft) = SlideOf[c.kind]
      /\ c.here /\ ~strayed => Belongs(c, draft)
      /\ ~strayed => Fits(draft)
  BY DEF WizardInv, Wizard!NameChecked, Wizard!JarDownloaded, Wizard!JarChecked
<1>2. ASSUME calls' = Wizard!Done(c), draft' = draft, strayed' = strayed PROVE WizardInv'
  BY <1>1, <1>2, CreationSteps DEF Wizard!Done
\* e is the draft with the call's answer.
<1>3. ASSUME NEW e \in WizardDrafts, NEW d, d = Wizard!nextSlide(e),
             Wizard!Lands(c, d), Wizard!Strays(c),
             e.slide = draft.slide, e.name = draft.name, e.created = draft.created,
             ~strayed' => /\ c.kind # "create"
                          /\ Fits(draft) /\ Shown(draft) = SlideOf[c.kind]
                          /\ c.kind = "name" => e.name # Wizard!NoName
                          /\ c.kind # "name" => e.jar # "none" /\ e.provider.versioned
                          /\ e.jar # "none" /\ ~e.manual =>
                                 e.provider.name = e.choice /\ e.jar = e.choice
      PROVE  WizardInv'
  <2>1. /\ d \in WizardDrafts /\ Shown(d) = d.slide
        /\ d.slide = IF Shown(e) = 8 THEN 8
                     ELSE IF Shown(e) = 5 /\ Wizard!isProxyProvider(e.provider.name) THEN 7
                     ELSE Shown(e) + 1
        /\ d.name = e.name /\ d.choice = e.choice /\ d.provider = e.provider
        /\ d.jar = e.jar /\ d.created = e.created
        /\ d.modpack = e.modpack /\ d.manual = e.manual
    BY <1>3, NextDraft
  <2>2. strayed' \in BOOLEAN /\ (~strayed' => ~strayed) BY <1>1, <1>3 DEF Wizard!Strays
  <2>3. ASSUME ~strayed'
        PROVE  /\ Shown(draft) = IF c.kind = "name" THEN 1 ELSE 3
               /\ d.slide = IF c.kind = "name" THEN 2 ELSE 4
    <3>1. Shown(draft) = IF c.kind = "name" THEN 1 ELSE 3 BY <1>1, <1>3, <2>3, CallSlides
    <3>2. draft.slide = Shown(draft) BY <1>1, <3>1, ShownDraft
    <3>3. Shown(e) = draft.slide BY <1>3, <3>1, <3>2, ShownDraft
    <3> QED BY <2>1, <3>1, <3>2, <3>3
  <2>4. ~strayed' => Fits(d)
    <3> SUFFICES ASSUME ~strayed' PROVE Fits(d) OBVIOUS
    <3>1. d.slide # 8 BY <2>3
    <3>2. d.name # Wizard!NoName \/ d.created # "none"
      <4>1. CASE c.kind = "name" BY <1>3, <2>1, <4>1
      <4>2. CASE c.kind # "name"
        <5>1. Shown(draft) > 1 BY <2>3, <4>2
        <5> QED BY <1>3, <2>1, <5>1 DEF Fits
      <4> QED BY <4>1, <4>2
    <3>3. Shown(d) > 3 => d.jar # "none" /\ d.provider.versioned
      <4>1. CASE c.kind = "name"
        <5>1. ~(Shown(d) > 3) BY <2>1, <2>3, <4>1
        <5> QED BY <5>1
      <4>2. CASE c.kind # "name" BY <1>3, <2>1, <4>2
      <4> QED BY <4>1, <4>2
    <3>4. d.jar # "none" /\ ~d.manual => d.provider.name = d.choice /\ d.jar = d.choice
      BY <1>3, <2>1
    <3> QED BY <3>1, <3>2, <3>3, <3>4 DEF Fits
  <2>5. ~strayed' => Shown(d) # Shown(draft)
    <3> SUFFICES ASSUME ~strayed' PROVE Shown(d) # Shown(draft) OBVIOUS
    <3> QED BY <2>1, <2>3
  <2> QED BY <1>1, <1>3, <2>1, <2>2, <2>4, <2>5, DraftLands
<1>4. CASE Wizard!NameChecked(c)
  <2>1. PICK d : d = Wizard!nextSlide(draft) OBVIOUS
  <2>2. \/ calls' = Wizard!Done(c) /\ draft' = draft /\ strayed' = strayed
        \/ Wizard!Lands(c, d) /\ Wizard!Strays(c)
    BY <1>4, <2>1 DEF Wizard!NameChecked
  <2>3. c.kind = "name" BY <1>4 DEF Wizard!NameChecked
  <2>4. CASE Wizard!Lands(c, d) /\ Wizard!Strays(c)
    <3>1. ASSUME ~strayed' PROVE ~strayed /\ c.here /\ draft.name = c.of
      BY <2>3, <2>4, <3>1 DEF Wizard!Strays, Wizard!AsAsked
    <3>2. c.of # Wizard!NoName BY <1>1, <2>3 DEF CallMade
    <3>3. ~strayed' => Fits(draft) /\ Shown(draft) = SlideOf[c.kind] /\ draft.name # Wizard!NoName
      BY <1>1, <3>1, <3>2
    <3> QED BY <1>1, <1>3, <2>1, <2>3, <2>4, <3>3 DEF Fits
  <2> QED BY <1>2, <2>2, <2>4
<1>5. CASE Wizard!JarDownloaded(c)
  <2>1. PICK t : t = [name |-> c.of, versioned |-> TRUE] OBVIOUS
  <2>2. PICK e : e = [draft EXCEPT !.modpack = FALSE, !.jar = c.of, !.manual = FALSE,
                                   !.provider = t]
    OBVIOUS
  <2>3. PICK d : d = Wizard!nextSlide(e) OBVIOUS
  <2>4. \/ calls' = Wizard!Done(c) /\ draft' = draft /\ strayed' = strayed
        \/ Wizard!Lands(c, d) /\ Wizard!Strays(c)
    BY <1>5, <2>1, <2>2, <2>3 DEF Wizard!JarDownloaded
  <2>5. c.kind = "jar" /\ c.of \in Sources /\ c.of # "none"
    BY <1>1, <1>5, WizardAssumption DEF Wizard!JarDownloaded, CallMade
  <2>6. t \in SomeProviders /\ c.of \in Chosens
    BY <2>1, <2>5 DEF SomeProviders, ProviderNames, Chosens
  <2>7. e \in WizardDrafts BY <1>1, <2>2, <2>6 DEF WizardDrafts
  <2>8. /\ e.slide = draft.slide /\ e.name = draft.name /\ e.created = draft.created
        /\ e.choice = draft.choice /\ e.jar = c.of /\ e.provider = t
    BY <1>1, <2>2 DEF WizardDrafts
  <2>9. t.name = c.of /\ t.versioned BY <2>1
  <2>10. CASE Wizard!Lands(c, d) /\ Wizard!Strays(c)
    <3>1. ASSUME ~strayed' PROVE ~strayed /\ c.here
      BY <2>10, <3>1 DEF Wizard!Strays
    <3>2. ~strayed' => Fits(draft) /\ Shown(draft) = SlideOf[c.kind] /\ c.of = draft.choice
      BY <1>1, <2>5, <3>1 DEF Belongs
    <3> QED BY <1>3, <2>3, <2>5, <2>7, <2>8, <2>9, <2>10, <3>2
  <2> QED BY <1>2, <2>4, <2>10
<1>6. CASE Wizard!JarChecked(c)
  <2>1. PICK e : e = [draft EXCEPT !.modpack = FALSE, !.provider = c.form.provider] OBVIOUS
  <2>2. PICK d : d = Wizard!nextSlide(e) OBVIOUS
  <2>3. \/ calls' = Wizard!Done(c) /\ draft' = draft /\ strayed' = strayed
        \/ Wizard!Lands(c, d) /\ Wizard!Strays(c)
    BY <1>6, <2>1, <2>2 DEF Wizard!JarChecked
  <2>4. c.kind = "file" /\ c.of # "none" /\ c.form.provider.versioned
    BY <1>1, <1>6, WizardAssumption DEF Wizard!JarChecked, CallMade
  <2>5. c.form.provider \in SomeProviders BY <1>1 DEF CallMade, MadeCalls
  <2>6. e \in WizardDrafts BY <1>1, <2>1, <2>5 DEF WizardDrafts
  <2>7. /\ e.slide = draft.slide /\ e.name = draft.name /\ e.created = draft.created
        /\ e.choice = draft.choice /\ e.jar = draft.jar /\ e.provider = c.form.provider
        /\ e.manual = draft.manual
    BY <1>1, <2>1 DEF WizardDrafts
  <2>8. CASE Wizard!Lands(c, d) /\ Wizard!Strays(c)
    <3>1. ASSUME ~strayed' PROVE ~strayed /\ c.here /\ draft.jar = c.of
      BY <2>4, <2>8, <3>1 DEF Wizard!Strays, Wizard!AsAsked
    <3>2. ~strayed' => Fits(draft) /\ Shown(draft) = SlideOf[c.kind] /\ draft.jar = c.of
                       /\ (~draft.manual => c.form.provider.name = draft.choice)
      BY <1>1, <2>4, <3>1 DEF Belongs
    <3>3. ~strayed' /\ ~draft.manual => draft.jar = draft.choice
      BY <2>4, <3>2 DEF Fits
    <3> QED BY <1>3, <2>2, <2>4, <2>6, <2>7, <2>8, <3>2, <3>3
  <2> QED BY <1>2, <2>3, <2>8
<1> QED BY <1>4, <1>5, <1>6

\* A creation that cannot go on sends the user back to the slide at fault.
LEMMA CreationRefused ==
    ASSUME WizardInv, NEW c \in calls, c.kind = "create", NEW s \in {1, 3},
           NEW d, d = [draft EXCEPT !.slide = s],
           Wizard!Lands(c, d), Wizard!Strays(c), made' = made
    PROVE  WizardInv'
<1>1. draft \in WizardDrafts /\ s \in 0..8 /\ s # 8 BY DEF WizardInv
<1>2. d \in WizardDrafts BY <1>1 DEF WizardDrafts
<1>3. /\ d.slide = s /\ d.name = draft.name /\ d.choice = draft.choice
      /\ d.provider = draft.provider /\ d.jar = draft.jar /\ d.created = draft.created
      /\ d.modpack = draft.modpack /\ d.manual = draft.manual
  BY <1>1 DEF WizardDrafts
<1>4. Shown(d) = s
  <2>1. s # 6 OBVIOUS
  <2> QED BY <1>2, <1>3, <2>1, ShownDraft
<1>5. /\ CallMade(c) /\ strayed' \in BOOLEAN
      /\ ~strayed' => ~strayed /\ Shown(draft) = 7 /\ Fits(draft)
  BY CallSlides DEF WizardInv, Wizard!Strays
<1>6. ~strayed' => Fits(d)
  <2> SUFFICES ASSUME ~strayed' PROVE Fits(d) OBVIOUS
  <2>1. Shown(draft) > 1 /\ ~(Shown(d) > 3) BY <1>4, <1>5
  <2> QED BY <1>1, <1>3, <1>5, <2>1 DEF Fits
<1>7. ~strayed' => Shown(d) # Shown(draft)
  <2> SUFFICES ASSUME ~strayed' PROVE Shown(d) # Shown(draft) OBVIOUS
  <2> QED BY <1>4, <1>5
<1> QED BY <1>2, <1>5, <1>6, <1>7, DraftLands

LEMMA CallMovesOn ==
    ASSUME WizardInv, NEW c \in calls, c.kind = "create",
           NEW at \in {"jar", "install", "installing", "init"},
           at = "jar" => c.form.jar # "none" /\ c.form.provider.versioned,
           at \in {"install", "installing"} => c.form.modpack,
           Wizard!Step(c, at), NEW b \in BOOLEAN,
           draft' = draft \/ draft' = [draft EXCEPT !.submitting = b],
           made' = made, strayed' = strayed
    PROVE  WizardInv'
<1>1. CallMade(c) /\ c \in MadeCalls BY DEF WizardInv, CallMade
<1>2. PICK k : k = [c EXCEPT !.at = at] OBVIOUS
<1>3. k \in MadeCalls BY <1>1, <1>2 DEF MadeCalls
<1>4. /\ k.kind = c.kind /\ k.of = c.of /\ k.at = at /\ k.form = c.form
      /\ (k.here <=> c.here)
  BY <1>1, <1>2 DEF MadeCalls
<1>5. CallMade(k) BY <1>1, <1>3, <1>4 DEF CallMade
<1>6. \A x \in calls' : x \in calls \/ x = k BY <1>2 DEF Wizard!Step, Wizard!Done
<1>7. \A x \in calls' : \/ x \in calls
                        \/ /\ CallMade(x)
                           /\ \E y \in calls : y.kind = "create" /\ x.kind = "create"
                                               /\ (x.here <=> y.here)
  BY <1>4, <1>5, <1>6
<1> QED BY <1>7, CreationSteps

LEMMA CreationFails ==
    ASSUME WizardInv, NEW c \in calls, Wizard!Fails(c), made' = made, strayed' = strayed
    PROVE  WizardInv'
<1>1. \A k \in calls' : k \in calls BY DEF Wizard!Fails, Wizard!Done
<1> QED BY <1>1, CreationSteps DEF Wizard!Fails

LEMMA WizardCreates ==
    ASSUME WizardInv, NEW c \in calls,
           \/ Wizard!FolderChecked(c) \/ Wizard!FileChecked(c) \/ Wizard!InstallModpack(c)
           \/ Wizard!ModpackInstalled(c)
    PROVE  WizardInv'
<1>1. CallMade(c) /\ c.kind = "create" /\ made' = made
  BY DEF WizardInv, Wizard!FolderChecked, Wizard!FileChecked, Wizard!InstallModpack,
         Wizard!ModpackInstalled
<1>2. ASSUME NEW s \in {1, 3}, Wizard!Refused(c, s) PROVE WizardInv'
  BY <1>1, <1>2, CreationRefused DEF Wizard!Refused
<1>3. ASSUME calls' = Wizard!Done(c), draft' = draft, strayed' = strayed PROVE WizardInv'
  BY <1>1, <1>3, CreationSteps DEF Wizard!Done
<1>4. CASE Wizard!FolderChecked(c)
  <2>1. \/ Wizard!Refused(c, 1) \/ Wizard!Refused(c, 3)
        \/ calls' = Wizard!Done(c) /\ draft' = draft /\ strayed' = strayed
        \/ /\ c.form.modpack /\ Wizard!Step(c, "install") /\ strayed' = strayed
           /\ draft' = [draft EXCEPT !.submitting = TRUE]
        \/ /\ c.form.jar # "none" /\ c.form.provider.versioned
           /\ Wizard!Step(c, "jar") /\ draft' = draft /\ strayed' = strayed
    BY <1>4 DEF Wizard!FolderChecked, Wizard!SlideIndex
  <2> QED BY <1>1, <1>2, <1>3, <2>1, CallMovesOn
<1>5. CASE Wizard!FileChecked(c)
  <2>1. \/ Wizard!Refused(c, 3)
        \/ /\ Wizard!Step(c, "init") /\ strayed' = strayed
           /\ draft' = [draft EXCEPT !.submitting = TRUE]
    BY <1>5 DEF Wizard!FileChecked, Wizard!SlideIndex
  <2> QED BY <1>1, <1>2, <2>1, CallMovesOn
<1>6. CASE Wizard!InstallModpack(c)
  <2>1. /\ strayed' = strayed /\ c.at = "install"
        /\ Wizard!Fails(c) \/ (Wizard!Step(c, "installing") /\ draft' = draft)
    BY <1>6 DEF Wizard!InstallModpack
  <2>2. c.form.modpack BY <1>1, <2>1 DEF CallMade
  <2> QED BY <1>1, <2>1, <2>2, CallMovesOn, CreationFails
<1>7. CASE Wizard!ModpackInstalled(c)
  <2>1. /\ strayed' = strayed
        /\ Wizard!Fails(c) \/ (Wizard!Step(c, "init") /\ draft' = draft)
    BY <1>7 DEF Wizard!ModpackInstalled
  <2> QED BY <1>1, <2>1, CallMovesOn, CreationFails
<1> QED BY <1>4, <1>5, <1>6, <1>7

\* The new server is there: the wizard says so, of this server.
LEMMA WizardIsDone ==
    ASSUME WizardInv, NEW c \in calls, Wizard!ServerInitialized(c)
    PROVE  WizardInv'
<1>1. PICK d : d = [draft EXCEPT !.created = c.of, !.slide = 8, !.submitting = FALSE] OBVIOUS
<1>2. /\ draft \in WizardDrafts /\ CallMade(c) /\ c.kind = "create" /\ made' = made
      /\ strayed \in BOOLEAN /\ c.of \in Names /\ c.of # "none"
  BY WizardAssumption DEF WizardInv, Wizard!ServerInitialized, CallMade
<1>3. \/ Wizard!Fails(c) /\ strayed' = strayed
      \/ Wizard!Lands(c, d) /\ Wizard!Strays(c)
  BY <1>1 DEF Wizard!ServerInitialized, Wizard!SlideIndex
<1>4. CASE Wizard!Lands(c, d) /\ Wizard!Strays(c)
  <2>1. d \in WizardDrafts
    <3>1. 8 \in 0..8 /\ c.of \in Names \union {"none"} /\ FALSE \in BOOLEAN BY <1>2
    <3> QED BY <1>1, <1>2, <3>1 DEF WizardDrafts
  <2>2. /\ d.slide = 8 /\ d.created = c.of /\ d.choice = draft.choice
        /\ d.provider = draft.provider /\ d.jar = draft.jar
        /\ d.modpack = draft.modpack /\ d.manual = draft.manual
    BY <1>1, <1>2 DEF WizardDrafts
  <2>3. Shown(d) = 8 BY <2>1, <2>2, ShownDraft
  <2>4. strayed' \in BOOLEAN /\ (~strayed' => ~strayed /\ Shown(draft) = 7 /\ Fits(draft))
    BY <1>2, <1>4, CallSlides DEF WizardInv, Wizard!Strays
  <2>5. ~strayed' => Fits(d)
    <3> SUFFICES ASSUME ~strayed' PROVE Fits(d) OBVIOUS
    <3>1. Shown(draft) > 3 BY <2>4
    <3> QED BY <1>2, <2>2, <2>4, <3>1 DEF Fits
  <2>6. ~strayed' => Shown(d) # Shown(draft)
    <3> SUFFICES ASSUME ~strayed' PROVE Shown(d) # Shown(draft) OBVIOUS
    <3> QED BY <2>3, <2>4
  <2> QED BY <1>2, <1>4, <2>1, <2>4, <2>5, <2>6, DraftLands
<1> QED BY <1>2, <1>3, <1>4, CreationFails

LEMMA WizardLeaves ==
    ASSUME WizardInv, Wizard!LeavePage
    PROVE  WizardInv'
BY PageIsLeft DEF Wizard!LeavePage, Wizard!Keeps, WizardInv

LEMMA WizardStep ==
    ASSUME WizardInv, [Wizard!WizardNext]_wizardVars
    PROVE  WizardInv'
<1>1. CASE UNCHANGED wizardVars
  BY <1>1 DEF wizardVars, WizardInv, Fits, Belongs, Shown, CallMade
<1>2. CASE Wizard!WizardNext
  BY <1>2, WizardMoves, WizardNames, WizardResets, WizardLeaves, WizardPicks, WizardIsPreset,
     WizardModpack, WizardJar, WizardEula, WizardAsks, WizardLands, WizardCreates, WizardIsDone
     DEF Wizard!WizardNext
<1> QED BY <1>1, <1>2

\* What the invariant says of the draft and the calls is what the property says.
LEMMA WizardHolds ==
    ASSUME WizardInv
    PROVE  DraftHoldsTogether
<1>1. \A c \in calls : c.kind = "create" =>
          /\ c.of # Wizard!NoName
          /\ c.at = "jar" => c.form.jar # "none" /\ c.form.provider.versioned
          /\ c.at \in {"install", "installing"} => c.form.modpack
  BY DEF WizardInv, CallMade
<1>2. ~strayed => Fits(draft) BY DEF WizardInv
<1> QED BY <1>1, <1>2, WizardIsShown
        DEF DraftHoldsTogether, Wizard!DraftHoldsTogether, Wizard!DoneMeansCreated, Fits,
            Wizard!HasSource, Wizard!SlideIndex

\* Without a call that lands where the user has left or for what the user has
\* changed, the slides behind the user are answered and the answers fit together; a
\* server is only ever made of a name and a source that were asked for
\* (CreateServerContext.tsx, the slides).
THEOREM WindowDraftHoldsTogether == Spec => []DraftHoldsTogether
<1>1. Init => WizardInv BY WizardStarts DEF Init
<1>2. WizardInv /\ [Next]_vars => WizardInv' BY WindowStep, WizardStep
<1>3. WizardInv => DraftHoldsTogether BY WizardHolds
<1> QED BY <1>1, <1>2, <1>3, PTL DEF Spec

--------------------------------------------------------------------------------
(* What is shown of a server.                                                   *)

StatesTold == {"offline", "starting", "online", "stopping", "running-external",
               "sleeping", "crashed"}
ViewStates == StatesTold \union {"dozing", "restarting"}
ViewEvents == StatesTold \union {"javaError", "noguiError"}
Answers    == StatesTold \ {"crashed"}
ViewLoops  == {"page", "monitor"}
ViewCmds   == [kind : {"none", "start", "stop", "sleep", "restart", "kill", "type"},
               by : {"page", "card"}, at : {"none", "sent", "ok", "err", "asked", "read"},
               answer : {"none"} \union Answers]
ViewTasks  == [loop : ViewLoops, at : {"strip", "download", "retry", "started", "refused"},
               alive : BOOLEAN, mine : BOOLEAN, exe : {View!None}]

ViewTypeOK ==
    /\ srv \in ViewStates /\ wire \in Seq(ViewEvents) /\ page \in {"closed", "opening", "open"}
    /\ DOMAIN loops = ViewLoops
    /\ \A l \in ViewLoops : /\ DOMAIN loops[l] = {"sync", "seen", "has", "rec"}
                            /\ loops[l].sync \in {"none", "asked", "done"} \union Answers
                            /\ loops[l].seen \in BOOLEAN
    /\ viewTasks \subseteq ViewTasks /\ cmd \in ViewCmds
    /\ used \in [runs : Nat, opens : Nat, clicks : Nat]

\* The last event sent tells what the backend is now.
EventOf(s) == IF s \in {"dozing", "restarting"} THEN "stopping" ELSE s
WireEnds   == wire # <<>> => wire[Len(wire)] = EventOf(srv)

PageIsKnown ==
    /\ page = "closed" => loops["page"].sync = "none"
    /\ page = "opening" => ~loops["page"].seen
    /\ page # "closed" => used.opens > 0

\* A snapshot that will be shown, for no event was heard since it was asked for, is
\* true once every event was delivered.
WillShow(l) == loops[l].sync \in Answers /\ ~loops[l].seen
SnapshotsAreTrue ==
    wire = <<>> => /\ WillShow("page") /\ doubt = {} => loops["page"].sync = View!Snapshot
                   /\ WillShow("monitor") /\ used.opens = 0 => loops["monitor"].sync = View!Snapshot

\* What will make the status true, or doubtful, or send an event.
TaskDue == \E t \in viewTasks : \/ t.at \in {"retry", "refused"}
                                \/ t.at \in {"strip", "download"} /\ t.alive
SyncDue == loops["page"].sync \notin {"none", "done"} /\ ~loops["page"].seen
CmdDue ==
    \/ cmd.at \in {"err", "asked", "read"}
    \/ cmd.at = "ok" /\ cmd.by = "card" /\ cmd.kind = "kill"
    \/ /\ cmd.at = "sent"
       /\ cmd.kind = "kill" => srv \notin {"offline", "crashed"}
       /\ cmd.kind = "restart" => srv \notin {"offline", "crashed", "sleeping", "restarting"}

ShownIsKnown == wire = <<>> /\ doubt = {} => View!Agrees \/ TaskDue \/ SyncDue \/ CmdDue

ViewInv == ViewTypeOK /\ WireEnds /\ PageIsKnown /\ SnapshotsAreTrue /\ ShownIsKnown

\* Sending something puts its last event at the end of the wire.
LEMMA SentIsLast ==
    ASSUME NEW S, NEW w \in Seq(S), NEW t \in Seq(S), t # <<>>
    PROVE  w \o t \in Seq(S) /\ w \o t # <<>> /\ (w \o t)[Len(w \o t)] = t[Len(t)]
<1>1. Len(w) \in Nat BY LenProperties
<1>2. Len(t) \in Nat \ {0} BY EmptySeq
<1>3. /\ w \o t \in Seq(S) /\ Len(w \o t) = Len(w) + Len(t)
      /\ \A i \in 1 .. Len(w) + Len(t) : (w \o t)[i] = IF i <= Len(w) THEN w[i] ELSE t[i - Len(w)]
  BY ConcatProperties
<1>4. (w \o t)[Len(w) + Len(t)] = t[(Len(w) + Len(t)) - Len(w)]
  <2>1. Len(w) + Len(t) \in 1 .. Len(w) + Len(t) /\ ~(Len(w) + Len(t) <= Len(w)) BY <1>1, <1>2
  <2> QED BY <1>3, <2>1
<1>5. (Len(w) + Len(t)) - Len(w) = Len(t) BY <1>1, <1>2
<1>6. w \o t # <<>> BY <1>1, <1>2, <1>3, EmptySeq
<1> QED BY <1>3, <1>4, <1>5, <1>6

LEMMA LineEnds ==
    ASSUME NEW line \in View!Lines, NEW e \in StatesTold
    PROVE  /\ line \o <<e>> \in Seq(ViewEvents) /\ line \o <<e>> # <<>>
           /\ (line \o <<e>>)[Len(line \o <<e>>)] = e
<1>1. line \in Seq(ViewEvents)
  <2>1. "javaError" \in ViewEvents /\ "noguiError" \in ViewEvents BY DEF ViewEvents
  <2>2. <<>> \in Seq(ViewEvents) /\ <<"javaError">> \in Seq(ViewEvents)
        /\ <<"noguiError">> \in Seq(ViewEvents)
    BY <2>1
  <2> QED BY <2>2 DEF View!Lines
<1>2. <<e>> \in Seq(ViewEvents) /\ <<e>> # <<>> /\ <<e>>[Len(<<e>>)] = e BY DEF ViewEvents
<1> QED BY <1>1, <1>2, SentIsLast

\* Delivering the first event leaves the last one, or is the last one.
LEMMA DeliveredIsFirst ==
    ASSUME NEW S, NEW w \in Seq(S), w # <<>>
    PROVE  /\ Tail(w) \in Seq(S)
           /\ Tail(w) # <<>> => Tail(w)[Len(Tail(w))] = w[Len(w)]
           /\ Tail(w) = <<>> => Head(w) = w[Len(w)]
<1>1. Len(w) \in Nat \ {0} BY EmptySeq
<1>2. /\ Tail(w) \in Seq(S) /\ Len(Tail(w)) = Len(w) - 1
      /\ \A i \in 1 .. Len(Tail(w)) : Tail(w)[i] = w[i + 1]
  BY HeadTailProperties
<1>3. Tail(w) # <<>> => Tail(w)[Len(Tail(w))] = w[Len(w)]
  <2> SUFFICES ASSUME Tail(w) # <<>> PROVE Tail(w)[Len(Tail(w))] = w[Len(w)] OBVIOUS
  <2>1. Len(Tail(w)) \in 1 .. Len(Tail(w)) BY <1>2, EmptySeq
  <2>2. Tail(w)[Len(Tail(w))] = w[Len(Tail(w)) + 1] BY <1>2, <2>1
  <2>3. Len(Tail(w)) + 1 = Len(w) BY <1>1, <1>2
  <2> QED BY <2>2, <2>3
<1>4. Tail(w) = <<>> => Head(w) = w[Len(w)]
  <2>1. Tail(w) = <<>> => Len(Tail(w)) = 0
    <3>1. Len(<<>>) = 0 OBVIOUS
    <3> QED BY <3>1, Zenon
  <2>2. Len(Tail(w)) = 0 => Len(w) = 1
    <3> DEFINE n == Len(w)
               m == Len(Tail(w))
    <3>1. n \in Nat \ {0} /\ m = n - 1 BY <1>1, <1>2
    <3> HIDE DEF n, m
    <3>2. m = 0 => n = 1 BY <3>1
    <3> QED BY <3>2 DEF n, m
  <2>3. Head(w) = w[1] BY <1>1
  <2>4. Len(w) = 1 => Head(w) = w[Len(w)] BY <2>3
  <2> QED BY <2>1, <2>2, <2>4, Zenon
<1> QED BY <1>2, <1>3, <1>4

\* The snapshot is the last event, but of a run that crashed.
LEMMA SnapshotTells ==
    ASSUME srv \in ViewStates
    PROVE  /\ View!Snapshot \in Answers
           /\ srv = "crashed" => View!Snapshot = "offline"
           /\ srv # "crashed" => View!Snapshot = EventOf(srv)
<1>1. CASE srv = "crashed" BY <1>1 DEF View!Snapshot, Answers, StatesTold
<1>2. CASE srv \in {"dozing", "restarting"}
  BY <1>2 DEF View!Snapshot, Answers, StatesTold, EventOf
<1>3. CASE srv \notin {"crashed", "dozing", "restarting"}
  <2>1. View!Snapshot = srv BY <1>3 DEF View!Snapshot
  <2> QED BY <1>3, <2>1 DEF ViewStates, Answers, StatesTold, EventOf
<1> QED BY <1>1, <1>2, <1>3

\* A step that sends leaves nothing to show but what was sent.
LEMMA ViewSends ==
    ASSUME ViewInv, srv' \in ViewStates, cmd' \in ViewCmds, viewTasks' \subseteq ViewTasks,
           used' \in [runs : Nat, opens : Nat, clicks : Nat], used'.opens = used.opens,
           UNCHANGED <<page, loops>>,
           NEW t \in Seq(ViewEvents), t # <<>>, t[Len(t)] = EventOf(srv'), wire' = wire \o t
    PROVE  ViewInv'
<1>1. wire' \in Seq(ViewEvents) /\ wire' # <<>> /\ wire'[Len(wire')] = EventOf(srv')
  BY SentIsLast DEF ViewInv, ViewTypeOK
<1>2. ViewTypeOK' BY <1>1 DEF ViewInv, ViewTypeOK
<1>3. WireEnds' BY <1>1 DEF WireEnds, EventOf
<1>4. PageIsKnown' BY DEF ViewInv, PageIsKnown
<1>5. SnapshotsAreTrue' /\ ShownIsKnown' BY <1>1 DEF SnapshotsAreTrue, ShownIsKnown
<1> QED BY <1>2, <1>3, <1>4, <1>5 DEF ViewInv

LEMMA ViewRuns ==
    ASSUME ViewInv, View!CountRun
    PROVE  used' \in [runs : Nat, opens : Nat, clicks : Nat] /\ used'.opens = used.opens
BY DEF ViewInv, ViewTypeOK, View!CountRun

LEMMA ViewStarts ==
    ASSUME View!Init
    PROVE  ViewInv
<1>1. ViewTypeOK
  BY EmptySeq DEF View!Init, ViewTypeOK, ViewStates, StatesTold, View!Loops, ViewLoops, View!Idle, ViewCmds
<1>2. WireEnds /\ PageIsKnown BY DEF View!Init, WireEnds, PageIsKnown, View!Loops
<1>3. SnapshotsAreTrue BY DEF View!Init, SnapshotsAreTrue, WillShow, Answers, StatesTold, View!Loops
<1>4. View!Agrees
  <2>1. View!Snapshot = "offline" BY SnapshotTells DEF View!Init, ViewStates, StatesTold, EventOf
  <2>2. View!mapRuntimeStateToStatus("offline") = "offline" BY DEF View!mapRuntimeStateToStatus
  <2> QED BY <2>1, <2>2 DEF View!Init, View!Agrees
<1> QED BY <1>1, <1>2, <1>3, <1>4 DEF ViewInv, ShownIsKnown

LEMMA ViewJvm ==
    ASSUME ViewInv, View!JvmUp \/ View!BootFails \/ View!JvmEnds
    PROVE  ViewInv'
<1>0. /\ cmd \in ViewCmds /\ viewTasks \subseteq ViewTasks
      /\ used \in [runs : Nat, opens : Nat, clicks : Nat]
  BY DEF ViewInv, ViewTypeOK
<1>1. CASE View!JvmUp
  <2>1. PICK line \in View!Lines : wire' = wire \o (line \o <<"online">>)
    BY <1>1 DEF View!JvmUp, View!Sends
  <2>2. srv' = "online" /\ UNCHANGED <<page, loops, viewTasks, cmd, used>> BY <1>1 DEF View!JvmUp
  <2>3. EventOf(srv') = "online" /\ srv' \in ViewStates /\ "online" \in StatesTold
    BY <2>2 DEF EventOf, ViewStates, StatesTold
  <2> DEFINE t == line \o <<"online">>
  <2>4. t \in Seq(ViewEvents) /\ t # <<>> /\ t[Len(t)] = "online" BY <2>3, LineEnds
  <2> HIDE DEF t
  <2> QED BY <1>0, <2>1, <2>2, <2>3, <2>4, ViewSends DEF t
<1>2. CASE View!BootFails
  <2>1. PICK line \in View!Lines, end \in {"crashed", "offline"} :
           srv' = end /\ wire' = wire \o (line \o <<end>>)
    BY <1>2 DEF View!BootFails, View!Sends
  <2>2. UNCHANGED <<page, loops, viewTasks, cmd, used>> BY <1>2 DEF View!BootFails
  <2>3. EventOf(srv') = end /\ srv' \in ViewStates /\ end \in StatesTold
    BY <2>1 DEF EventOf, ViewStates, StatesTold
  <2> DEFINE t == line \o <<end>>
  <2>4. t \in Seq(ViewEvents) /\ t # <<>> /\ t[Len(t)] = end BY <2>3, LineEnds
  <2> HIDE DEF t
  <2> QED BY <1>0, <2>1, <2>2, <2>3, <2>4, ViewSends DEF t
<1>3. CASE View!JvmEnds
  <2>1. /\ srv' \in {"crashed", "offline", "sleeping"} /\ wire' = wire \o <<srv'>>
        /\ UNCHANGED <<page, loops, viewTasks, cmd, used>>
    BY <1>3 DEF View!JvmEnds, View!Sends
  <2>2. EventOf(srv') = srv' /\ srv' \in ViewStates /\ srv' \in ViewEvents
    BY <2>1 DEF EventOf, ViewStates, ViewEvents, StatesTold
  <2> DEFINE t == <<srv'>>
  <2>3. t \in Seq(ViewEvents) /\ t # <<>> /\ t[Len(t)] = srv' BY <2>2
  <2> HIDE DEF t
  <2> QED BY <1>0, <2>1, <2>2, <2>3, ViewSends DEF t
<1> QED BY <1>1, <1>2, <1>3

LEMMA ViewBackendStarts ==
    ASSUME ViewInv, View!BackendStarts \/ View!AdoptsExternal
    PROVE  ViewInv'
<1>0. /\ cmd \in ViewCmds /\ viewTasks \subseteq ViewTasks
      /\ used \in [runs : Nat, opens : Nat, clicks : Nat]
  BY DEF ViewInv, ViewTypeOK
<1>1. View!CountRun /\ UNCHANGED <<page, loops, viewTasks, cmd>>
  BY DEF View!BackendStarts, View!AdoptsExternal
<1>2. PICK t \in {<<"offline", "starting">>, <<"starting">>, <<"running-external">>} :
         wire' = wire \o t /\ srv' = t[Len(t)]
  BY DEF View!BackendStarts, View!AdoptsExternal, View!Sends
<1>3. t \in Seq(ViewEvents) /\ t # <<>>
  <2>1. {"offline", "starting", "running-external"} \subseteq ViewEvents BY DEF ViewEvents, StatesTold
  <2>2. /\ <<"offline", "starting">> \in Seq(ViewEvents) /\ <<"starting">> \in Seq(ViewEvents)
        /\ <<"running-external">> \in Seq(ViewEvents)
    BY <2>1
  <2>3. /\ <<"offline", "starting">> # <<>> /\ <<"starting">> # <<>>
        /\ <<"running-external">> # <<>>
    OBVIOUS
  <2>4. CASE t = <<"offline", "starting">> BY <2>2, <2>3, <2>4
  <2>5. CASE t = <<"starting">> BY <2>2, <2>3, <2>5
  <2>6. CASE t = <<"running-external">> BY <2>2, <2>3, <2>6
  <2> QED BY <2>4, <2>5, <2>6
<1>4. t[Len(t)] \in {"starting", "running-external"} OBVIOUS
<1>5. srv' \in ViewStates /\ EventOf(srv') = srv' BY <1>2, <1>4 DEF ViewStates, StatesTold, EventOf
<1> QED BY <1>0, <1>1, <1>2, <1>3, <1>5, ViewRuns, ViewSends

\* start_server either sends what it started, or refuses and leaves all alone.
LEMMA ViewStartReplies ==
    ASSUME ViewInv, NEW ok \in BOOLEAN, View!StartReply(ok)
    PROVE  \/ \E s \in {"starting", "offline"} :
                 wire' = wire \o <<s>> /\ srv' = s /\ View!CountRun
           \/ ~ok /\ UNCHANGED <<srv, wire, used>>
BY DEF View!StartReply, View!Sends

LEMMA ViewSendsOne ==
    ASSUME ViewInv, NEW e \in StatesTold, wire' = wire \o <<e>>, srv' \in ViewStates,
           EventOf(srv') = e, cmd' \in ViewCmds, viewTasks' \subseteq ViewTasks,
           used' \in [runs : Nat, opens : Nat, clicks : Nat], used'.opens = used.opens,
           UNCHANGED <<page, loops>>
    PROVE  ViewInv'
<1> DEFINE t == <<e>>
<1>1. t \in Seq(ViewEvents) /\ t # <<>> /\ t[Len(t)] = e BY DEF ViewEvents
<1> HIDE DEF t
<1> QED BY <1>1, ViewSends DEF t

\* What a step that hears nothing leaves of the loops.
LoopsKept ==
    /\ DOMAIN loops' = ViewLoops
    /\ \A l \in ViewLoops : /\ DOMAIN loops'[l] = {"sync", "seen", "has", "rec"}
                            /\ loops'[l].sync = loops[l].sync /\ loops'[l].seen = loops[l].seen

LEMMA RecoveryKeeps ==
    ASSUME ViewInv,
           \/ UNCHANGED loops
           \/ \E l \in ViewLoops : \E r, h :
                 \/ loops' = [loops EXCEPT ![l].rec = r]
                 \/ loops' = [loops EXCEPT ![l].rec = r, ![l].has = h]
    PROVE  LoopsKept
<1>0. /\ DOMAIN loops = ViewLoops
      /\ \A l \in ViewLoops : DOMAIN loops[l] = {"sync", "seen", "has", "rec"}
  BY DEF ViewInv, ViewTypeOK
<1>1. CASE UNCHANGED loops BY <1>0, <1>1 DEF LoopsKept
<1>2. ASSUME NEW l \in ViewLoops, NEW r, loops' = [loops EXCEPT ![l].rec = r]
      PROVE  LoopsKept
  BY <1>0, <1>2 DEF LoopsKept
<1>3. ASSUME NEW l \in ViewLoops, NEW r, NEW h, loops' = [loops EXCEPT ![l].rec = r, ![l].has = h]
      PROVE  LoopsKept
  BY <1>0, <1>3 DEF LoopsKept
<1> QED BY <1>1, <1>2, <1>3

\* A step that neither sends, delivers nor opens keeps what is known of the snapshots.
LEMMA ViewHeld ==
    ASSUME ViewInv, UNCHANGED <<srv, wire, page, used>>, doubt' = {} => doubt = {},
           cmd' \in ViewCmds, viewTasks' \subseteq ViewTasks, LoopsKept, ShownIsKnown'
    PROVE  ViewInv'
<1>1. ViewTypeOK' BY DEF ViewInv, ViewTypeOK, LoopsKept
<1>2. WireEnds' BY DEF ViewInv, WireEnds, EventOf
<1>3. PageIsKnown' BY DEF ViewInv, PageIsKnown, LoopsKept, ViewLoops
<1>4. SnapshotsAreTrue'
  <2>1. View!Snapshot' = View!Snapshot BY DEF View!Snapshot
  <2>2. /\ WillShow("page")' = WillShow("page") /\ WillShow("monitor")' = WillShow("monitor")
        /\ loops'["page"].sync = loops["page"].sync /\ loops'["monitor"].sync = loops["monitor"].sync
    BY DEF WillShow, LoopsKept, ViewLoops
  <2> QED BY <2>1, <2>2 DEF ViewInv, SnapshotsAreTrue
<1> QED BY <1>1, <1>2, <1>3, <1>4 DEF ViewInv

LEMMA ViewCommands ==
    ASSUME ViewInv, \/ View!handleStart \/ View!handleStop \/ View!handleSleep
                    \/ View!handleRestart \/ View!handleForceKill
                    \/ View!handleTerminalCommandSubmit
                    \/ View!startServer \/ View!stopServer \/ View!sleepServer
                    \/ View!restartServer \/ View!forceKillServer
    PROVE  \E c \in {"start", "stop", "sleep", "restart", "kill", "type"},
              by \in {"page", "card"}, optimistic \in {"starting", "closing"} :
              View!Click(c, by, optimistic) /\ (View!SameCycle \/ View!NewCycle)
BY DEF View!handleStart, View!handleStop, View!handleSleep, View!handleRestart,
       View!handleForceKill, View!handleTerminalCommandSubmit, View!startServer,
       View!stopServer, View!sleepServer, View!restartServer, View!forceKillServer

\* Forgetting the retries of the page leaves what they will do to the status.
LEMMA OrphansDo ==
    ASSUME ViewInv, NEW l, viewTasks' = View!Orphan(l)
    PROVE  viewTasks' \subseteq ViewTasks /\ (TaskDue => TaskDue')
<1>1. viewTasks \subseteq ViewTasks BY DEF ViewInv, ViewTypeOK
<1> DEFINE o(t) == IF t.loop = l THEN [t EXCEPT !.mine = FALSE] ELSE t
<1>2. \A t \in ViewTasks : o(t) \in ViewTasks /\ o(t).at = t.at /\ o(t).alive = t.alive
  BY DEF ViewTasks
<1>3. viewTasks' = {o(t) : t \in viewTasks} BY DEF View!Orphan
<1> HIDE DEF o
<1> QED BY <1>1, <1>2, <1>3 DEF TaskDue

\* A button is only there in a status the command means something in.
LEMMA ViewClicks ==
    ASSUME ViewInv,
           NEW c \in {"start", "stop", "sleep", "restart", "kill", "type"},
           NEW by \in {"page", "card"}, NEW optimistic,
           View!Click(c, by, optimistic), View!SameCycle \/ View!NewCycle
    PROVE  ViewInv'
<1>1. /\ cmd.at = "none" /\ View!Offered(c) /\ used'.opens = used.opens
      /\ used' \in [runs : Nat, opens : Nat, clicks : Nat]
      /\ cmd' = [kind |-> c, by |-> by, at |-> "sent", answer |-> "none"]
      /\ UNCHANGED <<srv, wire, page, doubt>>
  BY DEF View!Click, View!Idle, ViewInv, ViewTypeOK
<1>2. cmd' \in ViewCmds BY <1>1 DEF ViewCmds
<1>3. LoopsKept
  <2>1. CASE View!SameCycle BY <2>1, RecoveryKeeps DEF View!SameCycle
  <2>2. CASE View!NewCycle BY <2>2, RecoveryKeeps DEF View!NewCycle, ViewLoops
  <2> QED BY <2>1, <2>2
<1>4. viewTasks' \subseteq ViewTasks /\ (TaskDue => TaskDue')
  <2>1. CASE View!SameCycle BY <2>1 DEF View!SameCycle, ViewInv, ViewTypeOK, TaskDue
  <2>2. CASE View!NewCycle BY <2>2, OrphansDo DEF View!NewCycle
  <2> QED BY <2>1, <2>2
<1>5. ~CmdDue BY <1>1 DEF CmdDue
<1>6. SyncDue => SyncDue' BY <1>3 DEF SyncDue, LoopsKept, ViewLoops
<1>7. View!Agrees => CmdDue'
  <2> SUFFICES ASSUME View!Agrees, ~CmdDue' PROVE FALSE OBVIOUS
  <2>1. \/ c = "kill" /\ srv \in {"offline", "crashed"}
        \/ c = "restart" /\ srv \in {"offline", "crashed", "sleeping", "restarting"}
    BY <1>1 DEF CmdDue
  <2>2. srv \in ViewStates BY DEF ViewInv, ViewTypeOK
  <2>3. /\ srv \in {"offline", "crashed"} => View!Snapshot = "offline"
        /\ srv = "sleeping" => View!Snapshot = "sleeping"
        /\ srv = "restarting" => View!Snapshot = "stopping"
    BY <2>2, SnapshotTells DEF EventOf
  <2>4. /\ View!mapRuntimeStateToStatus("offline") = "offline"
        /\ View!mapRuntimeStateToStatus("sleeping") = "sleeping"
        /\ View!mapRuntimeStateToStatus("stopping") = "closing"
    BY DEF View!mapRuntimeStateToStatus
  <2>5. /\ c = "kill" => viewShown \notin {"offline", "crashed"}
        /\ c = "restart" => viewShown \in {"online", "starting"}
    BY <1>1 DEF View!Offered, View!isStoppedStatus, View!isRunningStatus
  <2> QED BY <2>1, <2>3, <2>4, <2>5 DEF View!Agrees
<1>8. ShownIsKnown' BY <1>1, <1>4, <1>5, <1>6, <1>7 DEF ViewInv, ShownIsKnown
<1>9. ViewTypeOK' BY <1>1, <1>2, <1>3, <1>4 DEF ViewInv, ViewTypeOK, LoopsKept
<1>10. WireEnds' BY <1>1 DEF ViewInv, WireEnds, EventOf
<1>11. PageIsKnown' BY <1>1, <1>3 DEF ViewInv, PageIsKnown, LoopsKept, ViewLoops
<1>12. SnapshotsAreTrue'
  <2>1. View!Snapshot' = View!Snapshot BY <1>1 DEF View!Snapshot
  <2>2. /\ WillShow("page")' = WillShow("page") /\ WillShow("monitor")' = WillShow("monitor")
        /\ loops'["page"].sync = loops["page"].sync /\ loops'["monitor"].sync = loops["monitor"].sync
    BY <1>3 DEF WillShow, LoopsKept, ViewLoops
  <2> QED BY <1>1, <2>1, <2>2 DEF ViewInv, SnapshotsAreTrue
<1> QED BY <1>8, <1>9, <1>10, <1>11, <1>12 DEF ViewInv

LEMMA CmdsAnswer ==
    ASSUME ViewInv, NEW ok \in BOOLEAN, View!Answered(ok)
    PROVE  /\ cmd' \in ViewCmds /\ cmd'.at = IF ok THEN "ok" ELSE "err"
           /\ cmd'.kind = cmd.kind /\ cmd'.by = cmd.by
BY DEF ViewInv, ViewTypeOK, View!Answered, ViewCmds

\* A refusal is answered by a guess, or by asking again.
LEMMA ViewRefuses ==
    ASSUME ViewInv, View!Answered(FALSE), UNCHANGED <<srv, wire, used, page, loops, viewTasks, doubt>>
    PROVE  ViewInv'
<1>1. cmd' \in ViewCmds /\ cmd'.at = "err" BY CmdsAnswer
<1>2. ShownIsKnown' BY <1>1 DEF ShownIsKnown, CmdDue
<1>3. LoopsKept BY RecoveryKeeps
<1> QED BY <1>1, <1>2, <1>3, ViewHeld DEF ViewInv, ViewTypeOK

\* A command that had nothing to do was not what would make the status true.
LEMMA ViewDoesNothing ==
    ASSUME ViewInv, View!Answered(TRUE), cmd.at = "sent", ~CmdDue,
           UNCHANGED <<srv, wire, used, page, viewShown, loops, viewTasks, doubt>>
    PROVE  ViewInv'
<1>1. cmd' \in ViewCmds BY CmdsAnswer
<1>2. View!Agrees' = View!Agrees /\ TaskDue' = TaskDue /\ SyncDue' = SyncDue
  BY DEF View!Agrees, View!Snapshot, TaskDue, SyncDue, View!mapRuntimeStateToStatus
<1>3. ShownIsKnown' BY <1>2 DEF ViewInv, ShownIsKnown
<1>4. LoopsKept BY RecoveryKeeps
<1> QED BY <1>1, <1>3, <1>4, ViewHeld DEF ViewInv, ViewTypeOK

LEMMA ViewExecutes ==
    ASSUME ViewInv, View!Execute
    PROVE  ViewInv'
<1>1. cmd.at = "sent" /\ UNCHANGED <<viewShown, page, loops, viewTasks, config, doubt>>
  BY DEF View!Execute
<1>2. viewTasks \subseteq ViewTasks /\ used \in [runs : Nat, opens : Nat, clicks : Nat]
  BY DEF ViewInv, ViewTypeOK
<1>3. ASSUME NEW s \in {"stopping", "dozing", "restarting"}, View!StopsTo(s)
      PROVE  ViewInv'
  <2>1. srv' = s /\ wire' = wire \o <<"stopping">> /\ UNCHANGED used /\ View!Answered(TRUE)
    BY <1>3 DEF View!StopsTo, View!Sends
  <2>2. cmd' \in ViewCmds BY <2>1, CmdsAnswer
  <2>3. srv' \in ViewStates /\ EventOf(srv') = "stopping" /\ "stopping" \in StatesTold
    BY <2>1 DEF ViewStates, StatesTold, EventOf
  <2> QED BY <1>1, <1>2, <2>1, <2>2, <2>3, ViewSendsOne
<1>4. CASE View!Refuses BY <1>1, <1>4, ViewRefuses DEF View!Refuses
<1>5. CASE cmd.kind = "start" /\ \E ok \in BOOLEAN : View!StartReply(ok) /\ View!Answered(ok)
  <2>1. PICK ok \in BOOLEAN : View!StartReply(ok) /\ View!Answered(ok) BY <1>5
  <2>2. cmd' \in ViewCmds BY <2>1, CmdsAnswer
  <2>3. CASE \E s \in {"starting", "offline"} :
                wire' = wire \o <<s>> /\ srv' = s /\ View!CountRun
    <3>1. PICK s \in {"starting", "offline"} :
             wire' = wire \o <<s>> /\ srv' = s /\ View!CountRun
      BY <2>3
    <3>2. s \in StatesTold /\ srv' \in ViewStates /\ EventOf(srv') = s
      BY <3>1 DEF StatesTold, ViewStates, EventOf
    <3> QED BY <1>1, <1>2, <2>2, <3>1, <3>2, ViewRuns, ViewSendsOne
  <2>4. CASE ~ok /\ UNCHANGED <<srv, wire, used>>
    <3>1. View!Answered(FALSE) BY <2>1, <2>4
    <3> QED BY <1>1, <2>4, <3>1, ViewRefuses
  <2> QED BY <2>1, <2>3, <2>4, ViewStartReplies
<1>6. CASE srv = "sleeping" /\ srv' = "offline" /\ View!Sends(<<"offline">>)
           /\ View!Answered(TRUE) /\ UNCHANGED used
  <2>1. cmd' \in ViewCmds BY <1>6, CmdsAnswer
  <2>2. "offline" \in StatesTold /\ srv' \in ViewStates /\ EventOf(srv') = "offline"
    BY <1>6 DEF StatesTold, ViewStates, EventOf
  <2> QED BY <1>1, <1>2, <1>6, <2>1, <2>2, ViewSendsOne DEF View!Sends
<1>7. CASE /\ View!Answered(TRUE) /\ UNCHANGED <<srv, wire, used>>
           /\ \/ cmd.kind = "kill" /\ srv \in {"offline", "crashed"}
              \/ cmd.kind = "restart" /\ srv \in {"offline", "crashed", "sleeping", "restarting"}
  <2>1. ~CmdDue BY <1>1, <1>7 DEF CmdDue
  <2> QED BY <1>1, <1>7, <2>1, ViewDoesNothing
<1> QED BY <1>3, <1>4, <1>5, <1>6, <1>7 DEF View!Execute

LEMMA ViewDoubted ==
    ASSUME ViewInv, UNCHANGED <<srv, wire, page, used>>, doubt' # {},
           cmd' \in ViewCmds, viewTasks' \subseteq ViewTasks, LoopsKept
    PROVE  ViewInv'
BY ViewHeld DEF ShownIsKnown

LEMMA ViewReplies ==
    ASSUME ViewInv, View!Reply \/ View!refreshStatus
    PROVE  ViewInv'
<1>1. UNCHANGED <<srv, wire, page, loops, viewTasks, config, used>>
  BY DEF View!Reply, View!refreshStatus
<1>2. viewTasks \subseteq ViewTasks /\ cmd \in ViewCmds /\ srv \in ViewStates
  BY DEF ViewInv, ViewTypeOK
<1>3. LoopsKept BY <1>1, RecoveryKeeps
<1>4. View!Idle \in ViewCmds BY DEF View!Idle, ViewCmds
<1>5. CASE doubt' # {} /\ cmd' = View!Idle BY <1>1, <1>2, <1>3, <1>4, <1>5, ViewDoubted
<1>6. CASE UNCHANGED doubt /\ \/ cmd' = [cmd EXCEPT !.at = "asked"]
                              \/ cmd' = [cmd EXCEPT !.at = "read", !.answer = View!Snapshot]
  <2>1. cmd' \in ViewCmds /\ cmd'.at \in {"asked", "read"}
    BY <1>2, <1>6, SnapshotTells DEF ViewCmds
  <2>2. ShownIsKnown' BY <2>1 DEF ShownIsKnown, CmdDue
  <2> QED BY <1>1, <1>2, <1>3, <1>6, <2>1, <2>2, ViewHeld
<1>7. CASE /\ cmd.at = "ok" /\ ~(cmd.by = "card" /\ cmd.kind = "kill")
           /\ cmd' = View!Idle /\ UNCHANGED <<viewShown, doubt>>
  <2>1. ~CmdDue BY <1>7 DEF CmdDue
  <2>2. View!Agrees' = View!Agrees /\ TaskDue' = TaskDue /\ SyncDue' = SyncDue
    BY <1>1, <1>7 DEF View!Agrees, View!Snapshot, TaskDue, SyncDue, View!mapRuntimeStateToStatus
  <2>3. ShownIsKnown' BY <1>1, <1>7, <2>1, <2>2 DEF ViewInv, ShownIsKnown
  <2> QED BY <1>1, <1>2, <1>3, <1>4, <1>7, <2>3, ViewHeld
<1> QED BY <1>5, <1>6, <1>7 DEF View!Reply, View!refreshStatus

--------------------------------------------------------------------------------
(* After an await of a crash's handling.                                        *)

\* A handler that has ended does nothing more to the status, unless it was to.
LEMMA TasksEnd ==
    ASSUME ViewInv, NEW t \in viewTasks, viewTasks' = viewTasks \ {t}
    PROVE  /\ viewTasks' \subseteq ViewTasks
           /\ ~(t.at \in {"retry", "refused"} \/ (t.at \in {"strip", "download"} /\ t.alive))
                 => (TaskDue => TaskDue')
BY DEF ViewInv, ViewTypeOK, TaskDue

LEMMA TasksBecome ==
    ASSUME ViewInv, NEW t \in viewTasks,
           NEW at \in {"retry", "started", "refused"},
           View!Becomes(t, [t EXCEPT !.at = at])
    PROVE  /\ viewTasks' \subseteq ViewTasks
           /\ at \in {"retry", "refused"} => TaskDue'
<1> DEFINE u == [t EXCEPT !.at = at]
<1>1. t \in ViewTasks /\ viewTasks \subseteq ViewTasks BY DEF ViewInv, ViewTypeOK
<1>2. u \in ViewTasks /\ u.at = at BY <1>1 DEF ViewTasks
<1>3. viewTasks' = (viewTasks \ {t}) \union {u} BY DEF View!Becomes
<1> HIDE DEF u
<1> QED BY <1>1, <1>2, <1>3 DEF TaskDue

\* A handler that ends with its page changes nothing that is shown.
LEMMA ViewTaskEnds ==
    ASSUME ViewInv, NEW t \in viewTasks,
           t.at = "started" \/ (t.at \in {"strip", "download"} /\ ~t.alive),
           viewTasks' = viewTasks \ {t}, LoopsKept,
           UNCHANGED <<srv, wire, page, cmd, used, viewShown, doubt>>
    PROVE  ViewInv'
<1>1. viewTasks' \subseteq ViewTasks /\ (TaskDue => TaskDue') BY TasksEnd
<1>2. View!Agrees' = View!Agrees /\ CmdDue' = CmdDue
  BY DEF View!Agrees, View!Snapshot, CmdDue, View!mapRuntimeStateToStatus
<1>3. SyncDue' = SyncDue BY DEF SyncDue, LoopsKept, ViewLoops
<1>4. ShownIsKnown' BY <1>1, <1>2, <1>3 DEF ViewInv, ShownIsKnown
<1> QED BY <1>1, <1>4, ViewHeld DEF ViewInv, ViewTypeOK

LEMMA ViewRetries ==
    ASSUME ViewInv, NEW t \in viewTasks, t.at \in {"strip", "download"}, NEW r,
           View!Retries(t, r) \/ View!GivesUp(t), UNCHANGED <<srv, wire, page, cmd, used>>
    PROVE  ViewInv'
<1>1. t \in ViewTasks /\ t.loop \in ViewLoops /\ cmd' \in ViewCmds
  BY DEF ViewInv, ViewTypeOK, ViewTasks
<1>2. LoopsKept
  <2>1. loops' = View!Mutated(t, r) \/ UNCHANGED loops \/
        loops' = [loops EXCEPT ![t.loop].rec = View!Fresh, ![t.loop].has = t.loop = "page"]
    BY DEF View!Retries, View!GivesUp
  <2>2. View!Mutated(t, r) = loops \/ View!Mutated(t, r) = [loops EXCEPT ![t.loop].rec = r]
    BY DEF View!Mutated
  <2> DEFINE h == t.loop = "page"
  <2>3. \/ UNCHANGED loops \/ loops' = [loops EXCEPT ![t.loop].rec = r]
        \/ loops' = [loops EXCEPT ![t.loop].rec = View!Fresh, ![t.loop].has = h]
    BY <2>1, <2>2
  <2> HIDE DEF h
  <2> QED BY <1>1, <2>3, RecoveryKeeps
<1>3. CASE t.alive
  <2>1. doubt' # {} BY <1>3 DEF View!Retries, View!GivesUp
  <2>2. viewTasks' \subseteq ViewTasks
    <3>1. CASE View!Retries(t, r) BY <1>3, <3>1, TasksBecome DEF View!Retries
    <3>2. CASE View!GivesUp(t) BY <1>3, <3>2, TasksEnd DEF View!GivesUp, View!Finished
    <3> QED BY <3>1, <3>2
  <2> QED BY <1>1, <1>2, <2>1, <2>2, ViewDoubted
<1>4. CASE ~t.alive
  <2>1. viewTasks' = viewTasks \ {t} /\ UNCHANGED <<viewShown, doubt>>
    BY <1>4 DEF View!Retries, View!GivesUp, View!Finished
  <2> QED BY <1>2, <1>4, <2>1, ViewTaskEnds
<1> QED BY <1>3, <1>4

LEMMA ViewAwaits ==
    ASSUME ViewInv, NEW t \in viewTasks, View!StripDone(t) \/ View!DownloadDone(t)
    PROVE  ViewInv'
<1>1. CASE View!StripDone(t)
  <2>1. t.at = "strip" /\ UNCHANGED <<srv, wire, page, cmd, used>> BY <1>1 DEF View!StripDone
  <2>2. PICK r : View!Retries(t, r) \/ View!GivesUp(t) BY <1>1 DEF View!StripDone
  <2> QED BY <2>1, <2>2, ViewRetries
<1>2. CASE View!DownloadDone(t)
  <2>1. t.at = "download" /\ UNCHANGED <<srv, wire, page, cmd, used>> BY <1>2 DEF View!DownloadDone
  <2>2. PICK r : View!Retries(t, r) \/ View!GivesUp(t) BY <1>2 DEF View!DownloadDone
  <2> QED BY <2>1, <2>2, ViewRetries
<1> QED BY <1>1, <1>2

LEMMA ViewRetryStarts ==
    ASSUME ViewInv, NEW t \in viewTasks, View!RetryStarts(t)
    PROVE  ViewInv'
<1>1. PICK ok \in BOOLEAN :
         View!StartReply(ok) /\ View!Becomes(t, [t EXCEPT !.at = IF ok THEN "started" ELSE "refused"])
  BY DEF View!RetryStarts
<1>2. UNCHANGED <<viewShown, page, loops, cmd, config, doubt>> BY DEF View!RetryStarts
<1>3. cmd \in ViewCmds BY DEF ViewInv, ViewTypeOK
<1>4. viewTasks' \subseteq ViewTasks /\ (~ok => TaskDue')
  <2> DEFINE at == IF ok THEN "started" ELSE "refused"
  <2>1. at \in {"retry", "started", "refused"} /\ (~ok => at = "refused") OBVIOUS
  <2>2. View!Becomes(t, [t EXCEPT !.at = at]) BY <1>1
  <2> HIDE DEF at
  <2> QED BY <2>1, <2>2, TasksBecome
<1>5. CASE \E s \in {"starting", "offline"} :
              wire' = wire \o <<s>> /\ srv' = s /\ View!CountRun
  <2>1. PICK s \in {"starting", "offline"} :
           wire' = wire \o <<s>> /\ srv' = s /\ View!CountRun
    BY <1>5
  <2>2. s \in StatesTold /\ srv' \in ViewStates /\ EventOf(srv') = s
    BY <2>1 DEF StatesTold, ViewStates, EventOf
  <2> QED BY <1>2, <1>3, <1>4, <2>1, <2>2, ViewRuns, ViewSendsOne
<1>6. CASE ~ok /\ UNCHANGED <<srv, wire, used>>
  <2>1. ShownIsKnown' BY <1>4, <1>6 DEF ShownIsKnown
  <2>2. LoopsKept BY <1>2, RecoveryKeeps
  <2> QED BY <1>2, <1>3, <1>4, <1>6, <2>1, <2>2, ViewHeld
<1> QED BY <1>1, <1>5, <1>6, ViewStartReplies

LEMMA ViewRetryReplies ==
    ASSUME ViewInv, NEW t \in viewTasks, View!RetryReply(t)
    PROVE  ViewInv'
<1>1. /\ viewTasks' = viewTasks \ {t} /\ UNCHANGED <<srv, wire, page, cmd, config, used>>
  BY DEF View!RetryReply, View!Finished
<1>2. cmd' \in ViewCmds /\ viewTasks' \subseteq ViewTasks BY <1>1, TasksEnd DEF ViewInv, ViewTypeOK
<1>3. LoopsKept
  <2>1. "monitor" \in ViewLoops BY DEF ViewLoops
  <2>2. UNCHANGED loops \/ loops' = [loops EXCEPT !["monitor"].rec = View!Fresh, !["monitor"].has = FALSE]
    BY DEF View!RetryReply
  <2> QED BY <2>1, <2>2, RecoveryKeeps
<1>4. CASE t.at = "started"
  <2>1. UNCHANGED <<viewShown, doubt>> BY <1>4 DEF View!RetryReply
  <2> QED BY <1>1, <1>3, <1>4, <2>1, ViewTaskEnds
<1>5. CASE t.at # "started"
  <2>1. doubt' # {} BY <1>5 DEF View!RetryReply
  <2> QED BY <1>1, <1>2, <1>3, <2>1, ViewDoubted
<1> QED BY <1>4, <1>5

--------------------------------------------------------------------------------
\* The page opens: its snapshot, still to be taken, will tell what it misses.
LEMMA ViewOpens ==
    ASSUME ViewInv, View!OpenPage
    PROVE  ViewInv'
<1>1. /\ DOMAIN loops = ViewLoops /\ used \in [runs : Nat, opens : Nat, clicks : Nat]
      /\ \A l \in ViewLoops : /\ DOMAIN loops[l] = {"sync", "seen", "has", "rec"}
                              /\ loops[l].sync \in {"none", "asked", "done"} \union Answers
                              /\ loops[l].seen \in BOOLEAN
  BY DEF ViewInv, ViewTypeOK
<1>2. /\ page' = "opening" /\ used' = [used EXCEPT !.opens = @ + 1]
      /\ UNCHANGED <<srv, wire, viewShown, viewTasks, cmd, config, doubt>>
      /\ loops' = [loops EXCEPT !["page"] =
                     [sync |-> "asked", seen |-> FALSE, has |-> TRUE, rec |-> View!Fresh]]
  BY DEF View!OpenPage
<1>3. /\ DOMAIN loops' = ViewLoops /\ loops'["monitor"] = loops["monitor"]
      /\ loops'["page"] = [sync |-> "asked", seen |-> FALSE, has |-> TRUE, rec |-> View!Fresh]
  BY <1>1, <1>2 DEF ViewLoops
<1>4. used' \in [runs : Nat, opens : Nat, clicks : Nat] /\ used'.opens > 0 BY <1>1, <1>2
<1>5. ViewTypeOK' BY <1>1, <1>2, <1>3, <1>4 DEF ViewInv, ViewTypeOK, ViewLoops
<1>6. WireEnds' BY <1>2 DEF ViewInv, WireEnds, EventOf
<1>7. PageIsKnown' BY <1>2, <1>3, <1>4 DEF PageIsKnown
<1>8. SnapshotsAreTrue' BY <1>3, <1>4 DEF SnapshotsAreTrue, WillShow, Answers, StatesTold
<1>9. ShownIsKnown' BY <1>3 DEF ShownIsKnown, SyncDue
<1> QED BY <1>5, <1>6, <1>7, <1>8, <1>9 DEF ViewInv

LEMMA ViewListens ==
    ASSUME ViewInv, View!PageListens
    PROVE  ViewInv'
<1>1. page = "opening" /\ page' = "open"
      /\ UNCHANGED <<srv, wire, viewShown, loops, viewTasks, cmd, config, doubt, used>>
  BY DEF View!PageListens
<1>2. ViewTypeOK' /\ WireEnds' /\ PageIsKnown'
  BY <1>1 DEF ViewInv, ViewTypeOK, WireEnds, PageIsKnown, EventOf
<1>3. SnapshotsAreTrue' BY <1>1 DEF ViewInv, SnapshotsAreTrue, WillShow, View!Snapshot
<1>4. ShownIsKnown'
  BY <1>1 DEF ViewInv, ShownIsKnown, View!Agrees, View!Snapshot, View!mapRuntimeStateToStatus,
              TaskDue, SyncDue, CmdDue
<1> QED BY <1>2, <1>3, <1>4 DEF ViewInv

\* What the page was about to do to the status, it leaves undone: that is the doubt.
LEMMA ViewCloses ==
    ASSUME ViewInv, View!ClosePage
    PROVE  ViewInv'
<1>1. /\ page = "open" /\ page' = "closed"
      /\ UNCHANGED <<srv, wire, viewShown, cmd, config, used>>
      /\ loops' = [loops EXCEPT !["page"].sync = "none"]
  BY DEF View!ClosePage
<1>2. /\ DOMAIN loops' = ViewLoops /\ loops'["monitor"] = loops["monitor"]
      /\ DOMAIN loops'["page"] = {"sync", "seen", "has", "rec"}
      /\ loops'["page"].sync = "none" /\ loops'["page"].seen = loops["page"].seen
  BY <1>1 DEF ViewInv, ViewTypeOK, ViewLoops
<1> DEFINE o(t) == IF t.loop = "page" THEN [t EXCEPT !.alive = FALSE, !.mine = FALSE] ELSE t
<1>3. viewTasks' = {o(t) : t \in viewTasks} BY DEF View!ClosePage
<1>4. \A t \in ViewTasks : o(t) \in ViewTasks BY DEF ViewTasks
<1>5. \A t \in viewTasks : t.loop # "page" => o(t) = t OBVIOUS
<1> HIDE DEF o
<1>6. viewTasks' \subseteq ViewTasks BY <1>3, <1>4 DEF ViewInv, ViewTypeOK
<1>7. ViewTypeOK' BY <1>1, <1>2, <1>6 DEF ViewInv, ViewTypeOK, ViewLoops
<1>8. WireEnds' BY <1>1 DEF ViewInv, WireEnds, EventOf
<1>9. PageIsKnown' BY <1>1, <1>2 DEF PageIsKnown
<1>10. View!Snapshot' = View!Snapshot BY <1>1 DEF View!Snapshot
<1>11. SnapshotsAreTrue'
  BY <1>1, <1>2, <1>10 DEF ViewInv, SnapshotsAreTrue, WillShow, Answers, StatesTold
<1>12. ShownIsKnown'
  <2> SUFFICES ASSUME wire' = <<>>, doubt' = {}
               PROVE  View!Agrees' \/ TaskDue' \/ SyncDue' \/ CmdDue'
    BY DEF ShownIsKnown
  <2>1. /\ doubt = {} /\ loops["page"].sync \in {"none", "done"}
        /\ \A t \in viewTasks : t.loop # "page"
    BY DEF View!ClosePage
  <2>2. View!Agrees \/ TaskDue \/ CmdDue BY <1>1, <2>1 DEF ViewInv, ShownIsKnown, SyncDue
  <2>3. View!Agrees => View!Agrees' BY <1>1, <1>10 DEF View!Agrees, View!mapRuntimeStateToStatus
  <2>4. TaskDue => TaskDue' BY <1>3, <1>5, <2>1 DEF TaskDue
  <2>5. CmdDue => CmdDue' BY <1>1 DEF CmdDue
  <2> QED BY <2>2, <2>3, <2>4, <2>5
<1> QED BY <1>7, <1>8, <1>9, <1>11, <1>12 DEF ViewInv

LEMMA ViewSnapshotIsTaken ==
    ASSUME ViewInv, NEW l \in ViewLoops, View!TakeSnapshot(l)
    PROVE  ViewInv'
<1>1. /\ loops[l].sync = "asked" /\ loops' = [loops EXCEPT ![l].sync = View!Snapshot]
      /\ UNCHANGED <<srv, wire, viewShown, page, viewTasks, cmd, config, doubt, used>>
  BY DEF View!TakeSnapshot
<1>2. /\ DOMAIN loops = ViewLoops /\ srv \in ViewStates
      /\ \A k \in ViewLoops : /\ DOMAIN loops[k] = {"sync", "seen", "has", "rec"}
                              /\ loops[k].sync \in {"none", "asked", "done"} \union Answers
                              /\ loops[k].seen \in BOOLEAN
  BY DEF ViewInv, ViewTypeOK
<1>3. View!Snapshot \in Answers BY <1>2, SnapshotTells
<1>4. /\ DOMAIN loops' = ViewLoops
      /\ \A k \in ViewLoops : /\ DOMAIN loops'[k] = {"sync", "seen", "has", "rec"}
                              /\ loops'[k].sync = IF k = l THEN View!Snapshot ELSE loops[k].sync
                              /\ loops'[k].seen = loops[k].seen
  BY <1>1, <1>2
<1>5. View!Snapshot' = View!Snapshot BY <1>1 DEF View!Snapshot
<1>6. ViewTypeOK' BY <1>1, <1>2, <1>3, <1>4 DEF ViewInv, ViewTypeOK
<1>7. WireEnds' BY <1>1 DEF ViewInv, WireEnds, EventOf
<1>8. PageIsKnown' BY <1>1, <1>4 DEF ViewInv, PageIsKnown, ViewLoops
<1>9. SnapshotsAreTrue'
  BY <1>1, <1>4, <1>5 DEF ViewInv, SnapshotsAreTrue, WillShow, ViewLoops
<1>10. ShownIsKnown'
  <2>1. View!Agrees' = View!Agrees /\ TaskDue' = TaskDue /\ CmdDue' = CmdDue
    BY <1>1, <1>5 DEF View!Agrees, TaskDue, CmdDue, View!mapRuntimeStateToStatus
  <2>2. SyncDue => SyncDue' BY <1>1, <1>3, <1>4 DEF SyncDue, ViewLoops, Answers, StatesTold
  <2> QED BY <1>1, <2>1, <2>2 DEF ViewInv, ShownIsKnown
<1> QED BY <1>6, <1>7, <1>8, <1>9, <1>10 DEF ViewInv

LEMMA ViewSnapshotLands ==
    ASSUME ViewInv, NEW l \in ViewLoops, View!SnapshotLands(l)
    PROVE  ViewInv'
<1>1. /\ loops[l].sync \notin {"none", "asked", "done"}
      /\ UNCHANGED <<srv, wire, page, viewTasks, cmd, config, used>>
  BY DEF View!SnapshotLands
<1>2. /\ DOMAIN loops = ViewLoops
      /\ \A k \in ViewLoops : /\ DOMAIN loops[k] = {"sync", "seen", "has", "rec"}
                              /\ loops[k].sync \in {"none", "asked", "done"} \union Answers
                              /\ loops[k].seen \in BOOLEAN
  BY DEF ViewInv, ViewTypeOK
<1>3. /\ DOMAIN loops' = ViewLoops
      /\ \A k \in ViewLoops : /\ DOMAIN loops'[k] = {"sync", "seen", "has", "rec"}
                              /\ loops'[k].sync = IF k = l THEN "done" ELSE loops[k].sync
                              /\ loops'[k].seen = loops[k].seen
  <2>1. CASE loops[l].seen BY <1>2, <2>1 DEF View!SnapshotLands
  <2>2. CASE ~loops[l].seen
    <3> DEFINE up == loops[l].sync \in {"online", "running-external"}
               r  == [View!getRecovery(l) EXCEPT !.everRunning = TRUE]
    <3>1. loops' = [loops EXCEPT ![l].sync = "done", ![l].has = @ \/ up,
                                 ![l].rec = IF up THEN r ELSE @]
      BY <2>2 DEF View!SnapshotLands
    <3> HIDE DEF up, r
    <3> QED BY <1>2, <3>1
  <2> QED BY <2>1, <2>2
<1>4. doubt' = {} => doubt = {} BY DEF View!SnapshotLands
<1>5. View!Snapshot' = View!Snapshot BY <1>1 DEF View!Snapshot
<1>6. ViewTypeOK' BY <1>1, <1>2, <1>3 DEF ViewInv, ViewTypeOK
<1>7. WireEnds' BY <1>1 DEF ViewInv, WireEnds, EventOf
<1>8. PageIsKnown' BY <1>1, <1>3 DEF ViewInv, PageIsKnown, ViewLoops
<1>9. SnapshotsAreTrue'
  BY <1>1, <1>3, <1>4, <1>5 DEF ViewInv, SnapshotsAreTrue, WillShow, ViewLoops, Answers, StatesTold
<1>10. ShownIsKnown'
  <2> SUFFICES ASSUME wire' = <<>>, doubt' = {}
               PROVE  View!Agrees' \/ TaskDue' \/ SyncDue' \/ CmdDue'
    BY DEF ShownIsKnown
  <2>1. View!Agrees \/ TaskDue \/ SyncDue \/ CmdDue BY <1>1, <1>4 DEF ViewInv, ShownIsKnown
  <2>2. TaskDue' = TaskDue /\ CmdDue' = CmdDue BY <1>1 DEF TaskDue, CmdDue
  <2>3. CASE loops[l].seen
    <3>1. UNCHANGED viewShown BY <2>3 DEF View!SnapshotLands
    <3>2. View!Agrees' = View!Agrees
      BY <1>5, <3>1 DEF View!Agrees, View!mapRuntimeStateToStatus
    <3>3. SyncDue => SyncDue' BY <1>3, <2>3 DEF SyncDue, ViewLoops
    <3> QED BY <2>1, <2>2, <3>2, <3>3
  <2>4. CASE ~loops[l].seen
    <3>1. /\ viewShown' = View!mapRuntimeStateToStatus(loops[l].sync)
          /\ l = "monitor" => ~(used.opens > 0)
      BY <2>4 DEF View!SnapshotLands
    <3>2. WillShow(l) BY <1>1, <1>2, <2>4 DEF WillShow
    <3>3. used.opens \in Nat BY DEF ViewInv, ViewTypeOK
    <3>4. loops[l].sync = View!Snapshot
      <4>1. l = "monitor" => used.opens = 0 BY <3>1, <3>3
      <4>2. wire = <<>> /\ doubt = {} BY <1>1, <1>4
      <4> QED BY <3>2, <4>1, <4>2 DEF ViewInv, SnapshotsAreTrue, ViewLoops
    <3> QED BY <1>5, <3>1, <3>4 DEF View!Agrees, View!mapRuntimeStateToStatus
  <2> QED BY <2>3, <2>4
<1> QED BY <1>6, <1>7, <1>8, <1>9, <1>10 DEF ViewInv

--------------------------------------------------------------------------------
\* An event nobody heard is in the snapshot still to be taken, or is the doubt.
LEMMA ViewUnheard ==
    ASSUME ViewInv, View!Unheard
    PROVE  ViewInv'
<1>1. /\ wire # <<>> /\ wire' = Tail(wire) /\ page = "opening"
      /\ UNCHANGED <<srv, viewShown, page, loops, viewTasks, cmd, config, used>>
  BY DEF View!Unheard
<1>2. wire \in Seq(ViewEvents) /\ srv \in ViewStates /\ wire[Len(wire)] = EventOf(srv)
  BY <1>1 DEF ViewInv, ViewTypeOK, WireEnds
<1>3. /\ Tail(wire) \in Seq(ViewEvents)
      /\ Tail(wire) # <<>> => Tail(wire)[Len(Tail(wire))] = EventOf(srv)
      /\ Tail(wire) = <<>> => Head(wire) = EventOf(srv)
  BY <1>1, <1>2, DeliveredIsFirst
<1>4. used.opens > 0 /\ ~loops["page"].seen BY <1>1 DEF ViewInv, PageIsKnown
<1>5. ViewTypeOK' BY <1>1, <1>3 DEF ViewInv, ViewTypeOK
<1>6. WireEnds' BY <1>1, <1>3 DEF WireEnds, EventOf
<1>7. PageIsKnown' BY <1>1 DEF ViewInv, PageIsKnown
<1>8. wire' = <<>> /\ doubt' = {} => loops["page"].sync = "asked"
  <2>1. EventOf(srv) \notin {"javaError", "noguiError"} BY <1>2 DEF EventOf, ViewStates, StatesTold
  <2>2. wire' = <<>> => ~View!IsLine(Head(wire)) BY <1>1, <1>3, <2>1 DEF View!IsLine
  <2> QED BY <2>2 DEF View!Unheard
<1>9. SnapshotsAreTrue'
  <2>1. used' = used /\ used.opens \in Nat BY <1>1 DEF ViewInv, ViewTypeOK
  <2> QED BY <1>1, <1>4, <1>8, <2>1 DEF SnapshotsAreTrue, WillShow, Answers, StatesTold
<1>10. ShownIsKnown' BY <1>1, <1>4, <1>8 DEF ShownIsKnown, SyncDue
<1> QED BY <1>5, <1>6, <1>7, <1>9, <1>10 DEF ViewInv

\* What a loop that hears an event leaves of both.
LoopsHear(l) ==
    /\ DOMAIN loops' = ViewLoops
    /\ \A k \in ViewLoops : /\ DOMAIN loops'[k] = {"sync", "seen", "has", "rec"}
                            /\ loops'[k].sync = loops[k].sync
                            /\ loops'[k].seen = (IF k = l THEN TRUE ELSE loops[k].seen)

LEMMA HearingIsSeen ==
    ASSUME ViewInv, NEW l \in ViewLoops,
           \/ \E r : View!SetRec(l, r)
           \/ View!Forget(l)
           \/ loops' = [loops EXCEPT ![l].seen = TRUE]
    PROVE  LoopsHear(l)
<1>0. /\ DOMAIN loops = ViewLoops
      /\ \A k \in ViewLoops : DOMAIN loops[k] = {"sync", "seen", "has", "rec"}
  BY DEF ViewInv, ViewTypeOK
<1>1. ASSUME NEW r, View!SetRec(l, r) PROVE LoopsHear(l)
  BY <1>0, <1>1 DEF View!SetRec, LoopsHear
<1>2. CASE View!Forget(l) BY <1>0, <1>2 DEF View!Forget, LoopsHear
<1>3. CASE loops' = [loops EXCEPT ![l].seen = TRUE] BY <1>0, <1>3 DEF LoopsHear
<1> QED BY <1>1, <1>2, <1>3

LEMMA TaskIsDue ==
    ASSUME ViewInv, NEW l \in ViewLoops, NEW at \in {"retry", "strip", "download"},
           viewTasks' = viewTasks \union {View!Task(l, at)}
    PROVE  viewTasks' \subseteq ViewTasks /\ TaskDue'
<1> DEFINE t == View!Task(l, at)
<1>1. t \in ViewTasks /\ t.at = at /\ t.alive BY DEF View!Task, ViewTasks
<1>2. viewTasks \subseteq ViewTasks /\ viewTasks' = viewTasks \union {t} BY DEF ViewInv, ViewTypeOK
<1> HIDE DEF t
<1> QED BY <1>1, <1>2 DEF TaskDue

\* A crash heard is shown, or leaves a task that will decide.
LEMMA CrashIsHandled ==
    ASSUME ViewInv, NEW l \in ViewLoops, View!HandleCrash(l)
    PROVE  /\ LoopsHear(l) /\ viewTasks' \subseteq ViewTasks
           /\ viewShown' = "crashed" \/ TaskDue'
<1> DEFINE r == View!recoverFromBootCrash(View!getRecovery(l), View!Server, View!Env)
<1> HIDE DEF r
<1>1. \/ /\ View!Forget(l) /\ viewTasks' = View!Orphan(l) /\ viewShown' = "crashed"
      \/ /\ View!SetRec(l, r.rec)
         /\ \E at \in {"retry", "strip", "download"} :
               viewTasks' = viewTasks \union {View!Task(l, at)}
  BY DEF View!HandleCrash, View!Heard, r
<1>2. CASE /\ View!Forget(l) /\ viewTasks' = View!Orphan(l) /\ viewShown' = "crashed"
  BY <1>2, HearingIsSeen, OrphansDo
<1>3. CASE /\ View!SetRec(l, r.rec)
           /\ \E at \in {"retry", "strip", "download"} :
                 viewTasks' = viewTasks \union {View!Task(l, at)}
  <2>1. LoopsHear(l) BY <1>3, HearingIsSeen
  <2>2. viewTasks' \subseteq ViewTasks /\ TaskDue' BY <1>3, TaskIsDue
  <2> QED BY <2>1, <2>2
<1> QED BY <1>1, <1>2, <1>3

LEMMA StateIsHeard ==
    ASSUME ViewInv, NEW l \in ViewLoops, NEW e, View!ApplyState(l, e)
    PROVE  /\ LoopsHear(l) /\ viewTasks' \subseteq ViewTasks
           /\ \/ TaskDue'
              \/ e \in {"online", "running-external"} /\ viewShown' = "online"
              \/ e = "starting" /\ viewShown' = "starting"
              \/ e = "stopping" /\ viewShown' = "closing"
              \/ e = "sleeping" /\ viewShown' = "sleeping"
              \/ e \in {"crashed", "offline"} /\ viewShown' = "crashed"
              \/ e = "offline" /\ viewShown' = "offline"
<1>0. viewTasks \subseteq ViewTasks BY DEF ViewInv, ViewTypeOK
<1>1. CASE /\ e \in {"online", "running-external"}
           /\ View!SetRec(l, View!noteRecoveryOnline(View!getRecovery(l)))
           /\ View!Heard("online") /\ UNCHANGED viewTasks
  BY <1>0, <1>1, HearingIsSeen DEF View!Heard
<1>2. CASE /\ e = "starting" /\ View!Heard("starting")
           /\ \/ /\ View!SetRec(l, View!createResolvedStartRecovery(View!Server, View!Env))
                 /\ viewTasks' = View!Orphan(l)
              \/ View!SetRec(l, View!getRecovery(l)) /\ UNCHANGED viewTasks
  <2>1. LoopsHear(l) BY <1>2, HearingIsSeen
  <2>2. viewTasks' \subseteq ViewTasks BY <1>0, <1>2, OrphansDo
  <2> QED BY <1>2, <2>1, <2>2 DEF View!Heard
<1>3. CASE /\ e = "stopping" /\ loops' = [loops EXCEPT ![l].seen = TRUE]
           /\ View!Heard("closing") /\ UNCHANGED viewTasks
  BY <1>0, <1>3, HearingIsSeen DEF View!Heard
<1>4. CASE /\ e \in {"sleeping", "offline"} /\ View!Heard(e)
           /\ View!Forget(l) /\ viewTasks' = View!Orphan(l)
  <2>1. LoopsHear(l) BY <1>4, HearingIsSeen
  <2>2. viewTasks' \subseteq ViewTasks BY <1>4, OrphansDo
  <2> QED BY <1>4, <2>1, <2>2 DEF View!Heard
<1>5. CASE e \in {"crashed", "offline"} /\ View!HandleCrash(l)
  BY <1>5, CrashIsHandled
<1> QED BY <1>1, <1>2, <1>3, <1>4, <1>5 DEF View!ApplyState

\* The last event heard is what the backend is.
LEMMA LastEventAgrees ==
    ASSUME srv \in ViewStates, UNCHANGED srv, NEW e, e = EventOf(srv),
           \/ e \in {"online", "running-external"} /\ viewShown' = "online"
           \/ e = "starting" /\ viewShown' = "starting"
           \/ e = "stopping" /\ viewShown' = "closing"
           \/ e = "sleeping" /\ viewShown' = "sleeping"
           \/ e \in {"crashed", "offline"} /\ viewShown' = "crashed"
           \/ e = "offline" /\ viewShown' = "offline"
    PROVE  View!Agrees'
<1>1. View!Snapshot' = View!Snapshot BY DEF View!Snapshot
<1>2. View!Snapshot = IF e = "crashed" THEN "offline" ELSE e
  BY SnapshotTells DEF EventOf
<1>3. /\ View!mapRuntimeStateToStatus("online") = "online"
      /\ View!mapRuntimeStateToStatus("running-external") = "online"
      /\ View!mapRuntimeStateToStatus("starting") = "starting"
      /\ View!mapRuntimeStateToStatus("stopping") = "closing"
      /\ View!mapRuntimeStateToStatus("sleeping") = "sleeping"
      /\ View!mapRuntimeStateToStatus("offline") = "offline"
  BY DEF View!mapRuntimeStateToStatus
<1>4. \/ viewShown' = View!mapRuntimeStateToStatus(View!Snapshot)
      \/ viewShown' = "crashed" /\ View!Snapshot = "offline"
  BY <1>2, <1>3
<1> QED BY <1>1, <1>4 DEF View!Agrees, View!mapRuntimeStateToStatus

\* A delivery either leaves more to deliver, or leaves the status true or a task to decide.
LEMMA ViewDelivers ==
    ASSUME ViewInv, NEW l \in ViewLoops, View!Deliver(l)
    PROVE  ViewInv'
<1>1. /\ wire # <<>> /\ wire' = Tail(wire) /\ UNCHANGED <<srv, page, cmd, used>>
      /\ page = IF l = "page" THEN "open" ELSE "closed"
      /\ \/ View!IsLine(Head(wire)) /\ View!ApplyOutput(l, Head(wire))
         \/ ~View!IsLine(Head(wire)) /\ View!ApplyState(l, Head(wire))
  BY DEF View!Deliver
<1>2. /\ wire \in Seq(ViewEvents) /\ srv \in ViewStates /\ wire[Len(wire)] = EventOf(srv)
      /\ viewTasks \subseteq ViewTasks /\ cmd \in ViewCmds
  BY <1>1 DEF ViewInv, ViewTypeOK, WireEnds
<1>3. /\ Tail(wire) \in Seq(ViewEvents)
      /\ Tail(wire) # <<>> => Tail(wire)[Len(Tail(wire))] = EventOf(srv)
      /\ Tail(wire) = <<>> => Head(wire) = EventOf(srv)
  BY <1>1, <1>2, DeliveredIsFirst
<1>4. wire' = <<>> => ~View!IsLine(Head(wire))
  <2>1. EventOf(srv) \notin {"javaError", "noguiError"} BY <1>2 DEF EventOf, ViewStates, StatesTold
  <2> QED BY <1>1, <1>3, <2>1 DEF View!IsLine
<1>5. /\ viewTasks' \subseteq ViewTasks
      /\ LoopsKept \/ LoopsHear(l)
      /\ wire' = <<>> => LoopsHear(l)
  <2>1. CASE View!IsLine(Head(wire)) /\ View!ApplyOutput(l, Head(wire))
    <3>1. UNCHANGED viewTasks /\ LoopsKept
      BY <2>1, RecoveryKeeps DEF View!ApplyOutput
    <3> QED BY <1>2, <1>4, <2>1, <3>1
  <2>2. CASE ~View!IsLine(Head(wire)) /\ View!ApplyState(l, Head(wire))
    BY <2>2, StateIsHeard
  <2> QED BY <1>1, <2>1, <2>2
<1>6. /\ DOMAIN loops' = ViewLoops
      /\ \A k \in ViewLoops : /\ DOMAIN loops'[k] = {"sync", "seen", "has", "rec"}
                              /\ loops'[k].sync = loops[k].sync /\ loops'[k].seen \in BOOLEAN
  <2>1. \A k \in ViewLoops : loops[k].seen \in BOOLEAN BY DEF ViewInv, ViewTypeOK
  <2> QED BY <1>5, <2>1 DEF LoopsKept, LoopsHear
<1>7. ViewTypeOK' BY <1>1, <1>2, <1>3, <1>5, <1>6 DEF ViewInv, ViewTypeOK
<1>8. WireEnds' BY <1>1, <1>3 DEF WireEnds, EventOf
<1>9. PageIsKnown' BY <1>1, <1>6 DEF ViewInv, PageIsKnown, ViewLoops
<1>10. SnapshotsAreTrue'
  <2> SUFFICES ASSUME wire' = <<>>
               PROVE  /\ ~WillShow("page")'
                      /\ ~WillShow("monitor")' \/ used'.opens # 0
    BY DEF SnapshotsAreTrue
  <2>1. LoopsHear(l) BY <1>5
  <2>2. CASE l = "page"
    <3>1. used'.opens > 0 BY <1>1, <2>2 DEF ViewInv, PageIsKnown
    <3>2. used.opens \in Nat /\ used' = used BY <1>1 DEF ViewInv, ViewTypeOK
    <3>3. used'.opens # 0 BY <3>1, <3>2
    <3>4. ~WillShow("page")' BY <2>1, <2>2 DEF LoopsHear, WillShow, ViewLoops
    <3> QED BY <3>3, <3>4
  <2>3. CASE l = "monitor"
    <3>1. loops["page"].sync = "none" BY <1>1, <2>3 DEF ViewInv, PageIsKnown
    <3> QED BY <2>1, <2>3, <3>1 DEF LoopsHear, WillShow, ViewLoops, Answers, StatesTold
  <2> QED BY <2>2, <2>3 DEF ViewLoops
<1>11. ShownIsKnown'
  <2> SUFFICES ASSUME wire' = <<>> PROVE View!Agrees' \/ TaskDue' BY DEF ShownIsKnown
  <2>1. Head(wire) = EventOf(srv) /\ View!ApplyState(l, Head(wire)) BY <1>1, <1>3, <1>4
  <2> QED BY <1>1, <1>2, <2>1, StateIsHeard, LastEventAgrees
<1> QED BY <1>7, <1>8, <1>9, <1>10, <1>11 DEF ViewInv

LEMMA ViewStep ==
    ASSUME ViewInv, [View!Next]_viewVars
    PROVE  ViewInv'
<1>1. CASE UNCHANGED viewVars
  <2>1. View!Snapshot' = View!Snapshot /\ View!Agrees' = View!Agrees
    BY <1>1 DEF viewVars, View!Snapshot, View!Agrees, View!mapRuntimeStateToStatus
  <2> QED BY <1>1, <2>1 DEF viewVars, ViewInv, ViewTypeOK, WireEnds, EventOf, PageIsKnown,
             SnapshotsAreTrue, WillShow, ShownIsKnown, TaskDue, SyncDue, CmdDue
<1>2. CASE View!JvmUp \/ View!BootFails \/ View!JvmEnds BY <1>2, ViewJvm
<1>3. CASE View!BackendStarts \/ View!AdoptsExternal BY <1>3, ViewBackendStarts
<1>4. CASE View!Unheard BY <1>4, ViewUnheard
<1>5. CASE View!OpenPage \/ View!PageListens \/ View!ClosePage
  BY <1>5, ViewOpens, ViewListens, ViewCloses
<1>6. CASE \E l \in View!Loops : View!Deliver(l) \/ View!TakeSnapshot(l) \/ View!SnapshotLands(l)
  BY <1>6, ViewDelivers, ViewSnapshotIsTaken, ViewSnapshotLands DEF View!Loops, ViewLoops
<1>7. CASE \E t \in viewTasks : \/ View!StripDone(t) \/ View!DownloadDone(t)
                                \/ View!RetryStarts(t) \/ View!RetryReply(t)
  BY <1>7, ViewAwaits, ViewRetryStarts, ViewRetryReplies
<1>8. CASE View!Execute \/ View!Reply \/ View!refreshStatus BY <1>8, ViewExecutes, ViewReplies
<1>9. CASE \/ View!handleStart \/ View!handleStop \/ View!handleSleep
           \/ View!handleRestart \/ View!handleForceKill
           \/ View!handleTerminalCommandSubmit
           \/ View!startServer \/ View!stopServer \/ View!sleepServer
           \/ View!restartServer \/ View!forceKillServer
  BY <1>9, ViewCommands, ViewClicks
<1> QED BY <1>1, <1>2, <1>3, <1>4, <1>5, <1>6, <1>7, <1>8, <1>9 DEF View!Next

\* Once everything sent has arrived and everything asked was answered, the status
\* shown is the backend's, whatever raced before, unless since the last event heard
\* it was guessed after a failed command, decided after an await, or an event went
\* unheard (use-server-runtime.ts, server-runtime-monitor.tsx).
THEOREM WindowQuietViewIsTrue == Spec => []QuietViewIsTrue
<1>1. Init => ViewInv BY ViewStarts DEF Init
<1>2. ViewInv /\ [Next]_vars => ViewInv' BY WindowStep, ViewStep
<1>3. ViewInv => QuietViewIsTrue
  <2>1. View!Quiet => wire = <<>> /\ ~TaskDue /\ ~SyncDue /\ ~CmdDue
    BY DEF View!Quiet, View!Idle, View!Loops, TaskDue, SyncDue, CmdDue
  <2> QED BY <2>1 DEF ViewInv, ShownIsKnown, QuietViewIsTrue, View!QuietViewIsTrue
<1> QED BY <1>1, <1>2, <1>3, PTL DEF Spec
--------------------------------------------------------------------------------
(* A cycle of failed boots.                                                     *)

\* Some of finitely many numbers: the least and the greatest are among them.
LEMMA LeastAndGreatest ==
    ASSUME NEW S, IsFiniteSet(S), S \subseteq Nat, S # {}
    PROVE  Rules!Java!Min(S) \in S /\ Rules!Java!Max(S) \in S
<1> DEFINE Below == OpToRel(<, Nat)
           Topped(T) == \E x \in T : \A y \in T : x >= y
           Missed == {n \in Nat : \E T \in SUBSET S : T # {} /\ Cardinality(T) = n /\ ~Topped(T)}
<1>1. IsWellFoundedOn(Below, Nat) BY NatLessThanWellFounded
<1>2. \E x \in S : \A y \in S : x <= y
  <2>1. PICK x \in S : \A y \in S : <<y, x>> \notin Below
    <3> HIDE DEF Below
    <3> QED BY <1>1, WFMin
  <2>2. \A y \in S : ~(y < x) BY <2>1 DEF OpToRel
  <2> HIDE DEF Below
  <2>3. \A y \in S : x <= y BY <2>2
  <2> QED BY <2>3
<1>3. Missed = {}
  <2> SUFFICES ASSUME Missed # {} PROVE FALSE
    OBVIOUS
  <2>1. PICK n \in Missed : \A j \in Missed : <<j, n>> \notin Below
    <3>1. Missed \subseteq Nat OBVIOUS
    <3> HIDE DEF Below, Missed
    <3> QED BY <1>1, <3>1, WFMin
  <2>2. PICK T \in SUBSET S : T # {} /\ Cardinality(T) = n /\ ~Topped(T) OBVIOUS
  <2>3. PICK x \in T : TRUE BY <2>2
  <2>4. IsFiniteSet(T) /\ IsFiniteSet(T \ {x}) BY FS_Subset
  <2> HIDE DEF Missed
  <2>5. Cardinality(T) \in Nat /\ Cardinality(T \ {x}) \in Nat BY <2>4, FS_CardinalityType
  <2>6. Cardinality(T \ {x}) = n - 1 BY <2>2, <2>4, FS_RemoveElement
  <2>7. <<n - 1, n>> \in Below BY <2>2, <2>5, <2>6 DEF OpToRel
  <2>8. T \ {x} # {} => Topped(T \ {x})
    <3>1. n - 1 \notin Missed BY <2>1, <2>7
    <3> QED BY <2>5, <2>6, <3>1 DEF Missed
  <2> HIDE DEF Below
  <2>9. CASE T \ {x} = {}
    <3>1. \A y \in T : x >= y
      <4>1. \A y \in T : y = x BY <2>9
      <4>2. x \in Nat OBVIOUS
      <4> QED BY <4>1, <4>2
    <3> QED BY <2>2, <3>1
  <2>10. CASE T \ {x} # {}
    <3>1. PICK z \in T \ {x} : \A y \in T \ {x} : z >= y BY <2>8, <2>10
    <3>2. x \in Nat /\ \A y \in T : y \in Nat OBVIOUS
    <3>3. CASE z >= x
      <4>1. \A y \in T : z >= y BY <3>1, <3>3
      <4> QED BY <2>2, <4>1
    <3>4. CASE ~(z >= x)
      <4>1. \A y \in T : x >= y BY <3>1, <3>2, <3>4
      <4> QED BY <2>2, <4>1
    <3> QED BY <3>3, <3>4
  <2> QED BY <2>9, <2>10
<1>4. \E x \in S : \A y \in S : x >= y
  <2>1. Cardinality(S) \in Nat BY FS_CardinalityType
  <2> QED BY <1>3, <2>1
<1> HIDE DEF Below, Missed
<1>5. Rules!Java!Min(S) \in S
  <2>1. (CHOOSE x \in S : \A y \in S : x <= y) \in S BY <1>2
  <2> QED BY <2>1 DEF Rules!Java!Min
<1>6. Rules!Java!Max(S) \in S
  <2>1. (CHOOSE x \in S : \A y \in S : x >= y) \in S BY <1>4
  <2> QED BY <2>1 DEF Rules!Java!Max
<1> QED BY <1>5, <1>6

MajorsOf(e)  == Rules!Java!Majors(e.runtimes)
IsFit(m, e)  == Rules!Java!isJavaCompatible(m, e.need)
Paths(e)     == {e.runtimes[i].path : i \in DOMAIN e.runtimes} \cup {e.globalDefault, Rules!Java!None}

\* A machine: finitely many Javas, none called what a download is.
Machine(e) ==
    /\ \E n \in Nat : e.runtimes = [i \in 1..n |-> e.runtimes[i]]
    /\ IsFiniteSet(MajorsOf(e)) /\ MajorsOf(e) \subseteq Nat \ {0}
    /\ "new" \notin Paths(e) /\ e.need.recommended \in Nat

Recoveries(e) ==
    [everRunning : {FALSE}, javaError : BOOLEAN, noguiError : BOOLEAN, stripAttempted : BOOLEAN,
     downloadOffered : BOOLEAN, attempted : Seq(Nat), didFallback : BOOLEAN,
     executable : Paths(e) \cup {"new"}]

\* No Java was tried twice, nor one too old while one that fits was left.
TriedInTurn(s, e) ==
    /\ \A i, j \in DOMAIN s : s[i] = s[j] => i = j
    /\ \A i \in DOMAIN s : i > 1 /\ ~IsFit(s[i], e)
          => \A m \in MajorsOf(e) : IsFit(m, e) => \E j \in 1..(i - 1) : s[j] = m

\* What was tried of what was installed: a download comes after it.
OfOwn(rec) == IF rec.executable = "new" THEN Rules!Java!Front(rec.attempted) ELSE rec.attempted

Cycle(rec, e) ==
    /\ rec \in Recoveries(e)
    /\ OfOwn(rec) \in Seq(Nat) /\ TriedInTurn(OfOwn(rec), e)
    /\ rec.downloadOffered => MajorsOf(e) \subseteq Rules!Java!ToSet(OfOwn(rec))
    /\ rec.executable = "new" =>
          rec.downloadOffered /\ Rules!Java!ToSet(OfOwn(rec)) \subseteq Rules!Java!ToSet(rec.attempted)

\* A download is offered while what is installed is still in use.
Turn(b, e) ==
    /\ Cycle(b.rec, e)
    /\ b.does = "download" => b.rec.downloadOffered /\ b.rec.executable # "new"

LEMMA MachineDomain ==
    ASSUME NEW e, Machine(e)
    PROVE  \E n \in Nat : DOMAIN e.runtimes = 1..n /\ (n = 0 => e.runtimes = <<>>)
<1>1. PICK n \in Nat : e.runtimes = [i \in 1..n |-> e.runtimes[i]] BY DEF Machine
<1>2. DOMAIN e.runtimes = 1..n BY <1>1
<1>3. n = 0 => e.runtimes = <<>>
  <2> SUFFICES ASSUME n = 0 PROVE [i \in 1..n |-> e.runtimes[i]] = <<>>
    BY <1>1
  <2>1. 1..n = {} OBVIOUS
  <2> QED BY <2>1
<1> QED BY <1>2, <1>3

\* The runtime listed first with a major is one of the machine's.
LEMMA FirstIsListed ==
    ASSUME NEW e, Machine(e), NEW m \in MajorsOf(e)
    PROVE  Rules!Java!FirstOf(m, e.runtimes).path \in Paths(e)
<1> DEFINE S == {i \in DOMAIN e.runtimes : e.runtimes[i].major = m}
<1>1. PICK n \in Nat : DOMAIN e.runtimes = 1..n BY MachineDomain
<1>2. S # {} BY DEF MajorsOf, Rules!Java!Majors
<1>3. S \subseteq 1..n /\ S \subseteq Nat BY <1>1
<1>4. IsFiniteSet(S)
  <2>1. IsFiniteSet(1..n) BY FS_Interval
  <2> QED BY <1>3, <2>1, FS_Subset
<1> HIDE DEF S
<1>5. Rules!Java!Min(S) \in S BY <1>2, <1>3, <1>4, LeastAndGreatest
<1>6. PICK i \in S : i = Rules!Java!Min(S) BY <1>5
<1>7. Rules!Java!FirstOf(m, e.runtimes) = e.runtimes[i] BY <1>6 DEF Rules!Java!FirstOf, S
<1>8. i \in DOMAIN e.runtimes BY DEF S
<1> QED BY <1>7, <1>8 DEF Paths

\* Which Java a server without a pin starts with.
LEMMA ResolvedIsListed ==
    ASSUME NEW e, Machine(e), NEW s, s.pin = Rules!Java!None
    PROVE  Rules!Java!Resolved(s, e).path \in Paths(e) /\ Rules!Java!Resolved(s, e).major \in Nat
<1> DEFINE found == Rules!Java!findJavaRuntimeByExecutablePath(e.globalDefault, e.runtimes)
           best == Rules!Java!chooseBestInstalledJava(MajorsOf(e), e.need)
           automatic(m) == [path |-> Rules!Java!FirstOf(m, e.runtimes).path, pinned |-> FALSE, major |-> m]
           r == Rules!Java!Resolved(s, e)
<1>1. found.major \in Nat
  <2> DEFINE S == {i \in DOMAIN e.runtimes : e.runtimes[i].path = e.globalDefault}
  <2>1. CASE S = {}
    BY <2>1 DEF Rules!Java!findJavaRuntimeByExecutablePath
  <2>2. CASE S # {}
    <3>1. PICK n \in Nat : DOMAIN e.runtimes = 1..n BY MachineDomain
    <3>2. S \subseteq 1..n /\ S \subseteq Nat BY <3>1
    <3>3. IsFiniteSet(S)
      <4>1. IsFiniteSet(1..n) BY FS_Interval
      <4> QED BY <3>2, <4>1, FS_Subset
    <3>4. found = e.runtimes[Rules!Java!Min(S)]
      BY <2>2 DEF Rules!Java!findJavaRuntimeByExecutablePath
    <3>5. S \subseteq DOMAIN e.runtimes OBVIOUS
    <3> HIDE DEF S, found
    <3>6. PICK i \in DOMAIN e.runtimes : found = e.runtimes[i]
      BY <2>2, <3>2, <3>3, <3>4, <3>5, LeastAndGreatest
    <3>7. e.runtimes[i].major \in MajorsOf(e) BY DEF MajorsOf, Rules!Java!Majors
    <3> QED BY <3>6, <3>7 DEF Machine
  <2> QED BY <2>1, <2>2
<1>2. best # 0 => best \in MajorsOf(e)
  <2> DEFINE fits == {m \in MajorsOf(e) : Rules!Java!isJavaCompatible(m, e.need)}
             up == {m \in fits : m >= e.need.recommended}
  <2>1. best = IF fits = {} THEN 0 ELSE IF up # {} THEN Rules!Java!Min(up) ELSE Rules!Java!Max(fits)
    BY DEF Rules!Java!chooseBestInstalledJava
  <2>2. fits \subseteq MajorsOf(e) /\ up \subseteq MajorsOf(e) OBVIOUS
  <2>3. IsFiniteSet(fits) /\ IsFiniteSet(up) /\ fits \subseteq Nat /\ up \subseteq Nat
    <3> HIDE DEF fits, up
    <3> QED BY <2>2, FS_Subset DEF Machine
  <2> HIDE DEF fits, up, best
  <2> QED BY <2>1, <2>2, <2>3, LeastAndGreatest
<1>3. r \in {[path |-> e.globalDefault, pinned |-> TRUE, major |-> found.major],
             [path |-> Rules!Java!None, pinned |-> FALSE, major |-> 0]}
      \/ (best # 0 /\ r = automatic(best))
      \/ (e.runtimes # <<>> /\ r = automatic(Rules!Java!Max(MajorsOf(e))))
  <2> HIDE DEF automatic, found, best
  <2> QED BY Zenon DEF Rules!Java!Resolved, Rules!Java!resolveServerJavaExecutable, MajorsOf, automatic, found, best
<1>4. e.runtimes # <<>> => Rules!Java!Max(MajorsOf(e)) \in MajorsOf(e)
  <2> SUFFICES ASSUME e.runtimes # <<>> PROVE MajorsOf(e) # {}
    BY LeastAndGreatest DEF Machine
  <2>1. PICK n \in Nat : DOMAIN e.runtimes = 1..n /\ n # 0 BY MachineDomain
  <2>2. 1 \in DOMAIN e.runtimes BY <2>1
  <2> QED BY <2>2 DEF MajorsOf, Rules!Java!Majors
<1>5. \A m \in MajorsOf(e) : automatic(m).path \in Paths(e) /\ automatic(m).major \in Nat
  BY FirstIsListed DEF Machine
<1>6. e.globalDefault \in Paths(e) /\ Rules!Java!None \in Paths(e) BY DEF Paths
<1> HIDE DEF found, best, automatic, r
<1>7. CASE r = [path |-> e.globalDefault, pinned |-> TRUE, major |-> found.major]
  BY <1>1, <1>6, <1>7 DEF r
<1>8. CASE r = [path |-> Rules!Java!None, pinned |-> FALSE, major |-> 0]
  BY <1>6, <1>8 DEF r
<1> QED BY <1>2, <1>3, <1>4, <1>5, <1>7, <1>8 DEF r

LEMMA FreshCycle ==
    ASSUME NEW e, Machine(e), NEW s, s.pin = Rules!Java!None
    PROVE  Cycle(Rules!Java!createResolvedStartRecovery(s, e), e)
<1> DEFINE path == Rules!Java!Resolved(s, e).path
           major == Rules!Java!Resolved(s, e).major
           rec == Rules!Java!createResolvedStartRecovery(s, e)
<1>1. path \in Paths(e) /\ major \in Nat BY ResolvedIsListed
<1>2. rec = [everRunning |-> FALSE, javaError |-> FALSE, noguiError |-> FALSE,
             stripAttempted |-> FALSE, downloadOffered |-> FALSE,
             attempted |-> IF major = 0 THEN <<>> ELSE <<major>>,
             didFallback |-> FALSE, executable |-> path]
  BY DEF Rules!Java!createResolvedStartRecovery, Rules!Java!createStartRecovery
<1> HIDE DEF path, major, rec
<1>3. PICK a : a = (IF major = 0 THEN <<>> ELSE <<major>>) OBVIOUS
<1>4. a \in Seq(Nat) /\ \A i \in DOMAIN a : i = 1 BY <1>1, <1>3
<1>5. rec.attempted = a /\ ~rec.downloadOffered /\ rec.executable = path /\ rec \in Recoveries(e)
  BY <1>1, <1>2, <1>3, <1>4 DEF Recoveries
<1>6. path # "new" BY <1>1 DEF Machine
<1>7. OfOwn(rec) = a BY <1>5, <1>6 DEF OfOwn
<1>8. TriedInTurn(a, e) BY <1>4 DEF TriedInTurn
<1>9. Cycle(rec, e) BY <1>4, <1>5, <1>6, <1>7, <1>8 DEF Cycle
<1> QED BY <1>9 DEF rec

\* What else is noted of a cycle leaves what it tried.
LEMMA CycleGoesOn ==
    ASSUME NEW e, NEW rec, Cycle(rec, e), NEW new \in Recoveries(e),
           new.attempted = rec.attempted, new.executable = rec.executable,
           new.downloadOffered = rec.downloadOffered
    PROVE  Cycle(new, e)
BY DEF Cycle, OfOwn

LEMMA NotedCycle ==
    ASSUME NEW e, NEW rec, Cycle(rec, e), NEW s, NEW line
    PROVE  Cycle(Rules!Java!noteRecoveryOutput(rec, s, line), e)
<1> DEFINE new == Rules!Java!noteRecoveryOutput(rec, s, line)
           x == rec.noguiError \/ line = "noguiError"
           y == rec.javaError \/ (line = "javaError" /\ s.pin = Rules!Java!None)
<1>1. rec \in Recoveries(e) BY DEF Cycle
<1>2. ~rec.everRunning BY <1>1 DEF Recoveries
<1>3. new = [rec EXCEPT !.noguiError = x, !.javaError = y]
  BY <1>2, Zenon DEF Rules!Java!noteRecoveryOutput
<1>4. x \in BOOLEAN /\ y \in BOOLEAN OBVIOUS
<1> HIDE DEF new, x, y
<1>5. new \in Recoveries(e) /\ new.attempted = rec.attempted /\ new.executable = rec.executable
      /\ new.downloadOffered = rec.downloadOffered
  BY <1>1, <1>3, <1>4 DEF Recoveries
<1> QED BY <1>5, CycleGoesOn DEF new

\* What is tried next was not tried before, and is too old only when nothing that fits is left.
LEMMA NextIsLeft ==
    ASSUME NEW e, Machine(e), NEW s \in Seq(Nat), NEW next,
           next = Rules!Java!planJavaFallback(e.runtimes, s, e.need)
    PROVE  /\ next = 0 => MajorsOf(e) \subseteq Rules!Java!ToSet(s)
           /\ next # 0 => /\ next \in MajorsOf(e) \ Rules!Java!ToSet(s)
                          /\ ~IsFit(next, e) =>
                                \A m \in MajorsOf(e) : IsFit(m, e) => m \in Rules!Java!ToSet(s)
<1> DEFINE latest == IF s = <<>> THEN 0 ELSE Rules!Java!Last(s)
           remain == MajorsOf(e) \ Rules!Java!ToSet(s)
           fits == {m \in remain : IsFit(m, e)}
           above == {m \in fits : m > latest}
<1>1. next = IF remain = {} THEN 0
             ELSE IF above # {} THEN Rules!Java!Min(above)
             ELSE IF fits # {} THEN Rules!Java!Max(fits)
             ELSE Rules!Java!Max(remain)
  BY Zenon DEF Rules!Java!planJavaFallback, MajorsOf, IsFit
<1>2. remain \subseteq MajorsOf(e) /\ fits \subseteq remain /\ above \subseteq fits OBVIOUS
<1> HIDE DEF latest, above
<1>3. IsFiniteSet(MajorsOf(e)) /\ MajorsOf(e) \subseteq Nat /\ 0 \notin MajorsOf(e) BY DEF Machine
<1>4. /\ IsFiniteSet(remain) /\ remain \subseteq Nat
      /\ IsFiniteSet(fits) /\ fits \subseteq Nat
      /\ IsFiniteSet(above) /\ above \subseteq Nat
  <2> HIDE DEF remain, fits
  <2> QED BY <1>2, <1>3, FS_Subset
<1>5. next = 0 => remain = {}
  <2> HIDE DEF remain, fits
  <2>1. CASE remain # {} /\ above # {}
    BY <1>1, <1>2, <1>3, <1>4, <2>1, LeastAndGreatest
  <2>2. CASE remain # {} /\ above = {} /\ fits # {}
    BY <1>1, <1>2, <1>3, <1>4, <2>2, LeastAndGreatest
  <2>3. CASE remain # {} /\ above = {} /\ fits = {}
    BY <1>1, <1>2, <1>3, <1>4, <2>3, LeastAndGreatest
  <2> QED BY <2>1, <2>2, <2>3
<1>6. next # 0 => next \in remain /\ (next \in fits \/ fits = {})
  <2> HIDE DEF remain, fits
  <2>1. CASE above # {}
    BY <1>1, <1>2, <1>4, <2>1, LeastAndGreatest
  <2>2. CASE above = {} /\ fits # {}
    BY <1>1, <1>2, <1>4, <2>2, LeastAndGreatest
  <2>3. CASE above = {} /\ fits = {}
    BY <1>1, <1>2, <1>4, <2>3, LeastAndGreatest
  <2> QED BY <2>1, <2>2, <2>3
<1> QED BY <1>5, <1>6

\* The next Java is tried.
LEMMA TriesNext ==
    ASSUME NEW e, Machine(e), NEW s \in Seq(Nat), TriedInTurn(s, e), NEW next \in Nat,
           next \in MajorsOf(e) \ Rules!Java!ToSet(s),
           ~IsFit(next, e) => \A m \in MajorsOf(e) : IsFit(m, e) => m \in Rules!Java!ToSet(s)
    PROVE  Append(s, next) \in Seq(Nat) /\ TriedInTurn(Append(s, next), e)
<1> DEFINE t == Append(s, next)
           n == Len(s)
<1>1. /\ t \in Seq(Nat) /\ Len(t) = n + 1 /\ n \in Nat /\ DOMAIN t = 1..(n + 1) /\ DOMAIN s = 1..n
      /\ t[n + 1] = next /\ \A i \in 1..n : t[i] = s[i]
  BY AppendProperties, LenProperties
<1>2. Rules!Java!ToSet(s) = {s[i] : i \in 1..n} BY <1>1 DEF Rules!Java!ToSet
<1> HIDE DEF t, n
<1>3. \A i \in 1..n : s[i] # next BY <1>2
<1>4. ASSUME NEW i \in DOMAIN t, NEW j \in DOMAIN t, t[i] = t[j] PROVE i = j
  <2>1. (i \in 1..n \/ i = n + 1) /\ (j \in 1..n \/ j = n + 1) BY <1>1
  <2> QED BY <1>1, <1>3, <1>4, <2>1 DEF TriedInTurn
<1>5. ASSUME NEW i \in DOMAIN t, i > 1, ~IsFit(t[i], e), NEW m \in MajorsOf(e), IsFit(m, e)
      PROVE  \E j \in 1..(i - 1) : t[j] = m
  <2>1. CASE i \in 1..n
    <3>1. PICK j \in 1..(i - 1) : s[j] = m BY <1>1, <1>5, <2>1 DEF TriedInTurn
    <3>2. j \in 1..n BY <1>1, <2>1
    <3> QED BY <1>1, <3>1, <3>2
  <2>2. CASE i = n + 1
    <3>1. PICK j \in 1..n : s[j] = m BY <1>1, <1>2, <1>5, <2>2
    <3>2. j \in 1..(i - 1) BY <1>1, <2>2
    <3> QED BY <1>1, <3>1, <3>2
  <2> QED BY <1>1, <2>1, <2>2
<1>6. TriedInTurn(t, e) BY <1>4, <1>5 DEF TriedInTurn
<1> QED BY <1>1, <1>6 DEF t

\* A crash: the flag is dropped, the next Java is tried, a download is offered, or no more.
LEMMA CrashedCycle ==
    ASSUME NEW e, Machine(e), NEW rec, Cycle(rec, e), NEW s, s.pin = Rules!Java!None
    PROVE  Turn(Rules!Java!recoverFromBootCrash(rec, s, e), e)
<1> DEFINE after == Rules!Java!recoverFromBootCrash(rec, s, e)
           strips == rec.noguiError /\ ~rec.stripAttempted /\ s.nogui
           rec1 == IF strips THEN [rec EXCEPT !.noguiError = FALSE, !.stripAttempted = TRUE] ELSE rec
           rec2 == [rec1 EXCEPT !.javaError = FALSE]
           next == Rules!Java!planJavaFallback(e.runtimes, rec.attempted, e.need)
           path == Rules!Java!FirstOf(next, e.runtimes).path
           tries == [rec2 EXCEPT !.attempted = Append(@, next), !.didFallback = TRUE, !.executable = path]
           offers == [rec2 EXCEPT !.downloadOffered = TRUE]
<1>1. rec \in Recoveries(e) BY DEF Cycle
<1>2. ~rec.everRunning /\ rec.attempted \in Seq(Nat) BY <1>1 DEF Recoveries
<1>3. \/ after \in {[does |-> "none", rec |-> rec], [does |-> "none", rec |-> rec1]}
      \/ after = [does |-> "strip", rec |-> rec1]
      \/ next # 0 /\ after = [does |-> "retry", rec |-> tries]
      \/ next = 0 /\ ~rec1.downloadOffered /\ after = [does |-> "download", rec |-> offers]
      \/ after = [does |-> "failed", rec |-> rec2]
  <2>1. after = LET exe == IF rec.executable # Rules!Java!None THEN rec.executable
                           ELSE Rules!Java!Resolved(s, e).path
                IN  IF strips /\ exe # Rules!Java!None THEN [does |-> "strip", rec |-> rec1]
                    ELSE IF ~(rec1.javaError /\ s.pin = Rules!Java!None)
                    THEN [does |-> "none", rec |-> rec1]
                    ELSE IF next # 0 THEN [does |-> "retry", rec |-> tries]
                    ELSE IF ~rec.downloadOffered THEN [does |-> "download", rec |-> offers]
                    ELSE [does |-> "failed", rec |-> rec2]
    BY <1>2, Zenon DEF Rules!Java!recoverFromBootCrash
  <2>2. rec1.downloadOffered = rec.downloadOffered BY <1>1 DEF Recoveries
  <2> HIDE DEF after, strips, rec1, rec2, next, tries, offers
  <2> QED BY <2>1, <2>2, Zenon
<1>4. /\ rec1 \in Recoveries(e) /\ rec1.attempted = rec.attempted
      /\ rec1.executable = rec.executable /\ rec1.downloadOffered = rec.downloadOffered
  BY <1>1 DEF Recoveries
<1> HIDE DEF rec1
<1>5. /\ rec2 \in Recoveries(e) /\ rec2.attempted = rec.attempted
      /\ rec2.executable = rec.executable /\ rec2.downloadOffered = rec.downloadOffered
  BY <1>4 DEF Recoveries
<1>6. Cycle(rec1, e) /\ Cycle(rec2, e)
  <2> HIDE DEF rec2
  <2> QED BY <1>4, <1>5, CycleGoesOn
<1>7. next = 0 => MajorsOf(e) \subseteq Rules!Java!ToSet(rec.attempted)
  BY <1>2, NextIsLeft
<1>8. next # 0 => /\ next \in MajorsOf(e) \ Rules!Java!ToSet(rec.attempted)
                  /\ ~IsFit(next, e) => \A m \in MajorsOf(e) : IsFit(m, e)
                                           => m \in Rules!Java!ToSet(rec.attempted)
  BY <1>2, NextIsLeft
<1>9. rec.downloadOffered => MajorsOf(e) \subseteq Rules!Java!ToSet(rec.attempted)
  BY DEF Cycle, OfOwn
<1>10. CASE after \in {[does |-> "none", rec |-> rec], [does |-> "none", rec |-> rec1]}
  <2> HIDE DEF after
  <2>1. after.rec \in {rec, rec1} /\ after.does # "download" BY <1>10
  <2>2. Turn(after, e) BY <1>6, <2>1 DEF Turn
  <2> QED BY <2>2 DEF after
<1>11. CASE after = [does |-> "strip", rec |-> rec1] \/ after = [does |-> "failed", rec |-> rec2]
  <2> HIDE DEF after, rec2
  <2>1. after.rec \in {rec1, rec2} /\ after.does # "download" BY <1>11
  <2>2. Turn(after, e) BY <1>6, <2>1 DEF Turn
  <2> QED BY <2>2 DEF after
<1>12. CASE next # 0 /\ after = [does |-> "retry", rec |-> tries]
  <2>1. next \in MajorsOf(e) /\ next \in Nat BY <1>8, <1>12 DEF Machine
  <2>2. path \in Paths(e) BY <2>1, FirstIsListed
  <2>3. ~rec.downloadOffered /\ rec.executable # "new"
    <3>1. ~rec.downloadOffered BY <1>8, <1>9, <1>12
    <3> QED BY <3>1 DEF Cycle
  <2>4. TriedInTurn(rec.attempted, e) BY <2>3 DEF Cycle, OfOwn
  <2> HIDE DEF next, path, rec2
  <2>5. /\ Append(rec.attempted, next) \in Seq(Nat)
        /\ TriedInTurn(Append(rec.attempted, next), e)
    BY <1>2, <1>8, <1>12, <2>1, <2>4, TriesNext
  <2>6. tries = [rec2 EXCEPT !.attempted = Append(rec.attempted, next), !.didFallback = TRUE,
                             !.executable = path]
    BY <1>5
  <2>7. PICK t : t = Append(rec.attempted, next) OBVIOUS
  <2>8. /\ tries \in Recoveries(e) /\ tries.attempted = t
        /\ tries.executable = path /\ tries.downloadOffered = rec.downloadOffered
    BY <1>5, <2>2, <2>5, <2>6, <2>7 DEF Recoveries
  <2> HIDE DEF tries
  <2>9. path # "new" BY <2>2 DEF Machine
  <2>10. OfOwn(tries) = t BY <2>8, <2>9 DEF OfOwn
  <2>11. Cycle(tries, e) BY <2>3, <2>5, <2>7, <2>8, <2>9, <2>10 DEF Cycle
  <2> HIDE DEF after
  <2>12. after.rec = tries /\ after.does # "download" BY <1>12
  <2>13. Turn(after, e) BY <2>11, <2>12 DEF Turn
  <2> QED BY <2>13 DEF after
<1>13. CASE next = 0 /\ ~rec1.downloadOffered /\ after = [does |-> "download", rec |-> offers]
  <2> HIDE DEF rec2
  <2>1. /\ offers \in Recoveries(e) /\ offers.attempted = rec.attempted
        /\ offers.executable = rec.executable /\ offers.downloadOffered = TRUE
    BY <1>5 DEF Recoveries
  <2> HIDE DEF offers
  <2>2. rec.executable # "new" BY <1>4, <1>13 DEF Cycle
  <2>3. OfOwn(offers) = rec.attempted /\ OfOwn(rec) = rec.attempted BY <2>1, <2>2 DEF OfOwn
  <2>4. Cycle(offers, e) BY <1>7, <1>13, <2>1, <2>2, <2>3 DEF Cycle
  <2> HIDE DEF after
  <2>5. after.rec = offers BY <1>13
  <2>6. Turn(after, e) BY <2>1, <2>2, <2>4, <2>5 DEF Turn
  <2> QED BY <2>6 DEF after
<1> HIDE DEF after, rec2, next, tries, offers
<1> QED BY <1>3, <1>10, <1>11, <1>12, <1>13, Zenon DEF after

\* The flags were saved.
LEMMA SavedCycle ==
    ASSUME NEW e, Machine(e), NEW rec, Cycle(rec, e), NEW s, s.pin = Rules!Java!None
    PROVE  Cycle(Rules!Java!FlagsSaved(rec, s, e), e)
<1> DEFINE path == Rules!Java!Resolved(s, e).path
           new == Rules!Java!FlagsSaved(rec, s, e)
<1>1. path \in Paths(e) BY ResolvedIsListed
<1>2. new = [rec EXCEPT !.executable = IF rec.executable # Rules!Java!None THEN rec.executable ELSE path]
  BY DEF Rules!Java!FlagsSaved
<1>3. rec \in Recoveries(e) BY DEF Cycle
<1> HIDE DEF path, new
<1>4. path # "new" /\ Rules!Java!None # "new" BY <1>1 DEF Machine, Paths
<1>5. PICK x : x = IF rec.executable # Rules!Java!None THEN rec.executable ELSE path OBVIOUS
<1>6. x \in Paths(e) \cup {"new"} /\ (x = "new" <=> rec.executable = "new")
  BY <1>1, <1>3, <1>4, <1>5 DEF Recoveries
<1>7. /\ new \in Recoveries(e) /\ new.attempted = rec.attempted
      /\ new.executable = x /\ new.downloadOffered = rec.downloadOffered
  BY <1>2, <1>3, <1>5, <1>6 DEF Recoveries
<1>8. OfOwn(new) = OfOwn(rec) BY <1>6, <1>7 DEF OfOwn
<1>9. Cycle(new, e) BY <1>6, <1>7, <1>8 DEF Cycle
<1> QED BY <1>9 DEF new

LEMMA FrontOfAppend ==
    ASSUME NEW s \in Seq(Nat), NEW x \in Nat
    PROVE  Rules!Java!Front(Append(s, x)) = s
<1> DEFINE t == Append(s, x)
           n == Len(s)
<1>1. t \in Seq(Nat) /\ Len(t) = n + 1 /\ n \in Nat /\ \A i \in 1..n : t[i] = s[i] /\ s[i] \in Nat
  BY AppendProperties, LenProperties, ElementOfSeq
<1> HIDE DEF t
<1>2. Rules!Java!Front(t) = SubSeq(t, 1, Len(t) - 1) BY DEF Rules!Java!Front
<1>3. Len(t) - 1 = n BY <1>1
<1>4. /\ SubSeq(t, 1, n) \in Seq(Nat) /\ Len(SubSeq(t, 1, n)) = n
      /\ \A i \in 1..n : SubSeq(t, 1, n)[i] = t[i]
  <2>1. 1 \in Int /\ n \in Int /\ \A i \in 1..n : t[i] \in Nat BY <1>1
  <2>2. /\ SubSeq(t, 1, n) \in Seq(Nat)
        /\ Len(SubSeq(t, 1, n)) = IF 1 <= n THEN n - 1 + 1 ELSE 0
        /\ \A i \in 1..(n - 1 + 1) : SubSeq(t, 1, n)[i] = t[1 + i - 1]
    BY <2>1, SubSeqProperties
  <2>3. n - 1 + 1 = n /\ \A i \in 1..n : 1 + i - 1 = i BY <1>1
  <2>4. (IF 1 <= n THEN n - 1 + 1 ELSE 0) = n BY <1>1
  <2> HIDE DEF n
  <2> QED BY <2>2, <2>3, <2>4
<1> HIDE DEF n
<1>5. SubSeq(t, 1, n) = s
  <2>1. \A i \in 1..n : SubSeq(t, 1, n)[i] = s[i] BY <1>1, <1>4
  <2> QED BY <1>4, <2>1, SeqEqual DEF n
<1>6. Rules!Java!Front(t) = s BY <1>2, <1>3, <1>5
<1> QED BY <1>6 DEF t

\* A download ended: it is in use, after all that was installed.
LEMMA DownloadedCycle ==
    ASSUME NEW e, Machine(e), NEW rec, Cycle(rec, e), rec.downloadOffered,
           rec.executable # "new"
    PROVE  Cycle(Rules!Java!Downloaded(rec, [path |-> "new", major |-> e.need.recommended]), e)
<1> DEFINE x == e.need.recommended
           t == Append(rec.attempted, x)
           new == Rules!Java!Downloaded(rec, [path |-> "new", major |-> x])
<1>1. rec \in Recoveries(e) BY DEF Cycle
<1>2. rec.attempted \in Seq(Nat) /\ x \in Nat BY <1>1 DEF Recoveries, Machine
<1>3. new = [rec EXCEPT !.attempted = t, !.didFallback = TRUE, !.executable = "new"]
  BY DEF Rules!Java!Downloaded
<1> HIDE DEF x
<1>4. t \in Seq(Nat) /\ Len(t) = Len(rec.attempted) + 1 /\ \A i \in 1..Len(rec.attempted) : t[i] = rec.attempted[i]
  BY <1>2, AppendProperties
<1>5. Rules!Java!Front(t) = rec.attempted BY <1>2, FrontOfAppend
<1>6. Rules!Java!ToSet(rec.attempted) \subseteq Rules!Java!ToSet(t)
  <2>1. DOMAIN t = 1..Len(t) /\ DOMAIN rec.attempted = 1..Len(rec.attempted) /\ Len(rec.attempted) \in Nat
    BY <1>2, <1>4, LenProperties
  <2> HIDE DEF t
  <2>2. 1..Len(rec.attempted) \subseteq 1..Len(t) BY <1>4, <2>1
  <2> QED BY <1>4, <2>1, <2>2 DEF Rules!Java!ToSet
<1> HIDE DEF t, new
<1>7. /\ new \in Recoveries(e) /\ new.attempted = t
      /\ new.executable = "new" /\ new.downloadOffered = TRUE
  BY <1>1, <1>3, <1>4 DEF Recoveries
<1>8. OfOwn(new) = rec.attempted /\ OfOwn(rec) = rec.attempted BY <1>5, <1>7 DEF OfOwn
<1>9. Cycle(new, e) BY <1>6, <1>7, <1>8 DEF Cycle
<1> QED BY <1>9 DEF new, x

\* Boots crash on a machine that stays as it is, for a server that names no Java.
RecoveryInv ==
    /\ Machine(env) /\ server \in [pin : {Rules!Java!None}, nogui : BOOLEAN]
    /\ Turn(boot, env)

LEMMA NeedIsKnown ==
    ASSUME NEW p \in {"paper", "velocity", "bungeecord"}, NEW v
    PROVE  Rules!Java!resolveJavaRequirement(p, v).recommended \in Nat
BY DEF Rules!Java!resolveJavaRequirement, Rules!Java!requirementFromMinecraftVersion, Rules!Java!Needs

LEMMA RecoveryStarts == Rules!RulesInit => RecoveryInv
<1> SUFFICES ASSUME Rules!RulesInit PROVE RecoveryInv
  OBVIOUS
<1>1. server \in [pin : {Rules!Java!None}, nogui : BOOLEAN] BY DEF Rules!RulesInit
<1>2. PICK majors \in SUBSET RuleMajors :
          \E p \in {"paper", "velocity", "bungeecord"}, v \in Rules!Games :
             \E default \in {Rules!Java!None} \union {Rules!Java!ToString(m) : m \in majors},
                order \in Rules!NewestFirst(majors) :
                 env = [globalDefault |-> default, runtimes |-> Rules!Installed(order),
                        need |-> Rules!Java!resolveJavaRequirement(p, v)]
  BY DEF Rules!RulesInit
<1>2a. PICK p \in {"paper", "velocity", "bungeecord"}, v \in Rules!Games,
            default \in {Rules!Java!None} \union {Rules!Java!ToString(m) : m \in majors},
            order \in Rules!NewestFirst(majors) :
          env = [globalDefault |-> default, runtimes |-> Rules!Installed(order),
                 need |-> Rules!Java!resolveJavaRequirement(p, v)]
  BY <1>2
<1>3. Machine(env)
  <2> DEFINE n == Rules!Cardinality(majors)
  <2>1. IsFiniteSet(majors) /\ majors \subseteq Nat \ {0} /\ \A m \in majors : Rules!Java!ToString(m) # "new"
    BY JavaAssumption, FS_Subset
  <2>2. n \in Nat
    <3>1. n = Cardinality(majors) BY DEF Rules!Cardinality, Cardinality
    <3>2. Cardinality(majors) \in Nat BY <2>1, FS_CardinalityType
    <3> QED BY <3>1, <3>2
  <2>3. order \in [1..n -> majors] BY DEF Rules!NewestFirst
  <2> HIDE DEF n
  <2>4. /\ env.runtimes = [i \in 1..n |-> [path |-> Rules!Java!ToString(order[i]), major |-> order[i]]]
        /\ env.globalDefault = default /\ env.need = Rules!Java!resolveJavaRequirement(p, v)
    BY <1>2a, <2>3 DEF Rules!Installed
  <2>5. \A i \in 1..n : env.runtimes[i].major \in majors
                        /\ env.runtimes[i].path = Rules!Java!ToString(order[i])
    BY <2>3, <2>4
  <2>6. env.runtimes = [i \in 1..n |-> env.runtimes[i]] /\ DOMAIN env.runtimes = 1..n BY <2>4
  <2>7. MajorsOf(env) \subseteq majors BY <2>5, <2>6 DEF MajorsOf, Rules!Java!Majors
  <2>8. IsFiniteSet(MajorsOf(env)) /\ MajorsOf(env) \subseteq Nat \ {0} BY <2>1, <2>7, FS_Subset
  <2>9. Rules!Java!None # "new" BY Zenon DEF Rules!Java!None
  <2>10. "new" \notin Paths(env)
    <3>1. default # "new" BY <2>1, <2>9
    <3>2. \A i \in 1..n : env.runtimes[i].path # "new" BY <2>1, <2>3, <2>5
    <3> QED BY <2>4, <2>6, <2>9, <3>1, <3>2 DEF Paths
  <2>11. env.need.recommended \in Nat BY <2>4, NeedIsKnown
  <2> QED BY <2>2, <2>6, <2>8, <2>10, <2>11 DEF Machine
<1>4. Turn(boot, env)
  <2>1. boot = [does |-> "off", rec |-> Rules!Java!createStartRecovery(Rules!Java!None, 0)]
    BY DEF Rules!RulesInit, Rules!NoBoot
  <2>2. PICK rec : rec = Rules!Java!createStartRecovery(Rules!Java!None, 0) OBVIOUS
  <2>3. rec = [everRunning |-> FALSE, javaError |-> FALSE, noguiError |-> FALSE,
               stripAttempted |-> FALSE, downloadOffered |-> FALSE, attempted |-> <<>>,
               didFallback |-> FALSE, executable |-> Rules!Java!None]
    BY <2>2 DEF Rules!Java!createStartRecovery
  <2>4. Rules!Java!None \in Paths(env) /\ Rules!Java!None # "new" BY <1>3 DEF Machine, Paths
  <2>5. rec \in Recoveries(env) /\ rec.attempted = <<>> /\ rec.executable # "new" /\ ~rec.downloadOffered
    BY <2>3, <2>4 DEF Recoveries
  <2>6. OfOwn(rec) = <<>> BY <2>5 DEF OfOwn
  <2>7. TriedInTurn(<<>>, env) /\ <<>> \in Seq(Nat) BY DEF TriedInTurn
  <2>8. Cycle(rec, env) BY <2>5, <2>6, <2>7 DEF Cycle
  <2>9. boot.does # "download" /\ boot.rec = rec BY <2>1, <2>2
  <2> QED BY <2>8, <2>9 DEF Turn
<1> QED BY <1>1, <1>3, <1>4 DEF RecoveryInv

LEMMA RecoverySteps ==
    ASSUME RecoveryInv, [Rules!RulesNext]_rulesVars PROVE RecoveryInv'
<1> USE DEF RecoveryInv
<1>1. ASSUME Rules!Boot PROVE RecoveryInv'
  <2>1. UNCHANGED <<server, env>> /\ server.pin = Rules!Java!None BY <1>1 DEF Rules!Boot
  <2>2. PICK was, line :
            /\ was = IF boot.does = "off" THEN Rules!Java!createResolvedStartRecovery(server, env)
                     ELSE boot.rec
            /\ boot' = Rules!Java!recoverFromBootCrash(
                           Rules!Java!noteRecoveryOutput(was, server, line), server, env)
    BY <1>1 DEF Rules!Boot
  <2>3. Cycle(was, env) BY <2>1, <2>2, FreshCycle DEF Turn
  <2>4. PICK rec : rec = Rules!Java!noteRecoveryOutput(was, server, line) OBVIOUS
  <2>5. Cycle(rec, env) BY <2>3, <2>4, NotedCycle
  <2>6. Turn(boot', env) BY <2>1, <2>2, <2>4, <2>5, CrashedCycle
  <2>7. PICK e, b : e = env /\ b = boot' OBVIOUS
  <2>8. env' = e /\ Turn(b, e) /\ Machine(e) BY <2>1, <2>6, <2>7
  <2> QED BY <2>1, <2>7, <2>8
<1>2. ASSUME Rules!Waited PROVE RecoveryInv'
  <2>1. UNCHANGED env /\ server.pin = Rules!Java!None BY <1>2 DEF Rules!Waited
  <2>2. server' \in [pin : {Rules!Java!None}, nogui : BOOLEAN] BY <1>2 DEF Rules!Waited
  <2>3. boot'.does = "retry" /\ Cycle(boot'.rec, env)
    <3>1. CASE boot' = [does |-> "retry", rec |-> Rules!Java!FlagsSaved(boot.rec, server, env)]
      <4>1. Cycle(Rules!Java!FlagsSaved(boot.rec, server, env), env) BY <2>1, SavedCycle DEF Turn
      <4> QED BY <3>1, <4>1
    <3>2. CASE /\ boot.does = "download"
               /\ boot' = [does |-> "retry",
                           rec |-> Rules!Java!Downloaded(boot.rec, [path |-> "new",
                                                              major |-> env.need.recommended])]
      <4>1. Cycle(Rules!Java!Downloaded(boot.rec, [path |-> "new",
                                              major |-> env.need.recommended]), env)
        BY <3>2, DownloadedCycle DEF Turn
      <4> QED BY <3>2, <4>1
    <3> QED BY <1>2, <3>1, <3>2 DEF Rules!Waited
  <2>4. PICK e, b : e = env /\ b = boot' OBVIOUS
  <2>5. env' = e /\ Turn(b, e) /\ Machine(e) BY <2>1, <2>3, <2>4 DEF Turn
  <2> QED BY <2>2, <2>4, <2>5
<1>3. ASSUME UNCHANGED <<server, env, boot>> PROVE RecoveryInv'
  <2>1. PICK e, b : e = env /\ b = boot OBVIOUS
  <2>2. env' = e /\ boot' = b /\ Turn(b, e) /\ Machine(e) BY <1>3, <2>1
  <2> QED BY <1>3, <2>2
<1> QED BY <1>1, <1>2, <1>3 DEF Rules!RulesNext, rulesVars, Rules!bootVars

LEMMA TurnKeepsItsWord == RecoveryInv => Rules!FallbackTriesEachOnce
<1> SUFFICES ASSUME RecoveryInv PROVE Rules!FallbackTriesEachOnce
  OBVIOUS
<1> DEFINE own == IF boot.rec.executable = "new" THEN Rules!Java!Front(boot.rec.attempted)
                  ELSE boot.rec.attempted
<1>1. own = OfOwn(boot.rec) BY DEF OfOwn
<1> HIDE DEF own
<1>3. Rules!InstalledMajors = MajorsOf(env)
  BY DEF Rules!InstalledMajors, MajorsOf, Rules!Java!Majors
<1>4. \A m : Rules!Fits(m) <=> IsFit(m, env) BY DEF Rules!Fits, IsFit
<1>5. TriedInTurn(own, env)
      /\ (boot.does = "download" => MajorsOf(env) \subseteq Rules!Java!ToSet(own))
  BY <1>1 DEF RecoveryInv, Turn, Cycle
<1>6. /\ \A i, j \in DOMAIN own : own[i] = own[j] => i = j
      /\ \A i \in DOMAIN own : i > 1 /\ ~Rules!Fits(own[i]) =>
             \A m \in Rules!InstalledMajors : Rules!Fits(m) => \E j \in 1..(i - 1) : own[j] = m
      /\ boot.does = "download" => Rules!InstalledMajors \subseteq Rules!Java!ToSet(own)
  BY <1>3, <1>4, <1>5 DEF TriedInTurn
<1> QED BY <1>6, Zenon DEF own, Rules!FallbackTriesEachOnce

\* A cycle of failed boots tries no installed Java twice, nor one that is too old while
\* one that fits is left, and offers a download only when all failed, for any set of
\* Javas (java-resolution.ts, server-start-recovery.ts).
THEOREM WindowFallbackTriesEachOnce == Spec => []FallbackTriesEachOnce
<1>1. Init => RecoveryInv BY RecoveryStarts DEF Init
<1>2. RecoveryInv /\ [Next]_vars => RecoveryInv' BY WindowStep, RecoverySteps
<1>3. RecoveryInv => FallbackTriesEachOnce BY TurnKeepsItsWord DEF FallbackTriesEachOnce
<1> QED BY <1>1, <1>2, <1>3, PTL DEF Spec
================================================================================
