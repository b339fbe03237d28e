------------------------ MODULE RuntimeReleasesProofs ------------------------
(***************************************************************************)
(* The release pointer for any set of releases, updaters, connections and  *)
(* collectors.  The manifest and the copy of it a setup command planned    *)
(* from are both `Sound'; what an updater carries from one step to a later *)
(* one is approved.  That is inductive although manifests are replaced     *)
(* between the steps.                                                      *)
(***************************************************************************)
EXTENDS RuntimeReleases, TLAPS

Sound(m, ad, ap) ==
    /\ m.fallback # m.desired
    /\ m.desired \in ad
    /\ m.fallback \in ad \cup {None}
    /\ m.staged # None => MajorOf[m.staged] \in ap
    /\ m.approvedMajor \in ap \cup {0}

AdoptedInv == \A v \in adopted : MajorOf[v] \in approvals

UpdaterInv ==
    \A u \in Updaters : updater[u].pc # "idle" =>
      /\ updater[u].target \in Versions
      /\ MajorOf[updater[u].target] \in approvals

SetupInv ==
    setup.pc # "idle" => /\ setup.existing \in Manifest
                         /\ Sound(setup.existing, adopted, approvals)
                         /\ setup.version \in Versions
                         /\ MajorOf[setup.version] \in approvals

Inv == /\ TypeOK
       /\ Sound(manifest, adopted, approvals)
       /\ AdoptedInv
       /\ UpdaterInv
       /\ SetupInv

-----------------------------------------------------------------------------
(* Facts about manifests. *)

LEMMA MajorFacts == \A v \in Versions : MajorOf[v] \in Majors /\ MajorOf[v] # 0
BY ConstantsAssumption DEF Majors

LEMMA SoundMonotone ==
  ASSUME NEW m, NEW ad, NEW ap, NEW ad2, NEW ap2,
         ad \subseteq ad2, ap \subseteq ap2, Sound(m, ad, ap)
  PROVE  Sound(m, ad2, ap2)
BY DEF Sound

\* What selectDesiredRuntime makes of a manifest.
LEMMA SelectDesiredFacts ==
  ASSUME NEW m \in Manifest, NEW d \in Versions, NEW f \in Versions
  PROVE  LET n == SelectDesired(m, d, f) IN
         /\ n.desired = d
         /\ n.fallback = IF f = d THEN m.fallback ELSE f
         /\ n.staged = None
         /\ n.approvedMajor = m.approvedMajor
         /\ n.autoUpdate = m.autoUpdate
         /\ n.generation = m.generation + 1
         /\ n.generation <= MaxGeneration => n \in Manifest
<1> DEFINE n == SelectDesired(m, d, f)
<1>1. m = [desired |-> m.desired, fallback |-> m.fallback, staged |-> m.staged,
           autoUpdate |-> m.autoUpdate, generation |-> m.generation,
           approvedMajor |-> m.approvedMajor]
  BY DEF Manifest
<1>2. n = [desired |-> d, fallback |-> IF f = d THEN m.fallback ELSE f,
           staged |-> None, autoUpdate |-> m.autoUpdate,
           generation |-> m.generation + 1, approvedMajor |-> m.approvedMajor]
  <2> DEFINE g == IF f = d THEN m.fallback ELSE f
             n1 == [m EXCEPT !.desired = d]
             n2 == [n1 EXCEPT !.fallback = g]
             n3 == [n2 EXCEPT !.staged = None]
             n4 == [n3 EXCEPT !.generation = m.generation + 1]
  <2>1. n = n4
    BY <1>1 DEF SelectDesired
  <2> QED BY <1>1, <2>1
<1>3. /\ m.fallback \in Maybe /\ f \in Maybe /\ None \in Maybe
      /\ m.autoUpdate \in BOOLEAN
      /\ m.generation \in 0..MaxGeneration
      /\ m.approvedMajor \in Majors \cup {0}
  BY DEF Manifest, Maybe
<1>4. ASSUME m.generation + 1 <= MaxGeneration
      PROVE  m.generation + 1 \in 0..MaxGeneration
  BY <1>3, <1>4, ConstantsAssumption
<1>5. n.generation <= MaxGeneration => n \in Manifest
  BY <1>2, <1>3, <1>4 DEF Manifest
<1> QED BY <1>2, <1>5

LEMMA SelectDesiredSound ==
  ASSUME NEW m \in Manifest, NEW d \in Versions, NEW ad, NEW ap,
         Sound(m, ad, ap),
         SelectDesired(m, d, m.desired).generation <= MaxGeneration
  PROVE  LET n == SelectDesired(m, d, m.desired) IN
         n \in Manifest /\ n.desired = d /\ Sound(n, ad \cup {d}, ap)
<1>1. m.desired \in Versions
  BY DEF Manifest
<1> DEFINE n == SelectDesired(m, d, m.desired)
<1>2. /\ n.desired = d
      /\ n.fallback = IF m.desired = d THEN m.fallback ELSE m.desired
      /\ n.staged = None
      /\ n.approvedMajor = m.approvedMajor
      /\ n \in Manifest
  BY <1>1, SelectDesiredFacts
<1> QED BY <1>2 DEF Sound

LEMMA AutoUpdateSound ==
  ASSUME NEW m \in Manifest, NEW b \in BOOLEAN, NEW ad, NEW ap, Sound(m, ad, ap)
  PROVE  LET n == [m EXCEPT !.autoUpdate = b] IN
         n \in Manifest /\ n.desired = m.desired /\ Sound(n, ad, ap)
BY DEF Manifest, Sound

LEMMA StagedSound ==
  ASSUME NEW m \in Manifest, NEW v \in Versions, NEW ad, NEW ap, Sound(m, ad, ap),
         MajorOf[v] \in ap
  PROVE  LET n == [m EXCEPT !.staged = v] IN
         n \in Manifest /\ n.desired = m.desired /\ Sound(n, ad, ap)
BY DEF Manifest, Sound, Maybe

LEMMA ApprovedSound ==
  ASSUME NEW m \in Manifest, NEW v \in Versions, NEW ad, NEW ap, Sound(m, ad, ap),
         MajorOf[v] \in ap
  PROVE  LET n == [m EXCEPT !.approvedMajor = MajorOf[v]] IN
         n \in Manifest /\ n.desired = m.desired /\ Sound(n, ad, ap)
BY MajorFacts DEF Manifest, Sound

-----------------------------------------------------------------------------
(* Initial states, and what each part needs of a step. *)

LEMMA InitInv == Init => Inv
<1> SUFFICES ASSUME Init PROVE Inv
  OBVIOUS
<1>1. PICK d \in Versions, f \in Maybe, a \in BOOLEAN :
        /\ f # d
        /\ manifest = [desired |-> d, fallback |-> f, staged |-> None,
                       autoUpdate |-> a, generation |-> 0, approvedMajor |-> 0]
  BY DEF Init
<1>2. manifest \in Manifest
  BY <1>1, ConstantsAssumption DEF Manifest, Maybe
<1>3. adopted = {d, f} \ {None} /\ adopted \subseteq Versions
  BY <1>1 DEF Init, Retained, Maybe
<1>4. Sound(manifest, adopted, approvals)
  BY <1>1, <1>3, ConstantsAssumption DEF Sound
<1>5. AdoptedInv /\ approvals \subseteq Majors
  BY <1>3 DEF Init, AdoptedInv, Majors
<1>6. UpdaterInv /\ updater \in [Updaters -> Updater]
  BY DEF Init, UpdaterInv, IdleUpdater, Updater, Maybe
<1>7. SetupInv /\ setup \in Setup
  BY DEF Init, SetupInv, IdleSetup, Setup, Maybe
<1>8. installed \subseteq Versions /\ aged \subseteq installed
  BY DEF Init
<1>9. lease \in [Supervisors -> Lease]
  BY <1>8 DEF Init, Lease, Closed, Maybe
<1>10. gc \in [Collectors -> Collector]
  BY DEF Init, Collector, IdleCollector
<1> QED
  BY <1>2, <1>3, <1>4, <1>5, <1>6, <1>7, <1>8, <1>9, <1>10 DEF Inv, TypeOK, Init

\* A step that replaces neither the manifest nor the history.
LEMMA SetupFrame ==
  ASSUME SetupInv, setup' = setup, adopted \subseteq adopted', approvals \subseteq approvals'
  PROVE  SetupInv'
BY SoundMonotone DEF SetupInv

LEMMA QuietStep ==
  ASSUME Inv, TypeOK', UNCHANGED <<manifest, updater, setup, history>>
  PROVE  Inv'
BY DEF Inv, AdoptedInv, UpdaterInv, SetupInv, Sound, history

\* Publishing a sound manifest.
LEMMA PublishStep ==
  ASSUME Inv, NEW n \in Manifest, Sound(n, adopted \cup {n.desired}, approvals),
         MajorOf[n.desired] \in approvals, Publish(n)
  PROVE  /\ manifest' \in Manifest
         /\ Sound(manifest, adopted, approvals)'
         /\ AdoptedInv'
         /\ adopted \subseteq adopted' /\ adopted' \subseteq Versions
         /\ approvals' = approvals
BY DEF Inv, TypeOK, Publish, AdoptedInv, Manifest

\* An updater that goes on keeps its approved target.
LEMMA UpdaterStep ==
  ASSUME Inv, NEW u \in Updaters, NEW r \in Updater,
         updater' = [updater EXCEPT ![u] = r],
         r.pc # "idle" => r.target \in Versions /\ MajorOf[r.target] \in approvals',
         approvals \subseteq approvals'
  PROVE  UpdaterInv' /\ updater' \in [Updaters -> Updater]
BY DEF Inv, TypeOK, UpdaterInv

LEMMA IdleUpdaterFacts == IdleUpdater \in Updater /\ IdleUpdater.pc = "idle"
BY DEF IdleUpdater, Updater, Maybe

LEMMA UpdaterMoves ==
  ASSUME Inv, NEW u \in Updaters, updater[u].pc # "idle",
         NEW q \in {"lock", "download", "stage", "activate"},
         updater' = [updater EXCEPT ![u].pc = q], approvals \subseteq approvals'
  PROVE  UpdaterInv' /\ updater' \in [Updaters -> Updater]
<1> DEFINE r == [updater[u] EXCEPT !.pc = q]
<1>1. updater[u] \in Updater
  BY DEF Inv, TypeOK
<1>2. r \in Updater /\ r.target = updater[u].target
  BY <1>1 DEF Updater
<1>3. r.target \in Versions /\ MajorOf[r.target] \in approvals'
  BY <1>2 DEF Inv, UpdaterInv
<1>4. updater' = [updater EXCEPT ![u] = r]
  OBVIOUS
<1> QED BY <1>2, <1>3, <1>4, UpdaterStep

LEMMA FinishFacts ==
  ASSUME Inv, NEW u \in Updaters, Finish(u), approvals \subseteq approvals'
  PROVE  /\ UpdaterInv' /\ updater' \in [Updaters -> Updater]
         /\ worker' \in Updaters \cup {None}
<1>1. worker' \in Updaters \cup {None}
  BY DEF Inv, TypeOK, Finish
<1> QED BY <1>1, UpdaterStep, IdleUpdaterFacts DEF Finish

-----------------------------------------------------------------------------
(* One lemma per actor: its steps preserve the invariant. *)

LEMMA UpdateStepInv ==
  ASSUME Inv, NEW u \in Updaters, UpdateStep(u)
  PROVE  Inv'
<1> USE DEF UpdaterOnly, history
<1>1. ASSUME NEW t \in Versions, NEW manual \in BOOLEAN, NEW approved \in BOOLEAN,
             Begin(u, t, manual, approved)
      PROVE  Inv'
  <2> DEFINE r == [pc |-> IF MajorUpgrade(t, manifest.desired) THEN "approve" ELSE "lock",
                   target |-> t, initial |-> manifest.desired, manual |-> manual]
  <2>1. /\ manifest.desired \in Versions /\ MajorOf[manifest.desired] \in approvals
        /\ manifest.approvedMajor \in approvals \cup {0}
        /\ manifest.staged # None => MajorOf[manifest.staged] \in approvals
    BY DEF Inv, TypeOK, Manifest, Sound, AdoptedInv
  <2>2. approvals \subseteq approvals' /\ approvals' \subseteq Majors
    BY <1>1, MajorFacts DEF Begin, Inv, TypeOK
  <2>3. MajorOf[t] \in approvals'
    <3>1. CASE MajorUpgrade(t, manifest.desired) /\ approved
      BY <1>1, <3>1 DEF Begin
    <3>2. CASE MajorUpgrade(t, manifest.desired) /\ ~approved
      BY <1>1, <2>1, <2>2, <3>2, MajorFacts DEF Begin
    <3>3. CASE ~MajorUpgrade(t, manifest.desired) /\ manifest.staged = t
      BY <2>1, <2>2, <3>3, ConstantsAssumption
    <3>4. CASE ~MajorUpgrade(t, manifest.desired) /\ Newer(t, manifest.desired)
      <4> DEFINE d == manifest.desired
      <4>1. MajorOf[t] \in Nat /\ MajorOf[d] \in Nat
        BY <2>1, ConstantsAssumption
      <4>2. MajorOf[t] >= MajorOf[d]
        BY <2>1, <3>4, ConstantsAssumption DEF Newer
      <4>3. ~(MajorOf[t] > MajorOf[d])
        BY <3>4 DEF MajorUpgrade
      <4>4. MajorOf[t] = MajorOf[d]
        BY <4>1, <4>2, <4>3
      <4> QED BY <4>4, <2>1, <2>2
    <3> QED BY <1>1, <3>1, <3>2, <3>3, <3>4 DEF Begin
  <2>4. r \in Updater
    BY <2>1 DEF Updater, Maybe
  <2>5. updater' = [updater EXCEPT ![u] = r]
    BY <1>1 DEF Begin
  <2>6. UpdaterInv' /\ updater' \in [Updaters -> Updater]
    BY <2>2, <2>3, <2>4, <2>5, UpdaterStep
  <2>7. SetupInv' /\ AdoptedInv' /\ Sound(manifest, adopted, approvals)'
    BY <1>1, <2>2, SetupFrame, SoundMonotone DEF Begin, Inv, AdoptedInv
  <2>8. TypeOK'
    BY <1>1, <2>2, <2>6 DEF Begin, Inv, TypeOK
  <2> QED BY <2>6, <2>7, <2>8 DEF Inv
<1>2. CASE Approve(u)
  <2>1. UpdaterInv' /\ updater' \in [Updaters -> Updater]
    BY <1>2, UpdaterMoves DEF Approve
  <2>2. updater[u].target \in Versions /\ MajorOf[updater[u].target] \in approvals
    BY <1>2 DEF Approve, Inv, UpdaterInv
  <2>3. /\ manifest' \in Manifest
        /\ Sound(manifest', adopted, approvals)
    BY <1>2, <2>2, ApprovedSound DEF Approve, Inv, TypeOK
  <2>4. SetupInv' /\ AdoptedInv'
    BY <1>2, SetupFrame DEF Approve, Inv, AdoptedInv
  <2> QED BY <1>2, <2>1, <2>3, <2>4 DEF Approve, Inv, TypeOK
<1>3. CASE Lock(u)
  <2>1. UpdaterInv' /\ updater' \in [Updaters -> Updater] /\ worker' \in Updaters \cup {None}
    BY <1>3, UpdaterMoves, FinishFacts DEF Lock
  <2>2. SetupInv' /\ AdoptedInv' /\ Sound(manifest, adopted, approvals)'
    BY <1>3, SetupFrame DEF Lock, Inv, AdoptedInv
  <2> QED BY <1>3, <2>1, <2>2 DEF Lock, Inv, TypeOK
<1>4. CASE LockTimesOut(u)
  <2>1. UpdaterInv' /\ updater' \in [Updaters -> Updater]
    BY <1>4, UpdaterStep, IdleUpdaterFacts DEF LockTimesOut
  <2>2. SetupInv' /\ AdoptedInv' /\ Sound(manifest, adopted, approvals)'
    BY <1>4, SetupFrame DEF LockTimesOut, Inv, AdoptedInv
  <2> QED BY <1>4, <2>1, <2>2 DEF LockTimesOut, Inv, TypeOK
<1>5. CASE Download(u)
  <2>1. UpdaterInv' /\ updater' \in [Updaters -> Updater]
    BY <1>5, UpdaterMoves DEF Download
  <2>2. SetupInv' /\ AdoptedInv' /\ Sound(manifest, adopted, approvals)'
    BY <1>5, SetupFrame DEF Download, Inv, AdoptedInv
  <2>3. updater[u].target \in Versions
    BY <1>5 DEF Download, Inv, UpdaterInv
  <2> QED BY <1>5, <2>1, <2>2, <2>3 DEF Download, Inv, TypeOK
<1>6. CASE UpdateFails(u)
  <2>1. UpdaterInv' /\ updater' \in [Updaters -> Updater] /\ worker' \in Updaters \cup {None}
    BY <1>6, FinishFacts DEF UpdateFails
  <2>2. SetupInv' /\ AdoptedInv' /\ Sound(manifest, adopted, approvals)'
    BY <1>6, SetupFrame DEF UpdateFails, Inv, AdoptedInv
  <2> QED BY <1>6, <2>1, <2>2 DEF UpdateFails, Inv, TypeOK
<1>7. CASE Stage(u)
  <2>1. UpdaterInv' /\ updater' \in [Updaters -> Updater]
    BY <1>7, UpdaterMoves DEF Stage
  <2>2. updater[u].target \in Versions /\ MajorOf[updater[u].target] \in approvals
    BY <1>7 DEF Stage, Inv, UpdaterInv
  <2>3. manifest' \in Manifest /\ Sound(manifest', adopted, approvals)
    BY <1>7, <2>2, StagedSound DEF Stage, Inv, TypeOK
  <2>4. SetupInv' /\ AdoptedInv'
    BY <1>7, SetupFrame DEF Stage, Inv, AdoptedInv
  <2> QED BY <1>7, <2>1, <2>3, <2>4 DEF Stage, Inv, TypeOK
<1>8. CASE Activate(u)
  <2> DEFINE t == updater[u].target
             n == SelectDesired(manifest, t, manifest.desired)
  <2>1. t \in Versions /\ MajorOf[t] \in approvals
    BY <1>8 DEF Activate, Inv, UpdaterInv
  <2>2. CASE UNCHANGED <<manifest, history>>
    <3>1. UpdaterInv' /\ updater' \in [Updaters -> Updater] /\ worker' \in Updaters \cup {None}
      BY <1>8, <2>2, FinishFacts DEF Activate
    <3>2. SetupInv' /\ AdoptedInv' /\ Sound(manifest, adopted, approvals)'
      BY <1>8, <2>2, SetupFrame DEF Activate, Inv, AdoptedInv
    <3> QED BY <1>8, <2>2, <3>1, <3>2 DEF Activate, Inv, TypeOK
  <2>3. CASE MayChange /\ Publish(n)
    <3>1. manifest \in Manifest /\ n.generation = manifest.generation + 1
      BY <2>1, SelectDesiredFacts DEF Inv, TypeOK, Manifest
    <3>2. n.generation <= MaxGeneration
      BY <2>3, <3>1, ConstantsAssumption DEF MayChange, Manifest
    <3>3. n \in Manifest /\ n.desired = t /\ Sound(n, adopted \cup {t}, approvals)
      BY <2>1, <3>1, <3>2, SelectDesiredSound DEF Inv
    <3>4. /\ manifest' \in Manifest /\ Sound(manifest, adopted, approvals)' /\ AdoptedInv'
          /\ adopted \subseteq adopted' /\ adopted' \subseteq Versions
          /\ approvals' = approvals
      BY <2>1, <2>3, <3>3, PublishStep
    <3>5. UpdaterInv' /\ updater' \in [Updaters -> Updater] /\ worker' \in Updaters \cup {None}
      BY <1>8, <3>4, FinishFacts DEF Activate
    <3>6. SetupInv'
      BY <1>8, <3>4, SetupFrame DEF Activate, Inv
    <3> QED BY <1>8, <3>4, <3>5, <3>6 DEF Activate, Inv, TypeOK
  <2> QED BY <1>8, <2>2, <2>3 DEF Activate
<1> QED
  BY <1>1, <1>2, <1>3, <1>4, <1>5, <1>6, <1>7, <1>8 DEF UpdateStep

LEMMA RollbackInv == Inv /\ Rollback => Inv'
<1> SUFFICES ASSUME Inv, Rollback PROVE Inv'
  OBVIOUS
<1> DEFINE f == manifest.fallback
           n == SelectDesired(manifest, f, manifest.desired)
<1>1. manifest \in Manifest /\ manifest.desired \in Versions /\ f \in Versions
  BY DEF Inv, TypeOK, Manifest, Rollback, Maybe
<1>2. MajorOf[f] \in approvals
  BY DEF Inv, Sound, AdoptedInv, Rollback
<1>3. n.generation <= MaxGeneration
  <2>1. n.generation = manifest.generation + 1
    BY <1>1, SelectDesiredFacts
  <2> QED BY <1>1, <2>1, ConstantsAssumption DEF Rollback, MayChange, Manifest
<1>4. n \in Manifest /\ n.desired = f /\ Sound(n, adopted \cup {f}, approvals)
  BY <1>1, <1>3, SelectDesiredSound DEF Inv
<1>5. /\ manifest' \in Manifest /\ Sound(manifest, adopted, approvals)' /\ AdoptedInv'
      /\ adopted \subseteq adopted' /\ adopted' \subseteq Versions
      /\ approvals' = approvals
  BY <1>2, <1>4, PublishStep DEF Rollback
<1>6. SetupInv' /\ UpdaterInv'
  BY <1>5, SetupFrame DEF Rollback, PointerOnly, Inv, UpdaterInv
<1> QED BY <1>5, <1>6 DEF Rollback, PointerOnly, Inv, TypeOK

LEMMA ConfigureInv ==
  ASSUME Inv, NEW b \in BOOLEAN, Configure(b)
  PROVE  Inv'
<1>1. manifest' \in Manifest /\ Sound(manifest', adopted, approvals)
  BY AutoUpdateSound DEF Configure, Inv, TypeOK
<1>2. SetupInv' /\ UpdaterInv' /\ AdoptedInv'
  BY SetupFrame DEF Configure, PointerOnly, history, Inv, UpdaterInv, AdoptedInv
<1> QED BY <1>1, <1>2 DEF Configure, PointerOnly, history, Inv, TypeOK

LEMMA PlannedSound ==
  ASSUME Inv, setup.pc # "idle", setup.auto \in {"keep", "on", "off"},
         Planned.generation <= MaxGeneration
  PROVE  /\ Planned \in Manifest
         /\ Sound(Planned, adopted \cup {Planned.desired}, approvals)
         /\ MajorOf[Planned.desired] \in approvals
<1> DEFINE e == setup.existing
           v == setup.version
           m == IF e.desired = v THEN e ELSE SelectDesired(e, v, e.desired)
           b == IF setup.auto = "keep" THEN m.autoUpdate ELSE setup.auto = "on"
<1>1. e \in Manifest /\ Sound(e, adopted, approvals) /\ v \in Versions /\ MajorOf[v] \in approvals
  BY DEF Inv, SetupInv
<1>2. Planned = [m EXCEPT !.autoUpdate = b]
  BY DEF Planned
<1>3. CASE e.desired = v
  <2>1. m = e /\ b \in BOOLEAN
    BY <1>1, <1>3 DEF Manifest
  <2>2. Planned \in Manifest /\ Planned.desired = v /\ Sound(Planned, adopted, approvals)
    BY <1>1, <1>2, <1>3, <2>1, AutoUpdateSound
  <2> QED BY <1>1, <2>2 DEF Sound
<1>4. CASE e.desired # v
  <2>1. m = SelectDesired(e, v, e.desired) /\ e.desired \in Versions
    BY <1>1, <1>4 DEF Manifest
  <2>2. m.generation = e.generation + 1 /\ m.autoUpdate = e.autoUpdate
    BY <1>1, <2>1, SelectDesiredFacts
  <2> DEFINE n == SelectDesired(e, v, e.desired)
  <2>3. n.generation <= MaxGeneration
    <3>1. Planned.generation = n.generation
      BY <1>1, <1>2, <2>1 DEF SelectDesired, Manifest
    <3> QED BY <3>1
  <2>4. n \in Manifest /\ n.desired = v /\ Sound(n, adopted \cup {v}, approvals)
    BY <1>1, <2>3, SelectDesiredSound
  <2>5. b \in BOOLEAN
    BY <2>1, <2>4 DEF Manifest
  <2>6. Planned \in Manifest /\ Planned.desired = v
        /\ Sound(Planned, adopted \cup {v}, approvals)
    BY <1>2, <2>1, <2>4, <2>5, AutoUpdateSound
  <2> QED BY <1>1, <2>6
<1> QED BY <1>3, <1>4

LEMMA SetupStepInv ==
  ASSUME Inv, SetupStep
  PROVE  Inv'
<1> USE DEF SetupOnly, history
<1>1. ASSUME NEW v \in SetupVersions, NEW auto \in {"keep", "on", "off"}, SetupPlan(v, auto)
      PROVE  Inv'
  <2>1. v \in Versions /\ MajorOf[v] \in Majors /\ MajorOf[v] \in approvals'
    BY <1>1, MajorFacts, ConstantsAssumption DEF SetupPlan
  <2>2. setup' = [pc |-> "ensure", version |-> v, auto |-> auto,
                  existing |-> manifest, before |-> None]
    BY <1>1 DEF SetupPlan, IdleSetup
  <2>3. approvals \subseteq approvals' /\ approvals' \subseteq Majors /\ adopted' = adopted
    BY <1>1, <2>1 DEF SetupPlan, Inv, TypeOK
  <2>4. Sound(manifest, adopted, approvals)' /\ AdoptedInv' /\ UpdaterInv'
    BY <1>1, <2>3, SoundMonotone DEF SetupPlan, Inv, AdoptedInv, UpdaterInv
  <2>5. setup' \in Setup
    BY <2>1, <2>2 DEF Setup, Maybe, Inv, TypeOK
  <2>6. SetupInv'
    BY <1>1, <2>1, <2>2, <2>4 DEF SetupInv, SetupPlan, Inv, TypeOK
  <2>7. TypeOK'
    BY <1>1, <2>3, <2>5 DEF SetupPlan, Inv, TypeOK
  <2> QED BY <2>4, <2>6, <2>7 DEF Inv
<1>2. ASSUME NEW q \in {"before", "apply"}, NEW b \in Manifest \cup {None},
             setup.pc # "idle",
             setup' = [setup EXCEPT !.pc = q, !.before = b],
             UNCHANGED <<manifest, history, aged, worker, updater, lease, gc>>,
             installed \subseteq installed', installed' \subseteq Versions
      PROVE  Inv'
  <2>1. setup \in Setup
    BY DEF Inv, TypeOK
  <2>2. setup' \in Setup /\ setup'.existing = setup.existing /\ setup'.version = setup.version
    BY <1>2, <2>1 DEF Setup
  <2>3. SetupInv'
    BY <1>2, <2>2 DEF SetupInv, Inv
  <2>4. Sound(manifest, adopted, approvals)' /\ AdoptedInv' /\ UpdaterInv'
    BY <1>2 DEF Inv, AdoptedInv, UpdaterInv
  <2> QED BY <1>2, <2>2, <2>3, <2>4 DEF Inv, TypeOK
<1>3. CASE SetupEnsure
  <2>1. setup \in Setup /\ setup.version \in Versions
    BY <1>3 DEF SetupEnsure, Inv, TypeOK, SetupInv
  <2>2. setup' = [setup EXCEPT !.pc = "before", !.before = setup.before]
    BY <1>3, <2>1 DEF SetupEnsure, Setup
  <2>3. setup.before \in Manifest \cup {None}
    BY <2>1 DEF Setup
  <2> QED BY <1>2, <1>3, <2>1, <2>2, <2>3 DEF SetupEnsure, Inv, TypeOK
<1>4. CASE SetupBefore
  BY <1>2, <1>4 DEF SetupBefore, Inv, TypeOK
<1>5. IdleSetup \in Setup /\ IdleSetup.pc = "idle"
  BY DEF IdleSetup, Setup, Maybe
<1>6. CASE SetupApply
  <2>1. CASE UNCHANGED <<manifest, history>>
    BY <1>5, <1>6, <2>1 DEF SetupApply, Inv, TypeOK, AdoptedInv, UpdaterInv, SetupInv
  <2>2. CASE Planned.generation <= MaxGeneration /\ Publish(Planned)
    <3>1. setup.auto \in {"keep", "on", "off"}
      BY DEF Inv, TypeOK, Setup
    <3>2. /\ manifest' \in Manifest /\ Sound(manifest, adopted, approvals)' /\ AdoptedInv'
          /\ adopted \subseteq adopted' /\ adopted' \subseteq Versions
          /\ approvals' = approvals
      BY <1>6, <2>2, <3>1, PlannedSound, PublishStep DEF SetupApply
    <3>3. UpdaterInv' /\ SetupInv'
      BY <1>5, <1>6, <3>2 DEF SetupApply, Inv, UpdaterInv, SetupInv
    <3>4. TypeOK'
      BY <1>5, <1>6, <3>2 DEF SetupApply, Inv, TypeOK
    <3> QED BY <3>2, <3>3, <3>4 DEF Inv
  <2> QED BY <1>6, <2>1, <2>2 DEF SetupApply
<1>7. CASE SetupFails
  BY <1>5, <1>7 DEF SetupFails, Inv, TypeOK, AdoptedInv, UpdaterInv, SetupInv
<1> QED BY <1>1, <1>3, <1>4, <1>6, <1>7 DEF SetupStep

\* Connections and collectors leave the manifest and the history alone.
LEMMA LeaseInv ==
  ASSUME Inv, NEW s \in Supervisors, Select(s) \/ Pin(s) \/ Unpin(s)
  PROVE  Inv'
<1> USE DEF LeaseOnly, history
<1>1. manifest.desired \in Maybe /\ Closed \in Lease
  BY DEF Inv, TypeOK, Manifest, Maybe, Closed, Lease
<1>2. lease \in [Supervisors -> Lease]
  BY DEF Inv, TypeOK
<1>3. lease' \in [Supervisors -> Lease]
  <2>1. CASE Select(s)
    BY <1>1, <1>2, <2>1 DEF Select, Lease
  <2>2. CASE Pin(s)
    <3>1. [lease[s] EXCEPT !.pc = "pinned"] \in Lease
      BY <1>2 DEF Lease
    <3> QED BY <1>2, <2>2, <3>1 DEF Pin
  <2>3. CASE Unpin(s)
    BY <1>1, <1>2, <2>3 DEF Unpin
  <2> QED BY <2>1, <2>2, <2>3
<1>4. UNCHANGED <<manifest, installed, aged, worker, updater, setup, gc, history>>
  BY DEF Select, Pin, Unpin
<1> QED BY <1>3, <1>4, QuietStep DEF Inv, TypeOK

LEMMA CollectorInv ==
  ASSUME Inv, NEW c \in Collectors,
         GcManifest(c) \/ GcLeases(c) \/ GcRemove(c) \/ GcEnd(c)
  PROVE  Inv'
<1> USE DEF CollectorOnly, history
<1>1. gc \in [Collectors -> Collector] /\ gc[c] \in Collector
  BY DEF Inv, TypeOK
<1>2. Retained(manifest) \subseteq Versions
  BY DEF Inv, TypeOK, Manifest, Maybe, Retained
<1>3. /\ gc' \in [Collectors -> Collector]
      /\ installed' \subseteq Versions /\ aged' \subseteq installed'
  <2>1. CASE GcManifest(c)
    BY <1>1, <1>2, <2>1 DEF GcManifest, Collector, Inv, TypeOK
  <2>2. CASE GcLeases(c)
    <3> DEFINE r == [gc[c] EXCEPT !.pc = "removing",
                                  !.todo = installed \ (gc[c].keep \cup Pinned)]
    <3>1. r \in Collector
      BY <1>1 DEF Collector, Inv, TypeOK
    <3>2. gc' = [gc EXCEPT ![c] = r]
      BY <2>2 DEF GcLeases
    <3> QED BY <1>1, <2>2, <3>1, <3>2 DEF GcLeases, Inv, TypeOK
  <2>3. CASE GcRemove(c)
    <3>1. PICK v \in gc[c].todo :
            /\ gc' = [gc EXCEPT ![c].todo = @ \ {v}]
            /\ installed' = IF v \in aged THEN installed \ {v} ELSE installed
            /\ aged' = aged \ {v}
      BY <2>3 DEF GcRemove
    <3>2. [gc[c] EXCEPT !.todo = @ \ {v}] \in Collector
      BY <1>1 DEF Collector
    <3> QED BY <1>1, <3>1, <3>2 DEF Inv, TypeOK
  <2>4. CASE GcEnd(c)
    BY <1>1, <2>4 DEF GcEnd, IdleCollector, Collector, Inv, TypeOK
  <2> QED BY <2>1, <2>2, <2>3, <2>4
<1>4. UNCHANGED <<manifest, worker, updater, setup, lease, history>>
  BY DEF GcManifest, GcLeases, GcRemove, GcEnd
<1> QED BY <1>3, <1>4, QuietStep DEF Inv, TypeOK

LEMMA AgeInv == Inv /\ Age => Inv'
BY QuietStep DEF Age, Inv, TypeOK, history

-----------------------------------------------------------------------------
LEMMA InvStep == Inv /\ [Next]_vars => Inv'
<1> SUFFICES ASSUME Inv, [Next]_vars PROVE Inv'
  OBVIOUS
<1>1. CASE Next
  BY <1>1, UpdateStepInv, RollbackInv, ConfigureInv, SetupStepInv, LeaseInv,
     CollectorInv, AgeInv DEF Next
<1>2. CASE UNCHANGED vars
  BY <1>2, QuietStep DEF vars, history, Inv, TypeOK
<1> QED BY <1>1, <1>2

LEMMA Invariant == Spec => []Inv
<1>1. Inv /\ [Next /\ Watch]_vars => Inv'
  BY InvStep
<1> QED BY <1>1, InitInv, PTL DEF Spec

\* The manifest, the releases, the leases and the actors keep their types.
THEOREM TypeCorrect == Spec => []TypeOK
<1>1. Inv => TypeOK
  BY DEF Inv
<1> QED BY <1>1, Invariant, PTL

\* selectDesiredRuntime never leaves a manifest whose rollback would be a no-op,
\* whichever of updater, rollback and setup publishes it and whenever it was computed.
THEOREM FallbackDiffersTheorem == Spec => []FallbackDiffers
<1>1. Inv => FallbackDiffers
  BY DEF Inv, Sound, FallbackDiffers
<1> QED BY <1>1, Invariant, PTL

\* A release that was only staged never becomes the fallback.
THEOREM FallbackWasDesiredTheorem == Spec => []FallbackWasDesired
<1>1. Inv => FallbackWasDesired
  BY DEF Inv, Sound, FallbackWasDesired
<1> QED BY <1>1, Invariant, PTL

\* No update crosses to a major version that was never approved nor installed, for any
\* interleaving of updaters, rollbacks, setups and configuration changes.
THEOREM MajorTheorem == Spec => MajorNeedsApproval
<1>1. Inv /\ [Next /\ Watch]_vars =>
        [\A u \in Updaters :
           Adopts(u) /\ MajorUpgrade(updater[u].target, manifest.desired)
             => MajorOf[updater[u].target] \in approvals]_vars
  BY DEF Inv, UpdaterInv, Adopts
<1> QED BY <1>1, Invariant, PTL DEF Spec, MajorNeedsApproval

-----------------------------------------------------------------------------
(***************************************************************************)
(* What must stay on disk does, unless a collection and a selection of the *)
(* release overlapped.  An overlap is seen while it lasts: a release that  *)
(* is wanted and threatened is raced at once, so that whatever a collector *)
(* removes was neither wanted nor leased, or is raced.                     *)
(***************************************************************************)
CollectorKeeps(c) ==
    /\ gc[c].pc # "idle" => gc[c].keep = read[c]
    /\ gc[c].todo # {} => gc[c].pc # "idle"
    /\ \A v \in gc[c].todo : /\ v \notin read[c]
                             /\ v \in Pinned \cap aged => v \in raced

RaceInv ==
    /\ Wanted \cup Pinned \subseteq installed \cup raced
    /\ Wanted \cap Threatened \subseteq raced
    /\ \A c \in Collectors : CollectorKeeps(c)

Collecting(c) == GcManifest(c) \/ GcLeases(c) \/ GcRemove(c) \/ GcEnd(c)

LEMMA InitRace == Init => RaceInv
<1> SUFFICES ASSUME Init PROVE RaceInv
  OBVIOUS
<1>1. Wanted = Retained(manifest) /\ Retained(manifest) \subseteq installed
  BY DEF Init, Wanted, IdleUpdater, IdleSetup, Closed
<1>2. Pinned \subseteq installed
  BY DEF Init, Pinned, Closed
<1>3. Threatened = {} /\ \A c \in Collectors : CollectorKeeps(c)
  BY DEF Init, Threatened, CollectorKeeps, IdleCollector
<1> QED BY <1>1, <1>2, <1>3 DEF RaceInv

\* What a step comes to want was wanted or leased before, or is on disk.
NothingNew == \A v \in Wanted' \cup Pinned' : v \in Wanted \cup Pinned \cup installed'

LEMMA RetainedWanted == Retained(manifest) \subseteq Wanted
BY DEF Wanted

LEMMA UpdateWants ==
  ASSUME Inv, NEW u \in Updaters, UpdateStep(u)
  PROVE  NothingNew /\ installed \subseteq installed' /\ UNCHANGED <<aged, lease, gc>>
<1>1. /\ updater \in [Updaters -> Updater] /\ manifest \in Manifest
  BY DEF Inv, TypeOK
<1>2. installed \subseteq installed' /\ UNCHANGED <<aged, lease, gc, setup>>
  BY DEF UpdateStep, Begin, Approve, Lock, LockTimesOut, Download, UpdateFails, Stage, Activate,
         UpdaterOnly
<1>3. /\ \A x \in Updaters : x # u => updater'[x] = updater[x]
      /\ updater'[u].pc = "activate" => updater'[u].target \in installed'
  <2>1. CASE Stage(u)
    BY <1>1, <1>2, <2>1 DEF Stage, Updater
  <2>2. CASE Activate(u) \/ UpdateFails(u) \/ LockTimesOut(u)
    BY <1>1, <2>2 DEF Activate, UpdateFails, LockTimesOut, Finish, IdleUpdater
  <2>3. CASE Lock(u)
    BY <1>1, <2>3 DEF Lock, Finish, IdleUpdater, Updater
  <2>4. CASE Approve(u) \/ Download(u)
    BY <1>1, <2>4 DEF Approve, Download, Updater
  <2>5. ASSUME NEW t \in Versions, NEW manual \in BOOLEAN, NEW approved \in BOOLEAN,
               Begin(u, t, manual, approved)
        PROVE  /\ \A x \in Updaters : x # u => updater'[x] = updater[x]
               /\ updater'[u].pc # "activate"
    BY <1>1, <2>5 DEF Begin
  <2> QED BY <2>1, <2>2, <2>3, <2>4, <2>5 DEF UpdateStep
<1>4. Retained(manifest') \subseteq Wanted
  <2>1. CASE Retained(manifest') = Retained(manifest)
    BY <2>1, RetainedWanted
  <2>2. CASE Approve(u) \/ Stage(u)
    BY <1>1, <2>2, RetainedWanted DEF Approve, Stage, Manifest, Retained
  <2>3. CASE Activate(u)
    <3>1. updater[u].target \in Wanted /\ updater[u].target \in Versions
      BY <2>3 DEF Activate, Wanted, Inv, UpdaterInv
    <3>2. CASE UNCHANGED manifest
      BY <3>2, RetainedWanted
    <3>3. CASE manifest' = SelectDesired(manifest, updater[u].target, manifest.desired)
      <4>1. manifest.desired \in Versions
        BY <1>1 DEF Manifest
      <4>2. /\ manifest'.desired = updater[u].target
            /\ manifest'.fallback \in {manifest.fallback, manifest.desired}
        BY <1>1, <3>1, <3>3, <4>1, SelectDesiredFacts
      <4> QED BY <3>1, <4>2, RetainedWanted DEF Retained
    <3> QED BY <2>3, <3>2, <3>3 DEF Activate, Publish
  <2> QED BY <2>1, <2>2, <2>3 DEF UpdateStep, Begin, Lock, LockTimesOut, Download, UpdateFails
<1>5. Pinned' = Pinned
  BY <1>2 DEF Pinned
<1> QED BY <1>2, <1>3, <1>4, <1>5 DEF NothingNew, Wanted

\* Rollback swaps the two releases of the pointer; configure leaves them.
LEMMA SwapWants ==
  ASSUME Inv, Rollback \/ \E b \in BOOLEAN : Configure(b)
  PROVE  /\ NothingNew /\ Retained(manifest') = Retained(manifest)
         /\ UNCHANGED <<installed, aged, updater, setup, lease, gc>>
<1>1. UNCHANGED <<installed, aged, updater, setup, lease, gc>>
  BY DEF Rollback, Configure, PointerOnly
<1>2. Retained(manifest') = Retained(manifest)
  <2>1. CASE Rollback
    <3>1. /\ manifest \in Manifest /\ manifest.desired \in Versions /\ manifest.fallback \in Versions
          /\ manifest.fallback # manifest.desired
      BY <2>1 DEF Inv, TypeOK, Manifest, Rollback, Maybe, Sound
    <3>2. manifest'.desired = manifest.fallback /\ manifest'.fallback = manifest.desired
      BY <2>1, <3>1, SelectDesiredFacts DEF Rollback, Publish
    <3> QED BY <3>2 DEF Retained
  <2>2. ASSUME NEW b \in BOOLEAN, Configure(b) PROVE Retained(manifest') = Retained(manifest)
    BY <2>2 DEF Configure, Inv, TypeOK, Manifest, Retained
  <2> QED BY <2>1, <2>2
<1> QED BY <1>1, <1>2 DEF NothingNew, Wanted, Pinned

LEMMA SetupWants ==
  ASSUME Inv, SetupStep
  PROVE  NothingNew /\ installed \subseteq installed' /\ UNCHANGED <<aged, lease, gc>>
<1>1. setup \in Setup /\ UNCHANGED <<aged, lease, gc, updater>>
  BY DEF Inv, TypeOK, SetupStep, SetupPlan, SetupEnsure, SetupBefore, SetupApply, SetupFails,
         SetupOnly
<1>2. installed \subseteq installed'
  BY DEF SetupStep, SetupPlan, SetupEnsure, SetupBefore, SetupApply, SetupFails
<1>3. Retained(manifest') \subseteq Wanted
  <2>1. CASE UNCHANGED manifest
    BY <2>1, RetainedWanted
  <2>2. CASE SetupApply /\ Planned.generation <= MaxGeneration /\ manifest' = Planned
    <3> DEFINE e == setup.existing
               v == setup.version
               m == IF e.desired = v THEN e ELSE SelectDesired(e, v, e.desired)
    <3>1. e \in Manifest /\ v \in Versions /\ v \in Wanted /\ Retained(e) \subseteq Wanted
      BY <2>2 DEF SetupApply, Inv, SetupInv, Wanted
    <3>2. m.desired = v /\ m.fallback \in {e.fallback, e.desired}
      <4>1. e.desired \in Versions
        BY <3>1 DEF Manifest
      <4>2. SelectDesired(e, v, e.desired).desired = v
            /\ SelectDesired(e, v, e.desired).fallback \in {e.fallback, e.desired}
        BY <3>1, <4>1, SelectDesiredFacts
      <4> QED BY <4>2
    <3>3. Planned.desired = m.desired /\ Planned.fallback = m.fallback
      <4>1. e = [desired |-> e.desired, fallback |-> e.fallback, staged |-> e.staged,
                 autoUpdate |-> e.autoUpdate, generation |-> e.generation,
                 approvedMajor |-> e.approvedMajor]
        BY <3>1 DEF Manifest
      <4> QED BY <4>1 DEF Planned, SelectDesired
    <3> QED BY <2>2, <3>1, <3>2, <3>3 DEF Retained
  <2> QED BY <2>1, <2>2 DEF SetupStep, SetupPlan, SetupEnsure, SetupBefore, SetupApply, SetupFails,
             Publish
<1>4. /\ setup'.pc # "idle" => Retained(setup'.existing) \subseteq Wanted
      /\ setup'.pc \in {"before", "apply"} => setup'.version \in Wanted \cup installed'
  <2>1. CASE SetupApply \/ SetupFails
    BY <2>1 DEF SetupApply, SetupFails, IdleSetup
  <2>2. CASE SetupEnsure
    <3>1. setup'.existing = setup.existing /\ setup'.version = setup.version /\ setup.pc = "ensure"
      BY <1>1, <2>2 DEF SetupEnsure, Setup
    <3> QED BY <2>2, <3>1 DEF SetupEnsure, Wanted
  <2>3. CASE SetupBefore
    <3>1. setup'.existing = setup.existing /\ setup'.version = setup.version /\ setup.pc = "before"
      BY <1>1, <2>3 DEF SetupBefore, Setup
    <3> QED BY <3>1 DEF Wanted
  <2>4. ASSUME NEW v \in SetupVersions, NEW a \in {"keep", "on", "off"}, SetupPlan(v, a)
        PROVE  setup'.pc = "ensure" /\ setup'.existing = manifest
    BY <2>4 DEF SetupPlan, IdleSetup
  <2> QED BY <2>1, <2>2, <2>3, <2>4, RetainedWanted DEF SetupStep
<1>5. Pinned' = Pinned
  BY <1>1 DEF Pinned
<1> QED BY <1>1, <1>2, <1>3, <1>4, <1>5 DEF NothingNew, Wanted

\* A lease is published of a release that was wanted since it was read.
LEMMA LeaseWants ==
  ASSUME Inv, NEW s \in Supervisors, Select(s) \/ Pin(s) \/ Unpin(s)
  PROVE  /\ NothingNew /\ Pinned' \subseteq Pinned \cup Wanted
         /\ UNCHANGED <<manifest, installed, aged, updater, setup, gc>>
<1>1. UNCHANGED <<manifest, installed, aged, updater, setup, gc>> /\ lease \in [Supervisors -> Lease]
  BY DEF Select, Pin, Unpin, LeaseOnly, Inv, TypeOK
<1>2. manifest.desired \in Wanted
  BY ConstantsAssumption, RetainedWanted DEF Retained, Inv, TypeOK, Manifest
<1>3. \A x \in Supervisors : lease'[x].pc = "selected" => lease'[x].root \in Wanted
  BY <1>1, <1>2 DEF Select, Pin, Unpin, Closed, Lease, Wanted
<1>4. Pinned' \subseteq Pinned \cup Wanted
  <2>1. CASE Pin(s)
    <3>1. /\ \A x \in Supervisors : x # s => lease'[x] = lease[x]
          /\ lease'[s].root = lease[s].root /\ lease[s].root \in Wanted
      BY <1>1, <2>1 DEF Pin, Lease, Wanted
    <3> QED BY <3>1 DEF Pinned
  <2>2. CASE Select(s) \/ Unpin(s)
    BY <1>1, <2>2 DEF Select, Unpin, Closed, Pinned
  <2> QED BY <2>1, <2>2
<1>5. Wanted' \subseteq Wanted
  BY <1>1, <1>3 DEF Wanted
<1> QED BY <1>1, <1>4, <1>5 DEF NothingNew

LEMMA CollectorFrame ==
  ASSUME NEW c \in Collectors, Collecting(c)
  PROVE  Wanted' = Wanted /\ Pinned' = Pinned /\ aged' \subseteq aged
<1>1. UNCHANGED <<manifest, updater, setup, lease>>
  BY DEF Collecting, GcManifest, GcLeases, GcRemove, GcEnd, CollectorOnly
<1>2. aged' \subseteq aged
  BY DEF Collecting, GcManifest, GcLeases, GcRemove, GcEnd
<1> QED BY <1>1, <1>2 DEF Wanted, Pinned

-----------------------------------------------------------------------------
\* What Watch does to a release: the race lasts while the release is threatened or
\* is not on disk.
LEMMA WatchFacts ==
  ASSUME Watch
  PROVE  /\ \A v \in raced : v \in Threatened' \/ v \notin installed' => v \in raced'
         /\ Wanted' \cap Threatened' \subseteq raced'
         /\ \A c \in Collectors :
              read'[c] = IF gc[c].pc = "idle" /\ gc'[c].pc # "idle"
                         THEN Retained(manifest) ELSE read[c]
BY DEF Watch

\* A step of anybody but a collector, and the ageing of a directory: collectors keep
\* what they hold, and a directory they are about to remove does not become old.
LEMMA OtherRace ==
  ASSUME RaceInv, Watch, NothingNew, gc' = gc, installed \subseteq installed',
         Pinned' \subseteq Pinned \cup Wanted,
         aged' \subseteq aged \/ \A c \in Collectors : gc[c].pc = "idle"
  PROVE  RaceInv'
<1>1. Wanted' \cup Pinned' \subseteq installed' \cup raced'
  BY WatchFacts DEF RaceInv, NothingNew
<1>2. ASSUME NEW c \in Collectors PROVE CollectorKeeps(c)'
  <2>1. CollectorKeeps(c) /\ read'[c] = read[c]
    BY WatchFacts DEF RaceInv
  <2>2. ASSUME NEW v \in gc[c].todo, v \in Pinned', v \in aged' PROVE v \in raced'
    <3>1. gc[c].pc # "idle" /\ v \notin read[c] /\ v \in aged
      BY <2>1, <2>2 DEF CollectorKeeps
    <3>2. v \in Threatened /\ v \in Threatened'
      BY <2>1, <2>2, <3>1 DEF Threatened
    <3>3. v \in raced
      BY <2>1, <2>2, <3>1, <3>2 DEF CollectorKeeps, RaceInv
    <3> QED BY <3>2, <3>3, WatchFacts
  <2> QED BY <2>1, <2>2 DEF CollectorKeeps
<1> QED BY <1>1, <1>2, WatchFacts DEF RaceInv

LEMMA CollectorRace ==
  ASSUME Inv, RaceInv, Watch, NEW c \in Collectors, Collecting(c)
  PROVE  RaceInv'
<1>1. Wanted' = Wanted /\ Pinned' = Pinned /\ aged' \subseteq aged
  BY CollectorFrame
<1>2. gc \in [Collectors -> Collector] /\ \A x \in Collectors : CollectorKeeps(x)
  BY DEF Inv, TypeOK, RaceInv
<1>3. \A v \in installed \ installed' : v \in gc[c].todo \cap aged
  BY DEF Collecting, GcManifest, GcLeases, GcRemove, GcEnd
<1>4. \A v \in gc[c].todo \cap aged : v \in Threatened
  BY <1>2 DEF CollectorKeeps, Threatened
<1>5. \A v \in Wanted \cup Pinned : v \in installed \ installed' => v \in raced
  BY <1>2, <1>3, <1>4 DEF RaceInv, CollectorKeeps
<1>6. Wanted' \cup Pinned' \subseteq installed' \cup raced'
  BY <1>1, <1>5, WatchFacts DEF RaceInv
<1>7. /\ \A x \in Collectors : x # c => gc'[x] = gc[x]
      /\ gc'[c].pc # "idle" => gc'[c].keep = read'[c]
      /\ gc'[c].todo # {} => gc'[c].pc # "idle"
      /\ \A v \in gc'[c].todo : v \notin read'[c] /\ (v \in gc[c].todo \/ v \notin Pinned)
  <2>1. CASE GcManifest(c)
    BY <1>2, <2>1, WatchFacts DEF GcManifest
  <2>2. CASE GcLeases(c)
    <3>1. /\ gc[c].pc = "manifest" /\ gc'[c].pc = "removing" /\ gc'[c].keep = gc[c].keep
          /\ gc'[c].todo = installed \ (gc[c].keep \cup Pinned)
          /\ \A x \in Collectors : x # c => gc'[x] = gc[x]
      BY <1>2, <2>2 DEF GcLeases, Collector
    <3> QED BY <1>2, <3>1, WatchFacts DEF CollectorKeeps
  <2>3. CASE GcRemove(c)
    <3>1. /\ gc[c].pc = "removing" /\ gc'[c].pc = "removing" /\ gc'[c].keep = gc[c].keep
          /\ gc'[c].todo \subseteq gc[c].todo
          /\ \A x \in Collectors : x # c => gc'[x] = gc[x]
      BY <1>2, <2>3 DEF GcRemove, Collector
    <3> QED BY <1>2, <3>1, WatchFacts DEF CollectorKeeps
  <2>4. CASE GcEnd(c)
    BY <1>2, <2>4 DEF GcEnd, IdleCollector
  <2> QED BY <2>1, <2>2, <2>3, <2>4 DEF Collecting
<1>8. ASSUME NEW x \in Collectors PROVE CollectorKeeps(x)'
  <2>1. /\ gc'[x].pc # "idle" => gc'[x].keep = read'[x]
        /\ gc'[x].todo # {} => gc'[x].pc # "idle"
        /\ \A v \in gc'[x].todo : v \notin read'[x] /\ (v \in gc[x].todo \/ v \notin Pinned)
    BY <1>2, <1>7, WatchFacts DEF CollectorKeeps
  <2>2. ASSUME NEW v \in gc'[x].todo, v \in Pinned', v \in aged' PROVE v \in raced'
    <3>1. v \in gc[x].todo /\ v \in aged /\ v \in Pinned
      BY <1>1, <2>1, <2>2
    <3>2. v \in raced
      BY <1>2, <3>1 DEF CollectorKeeps
    <3>3. v \in Threatened'
      BY <2>1, <2>2 DEF Threatened
    <3> QED BY <3>2, <3>3, WatchFacts
  <2> QED BY <2>1, <2>2 DEF CollectorKeeps
<1> QED BY <1>6, <1>8, WatchFacts DEF RaceInv

LEMMA RaceStep == Inv /\ RaceInv /\ [Next /\ Watch]_vars => RaceInv'
<1> SUFFICES ASSUME Inv, RaceInv, [Next /\ Watch]_vars PROVE RaceInv'
  OBVIOUS
<1>1. CASE UNCHANGED vars
  BY <1>1 DEF vars, RaceInv, CollectorKeeps, Wanted, Pinned, Threatened
<1>2. CASE Watch /\ Age
  <2>1. Wanted' = Wanted /\ Pinned' = Pinned
    BY <1>2 DEF Age, Wanted, Pinned
  <2> QED BY <1>2, <2>1, OtherRace DEF Age, NothingNew
<1>3. ASSUME NEW u \in Updaters, Watch, UpdateStep(u) PROVE RaceInv'
  BY <1>3, UpdateWants, OtherRace DEF Pinned
<1>4. CASE Watch /\ SetupStep
  BY <1>4, SetupWants, OtherRace DEF Pinned
<1>5. CASE Watch /\ (Rollback \/ \E b \in BOOLEAN : Configure(b))
  BY <1>5, SwapWants, OtherRace DEF Pinned
<1>6. ASSUME NEW s \in Supervisors, Watch, Select(s) \/ Pin(s) \/ Unpin(s) PROVE RaceInv'
  BY <1>6, LeaseWants, OtherRace
<1>7. ASSUME NEW c \in Collectors, Watch, Collecting(c) PROVE RaceInv'
  BY <1>7, CollectorRace
<1> QED BY <1>1, <1>2, <1>3, <1>4, <1>5, <1>6, <1>7 DEF Next, Collecting

LEMMA RaceInvariant == Spec => []RaceInv
BY InitRace, RaceStep, Invariant, PTL DEF Spec

\* The desired release and its fallback are on disk through any number of updates,
\* setups, rollbacks, connections and collections, unless one was selected while a
\* collection that began before it was retained was under way.
THEOREM RetainedTheorem == Spec => []RetainedUnlessRaced
<1>1. RaceInv => RetainedUnlessRaced
  BY RetainedWanted DEF RaceInv, RetainedUnlessRaced
<1> QED BY <1>1, RaceInvariant, PTL

\* So are the releases that live connections have leased, although a collector reads the
\* leases once and a connection selects its release before it publishes the lease.
THEOREM LeasesTheorem == Spec => []LeasesUnlessRaced
<1>1. RaceInv => LeasesUnlessRaced
  BY DEF RaceInv, LeasesUnlessRaced
<1> QED BY <1>1, RaceInvariant, PTL

-----------------------------------------------------------------------------
\* Rollbacks, configuration and connections alone race with no collection.
CalmInv ==
    /\ raced = {}
    /\ setup.pc = "idle"
    /\ Wanted \subseteq Retained(manifest)
    /\ \A c \in Collectors : gc[c].pc # "idle" => read[c] = Retained(manifest)

\* Where no updater and no setup command runs, rollbacks, connections and
\* collections race in no order: what RetainedTheorem and LeasesTheorem
\* except takes an updater or a setup command.
THEOREM CalmTheorem ==
  ASSUME Updaters = {}, SetupVersions = {}
  PROVE  Spec => [](raced = {})
<1>1. Init => CalmInv
  BY DEF Init, CalmInv, Wanted, IdleSetup, Closed, IdleCollector
<1>2. ASSUME Inv, CalmInv, Watch, Next PROVE CalmInv'
  <2> USE DEF CalmInv
  <2>1. setup'.pc = "idle" /\ Retained(manifest') = Retained(manifest)
    BY <1>2, SwapWants DEF Next, SetupStep, SetupEnsure, SetupBefore, SetupApply, SetupFails,
       Select, Pin, Unpin, LeaseOnly, GcManifest, GcLeases, GcRemove, GcEnd, CollectorOnly, Age
  <2>2. Wanted' \subseteq Retained(manifest')
    <3>1. ASSUME NEW s \in Supervisors, Select(s) \/ Pin(s) \/ Unpin(s)
          PROVE  Wanted' \subseteq Retained(manifest')
      <4>1. lease \in [Supervisors -> Lease] /\ manifest' = manifest
        BY <1>2, <3>1 DEF Select, Pin, Unpin, LeaseOnly, Inv, TypeOK
      <4>2. manifest.desired \in Retained(manifest)
        BY <1>2, ConstantsAssumption DEF Retained, Inv, TypeOK, Manifest
      <4>3. \A x \in Supervisors : lease'[x].pc = "selected" =>
               lease'[x].root \in Retained(manifest)
        BY <1>2, <3>1, <4>1, <4>2 DEF Select, Pin, Unpin, Closed, Lease, Wanted
      <4> QED BY <2>1, <4>1, <4>3 DEF Wanted
    <3>2. ASSUME UNCHANGED lease PROVE Wanted' \subseteq Retained(manifest')
      BY <1>2, <2>1, <3>2 DEF Wanted
    <3>3. ASSUME Rollback \/ \E b \in BOOLEAN : Configure(b) PROVE UNCHANGED lease
      BY <1>2, <3>3, SwapWants
    <3>4. ASSUME NEW c \in Collectors, Collecting(c) PROVE UNCHANGED lease
      BY <3>4 DEF Collecting, GcManifest, GcLeases, GcRemove, GcEnd, CollectorOnly
    <3>5. ASSUME SetupStep PROVE FALSE
      BY <1>2, <3>5 DEF SetupStep, SetupEnsure, SetupBefore, SetupApply, SetupFails
    <3> QED BY <1>2, <3>1, <3>2, <3>3, <3>4, <3>5 DEF Next, Age, Collecting
  <2>3. \A c \in Collectors : gc'[c].pc # "idle" => read'[c] = Retained(manifest')
    <3>1. \A x \in Collectors : gc[x].pc = "idle" \/ read[x] = Retained(manifest)
      BY <1>2
    <3> QED BY <1>2, <2>1, <3>1, WatchFacts
  <2>4. Wanted' \cap Threatened' = {}
    BY <2>2, <2>3 DEF Threatened
  <2> QED BY <1>2, <2>1, <2>2, <2>3, <2>4 DEF Watch
<1>3. Inv /\ CalmInv /\ [Next /\ Watch]_vars => CalmInv'
  BY <1>2 DEF vars, CalmInv, Wanted
<1>4. CalmInv => raced = {}
  BY DEF CalmInv
<1> QED BY <1>1, <1>3, <1>4, Invariant, PTL DEF Spec
=============================================================================
