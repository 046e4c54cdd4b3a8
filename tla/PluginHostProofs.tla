--------------------------- MODULE PluginHostProofs ---------------------------
(***************************************************************************)
(* Why a swap of bundles never loses a working one, for any number of        *)
(* installers, deaths and refused file operations, why a server that says it  *)
(* is current never runs the code of another working bundle, and why its     *)
(* table drops only the oldest ended jobs, for any limit.                    *)
(***************************************************************************)
EXTENDS PluginHost, FiniteSetTheorems, WellFoundedInduction, TLAPS

Directory == Bundles \cup {Absent}

InstallTypes ==
  /\ target \in Directory
  /\ staged \in [Installers -> Directory] /\ backup \in [Installers -> Directory]
  /\ lock \in Installers \cup {Nobody}
  /\ step \in [Installers -> Working \cup {"idle", "ended"}]
  /\ verified \in SUBSET Builds
  /\ crashes \in Nat /\ refusals \in Nat

\* The lock excludes: an installer at work holds it.
Exclusive == \A i \in Installers : step[i] \in Working => lock = i

\* What an installer knows of the directories while it holds the lock.
Placed(i) ==
  /\ staged[i] # Absent => staged[i].install = i
  /\ step[i] \in {"swapping", "backedUp"} => staged[i] # Absent
  /\ step[i] \in {"idle", "staging", "swapping"} => backup[i] = Absent
  /\ step[i] = "backedUp" => target = Absent
  /\ step[i] = "verifying" => target # Absent
  /\ step[i] \in {"verifying", "removing"} => target = Absent \/ target.install = i
  /\ step[i] = "restoring" => target = Absent \/ backup[i] = Absent
  /\ i \in verified => step[i] \in {"discarding", "cleaning", "releasing", "ended"}
  /\ step[i] = "discarding" => Proven(target)

Recoverable == Proven(target) \/ \E i \in Installers : Proven(backup[i])

\* While nothing has died or been refused, the working bundle is where the step of
\* the lock's holder says.
Orderly ==
  crashes = 0 /\ refusals = 0 =>
    /\ lock = Nobody => Proven(target)
    /\ lock # Nobody => step[lock] \in Working
    /\ \A i \in Installers :
         /\ step[i] \in {"staging", "swapping", "discarding", "cleaning", "releasing"} =>
              Proven(target)
         /\ step[i] \in {"backedUp", "verifying", "removing", "restoring"} =>
              Proven(backup[i])

Inv ==
  /\ InstallTypes /\ Exclusive /\ \A i \in Installers : Placed(i)
  /\ Recoverable /\ Orderly

-----------------------------------------------------------------------------
LEMMA BundleType ==
  ASSUME NEW i \in Builds
  PROVE  Bundle(i) \in Bundles /\ Bundle(i) # Absent
BY BuildAssumption DEF Bundle, Bundles

LEMMA RemovedType ==
  ASSUME NEW b \in Bundles, NEW part
  PROVE  Removed(b, part) \in Directory
         /\ (Removed(b, part) # Absent => Removed(b, part).install = b.install)
BY BuildAssumption DEF Removed, Bundles, Directory

LEMMA InitInv == Init => Inv
<1> SUFFICES ASSUME Init PROVE Inv
  OBVIOUS
<1> USE DEF Init, InstallInit
<1>1. target \in Bundles /\ target # Absent /\ Proven(target)
  BY BundleType DEF Builds, Proven, Bundle
<1>2. InstallTypes
  BY <1>1 DEF InstallTypes, Directory, Builds
<1>3. Exclusive /\ (\A i \in Installers : Placed(i))
  BY BuildAssumption DEF Exclusive, Placed, Working, Builds
<1>4. Recoverable /\ Orderly
  BY <1>1 DEF Recoverable, Orderly
<1> QED
  BY <1>2, <1>3, <1>4 DEF Inv

\* What one installer's step leaves alone of the others, which are not at work.
LEMMA OthersIdle ==
  ASSUME Inv, NEW i \in Installers, step[i] \in Working, NEW j \in Installers, j # i
  PROVE  step[j] \in {"idle", "ended"}
BY DEF Inv, InstallTypes, Exclusive

LEMMA GotoType ==
  ASSUME InstallTypes, NEW i \in Installers, NEW p \in Working \cup {"idle", "ended"}, Goto(i, p)
  PROVE  /\ step' \in [Installers -> Working \cup {"idle", "ended"}]
         /\ step'[i] = p /\ \A j \in Installers : j # i => step'[j] = step[j]
BY DEF InstallTypes, Goto

LEMMA AcquireStep ==
  ASSUME Inv, NEW i \in Installers, Acquire(i)
  PROVE  Inv'
<1>1. CASE lock = Nobody
  <2>1. lock' = i /\ Goto(i, "staging")
    BY <1>1 DEF Acquire
  <2>2. step'[i] = "staging" /\ \A j \in Installers : j # i => step'[j] = step[j]
    BY <2>1, GotoType DEF Inv, Working
  <2>3. \A j \in Installers : step[j] \notin Working
    BY <1>1, BuildAssumption DEF Inv, Exclusive, Builds
  <2>4. InstallTypes'
    BY <2>1, GotoType DEF Inv, InstallTypes, Acquire, Working
  <2>5. Exclusive'
    BY <2>1, <2>2, <2>3 DEF Exclusive
  <2>6. \A j \in Installers : Placed(j)'
    BY <2>2, <2>3 DEF Inv, Placed, Acquire, Proven, Working
  <2>7. Recoverable' /\ Orderly'
    BY <1>1, <2>1, <2>2, <2>3, BuildAssumption
    DEF Inv, Recoverable, Orderly, Acquire, Proven, Working, Builds
  <2> QED
    BY <2>4, <2>5, <2>6, <2>7 DEF Inv
<1>2. CASE lock # Nobody
  <2>1. lock' = lock /\ Goto(i, "ended") /\ step[i] = "idle"
    BY <1>2 DEF Acquire
  <2>2. step'[i] = "ended" /\ \A j \in Installers : j # i => step'[j] = step[j]
    BY <2>1, GotoType DEF Inv
  <2>3. InstallTypes'
    BY <2>1, GotoType DEF Inv, InstallTypes, Acquire
  <2>4. Exclusive'
    BY <2>1, <2>2 DEF Inv, Exclusive, Working
  <2>5. \A j \in Installers : Placed(j)'
    BY <2>1, <2>2 DEF Inv, Placed, Acquire, Proven
  <2>6. lock \in Installers
    BY <1>2 DEF Inv, InstallTypes
  <2>7. Recoverable' /\ Orderly'
    BY <1>2, <2>1, <2>2, <2>6 DEF Inv, Recoverable, Orderly, Acquire, Proven, Working
  <2> QED
    BY <2>3, <2>4, <2>5, <2>7 DEF Inv
<1> QED
  BY <1>1, <1>2

\* The rest of Inv after a step of the lock's holder i: the others do not move, so
\* what was placed for them stays.
LEMMA HolderStep ==
  ASSUME Inv, NEW i \in Installers, step[i] \in Working, InstallTypes',
         \A j \in Installers : j # i =>
           step'[j] = step[j] /\ staged'[j] = staged[j] /\ backup'[j] = backup[j],
         step'[i] \in Working => lock' = lock,
         verified' = verified \/ (verified' = verified \cup {i}),
         Placed(i)', Recoverable', Orderly'
  PROVE  Inv'
<1>1. lock = i
  BY DEF Inv, Exclusive
<1>2. Exclusive'
  <2> SUFFICES ASSUME NEW j \in Installers, step'[j] \in Working PROVE lock' = j
    BY DEF Exclusive
  <2>1. CASE j = i
    BY <2>1, <1>1
  <2>2. CASE j # i
    BY <2>2, OthersIdle DEF Working
  <2> QED
    BY <2>1, <2>2
<1>3. ASSUME NEW j \in Installers, j # i PROVE Placed(j)'
  <2>1. step[j] \in {"idle", "ended"} /\ step'[j] = step[j]
    BY <1>3, OthersIdle
  <2>2. Placed(j)
    BY DEF Inv
  <2> QED
    BY <1>3, <2>1, <2>2 DEF Placed
<1> QED
  BY <1>2, <1>3 DEF Inv

LEMMA StageStep ==
  ASSUME Inv, NEW i \in Installers, Stage(i)
  PROVE  Inv'
<1>1. step[i] = "staging" /\ step[i] \in Working /\ lock = i /\ Placed(i)
  BY DEF Stage, Inv, Working, Exclusive
<1>2. CASE staged' = [staged EXCEPT ![i] = Bundle(i)] /\ Goto(i, "swapping")
  <2>1. Bundle(i) \in Bundles /\ Bundle(i) # Absent
    BY BundleType DEF Builds
  <2>2. step'[i] = "swapping" /\ \A j \in Installers : j # i => step'[j] = step[j]
    BY <1>2, GotoType DEF Inv, Working
  <2>3. InstallTypes'
    BY <1>2, <2>1, GotoType DEF Inv, InstallTypes, Directory, Stage, Working
  <2>4. Placed(i)'
    BY <1>1, <1>2, <2>1, <2>2 DEF Placed, Stage, Bundle, Inv, InstallTypes
  <2>5. Recoverable' /\ Orderly'
    BY <1>1, <2>2, BuildAssumption DEF Inv, Recoverable, Orderly, Stage, Proven, Working, Builds
  <2> QED
    BY <1>1, <1>2, <2>2, <2>3, <2>4, <2>5, HolderStep DEF Stage, Inv, InstallTypes
<1>3. CASE Goto(i, "cleaning") /\ UNCHANGED staged
  <2>1. step'[i] = "cleaning" /\ \A j \in Installers : j # i => step'[j] = step[j]
    BY <1>3, GotoType DEF Inv, Working
  <2>2. InstallTypes'
    BY <1>3, GotoType DEF Inv, InstallTypes, Stage, Working
  <2>3. Placed(i)'
    BY <1>1, <1>3, <2>1 DEF Placed, Stage
  <2>4. Recoverable' /\ Orderly'
    BY <1>1, <2>1, BuildAssumption DEF Inv, Recoverable, Orderly, Stage, Proven, Working, Builds
  <2> QED
    BY <1>1, <1>3, <2>1, <2>2, <2>3, <2>4, HolderStep DEF Stage
<1> QED
  BY <1>2, <1>3 DEF Stage

\* A refused operation leaves the disk as it was, so only the holder's place matters.
LEMMA RefusedStep ==
  ASSUME Inv, NEW i \in Installers, step[i] \in Working,
         NEW p \in Working \cup {"ended"}, Refused(i, p), UNCHANGED <<verified, crashes>>,
         p \in {"cleaning", "releasing", "ended"} \/ (p = "restoring" /\
            (target = Absent \/ backup[i] = Absent)),
         i \in verified => p # "restoring"
  PROVE  Inv'
<1>1. lock = i /\ Placed(i)
  BY DEF Inv, Exclusive
<1>2. step'[i] = p /\ \A j \in Installers : j # i => step'[j] = step[j]
  BY GotoType DEF Inv, Refused
<1>3. InstallTypes'
  BY GotoType DEF Inv, InstallTypes, Refused, disk
<1>4. Placed(i)'
  BY <1>1, <1>2 DEF Placed, Refused, disk
<1>5. Recoverable'
  BY DEF Inv, Recoverable, Refused, disk, Proven
<1>6. Orderly'
  BY DEF Orderly, Refused, Inv, InstallTypes
<1> QED
  BY <1>1, <1>2, <1>3, <1>4, <1>5, <1>6, HolderStep DEF Refused, disk

LEMMA BackUpStep ==
  ASSUME Inv, NEW i \in Installers, BackUp(i)
  PROVE  Inv'
<1>1. /\ step[i] = "swapping" /\ step[i] \in Working /\ lock = i /\ Placed(i)
      /\ backup[i] = Absent /\ staged[i] # Absent /\ i \notin verified
  BY DEF BackUp, Inv, Working, Exclusive, Placed
<1>2. CASE /\ backup' = [backup EXCEPT ![i] = target] /\ target' = Absent
           /\ Goto(i, "backedUp") /\ UNCHANGED <<staged, lock, refusals>>
  <2>1. step'[i] = "backedUp" /\ \A j \in Installers : j # i => step'[j] = step[j]
    BY <1>2, GotoType DEF Inv, Working
  <2>2. backup'[i] = target /\ \A j \in Installers : j # i => backup'[j] = backup[j]
    BY <1>2 DEF Inv, InstallTypes
  <2>3. InstallTypes'
    BY <1>2, GotoType DEF Inv, InstallTypes, Directory, BackUp, Working
  <2>4. Placed(i)'
    BY <1>1, <1>2, <2>1 DEF Placed, BackUp
  <2>5. Proven(target) => Proven(backup'[i])
    BY <2>2
  <2>6. Recoverable'
    <3>1. CASE Proven(target)
      BY <3>1, <2>5 DEF Recoverable, Proven, BackUp
    <3>2. CASE ~Proven(target)
      <4>1. PICK j \in Installers : Proven(backup[j])
        BY <3>2 DEF Inv, Recoverable
      <4>2. j # i
        BY <4>1, <1>1 DEF Proven
      <4> QED
        BY <4>1, <4>2, <2>2 DEF Recoverable, Proven, BackUp
    <3> QED
      BY <3>1, <3>2
  <2>7. Orderly'
    BY <1>1, <1>2, <2>1, <2>2, OthersIdle, BuildAssumption
    DEF Inv, Orderly, BackUp, Proven, Working, Builds
  <2> QED
    BY <1>1, <1>2, <2>1, <2>2, <2>3, <2>4, <2>6, <2>7, HolderStep DEF BackUp
<1>3. CASE Refused(i, "restoring")
  BY <1>1, <1>3, RefusedStep DEF BackUp, Working
<1> QED
  BY <1>2, <1>3 DEF BackUp

LEMMA ActivateStep ==
  ASSUME Inv, NEW i \in Installers, Activate(i)
  PROVE  Inv'
<1>1. /\ step[i] = "backedUp" /\ step[i] \in Working /\ lock = i /\ Placed(i)
      /\ target = Absent /\ staged[i] # Absent /\ staged[i].install = i /\ i \notin verified
  BY DEF Activate, Inv, Working, Exclusive, Placed
<1>2. CASE /\ target' = staged[i] /\ staged' = [staged EXCEPT ![i] = Absent]
           /\ Goto(i, "verifying") /\ UNCHANGED <<backup, lock, refusals>>
  <2>1. step'[i] = "verifying" /\ \A j \in Installers : j # i => step'[j] = step[j]
    BY <1>2, GotoType DEF Inv, Working
  <2>2. staged'[i] = Absent /\ \A j \in Installers : j # i => staged'[j] = staged[j]
    BY <1>2 DEF Inv, InstallTypes
  <2>3. InstallTypes'
    BY <1>2, GotoType DEF Inv, InstallTypes, Directory, Activate, Working
  <2>4. Placed(i)'
    BY <1>1, <1>2, <2>1, <2>2 DEF Placed, Activate
  <2>5. Recoverable'
    BY <1>1, <1>2 DEF Inv, Recoverable, Proven, Activate
  <2>6. Orderly'
    BY <1>1, <1>2, <2>1, OthersIdle, BuildAssumption
    DEF Inv, Orderly, Activate, Proven, Working, Builds
  <2> QED
    BY <1>1, <1>2, <2>1, <2>2, <2>3, <2>4, <2>5, <2>6, HolderStep DEF Activate
<1>3. CASE Refused(i, "restoring")
  BY <1>1, <1>3, RefusedStep DEF Activate, Working
<1> QED
  BY <1>2, <1>3 DEF Activate

LEMMA VerifyStep ==
  ASSUME Inv, NEW i \in Installers, Verify(i)
  PROVE  Inv'
<1>1. /\ step[i] = "verifying" /\ step[i] \in Working /\ lock = i /\ Placed(i)
      /\ target # Absent /\ target.install = i /\ i \notin verified
  BY DEF Verify, Inv, Working, Exclusive, Placed
<1>2. UNCHANGED <<target, staged, backup, lock, crashes, refusals>>
  BY DEF Verify, disk
<1>3. CASE /\ Verifies(target) /\ verified' = verified \cup {target.install}
           /\ Goto(i, IF backup[i] # Absent THEN "discarding" ELSE "cleaning")
  <2>1. /\ step'[i] \in {"discarding", "cleaning"}
        /\ \A j \in Installers : j # i => step'[j] = step[j]
    BY <1>3, GotoType DEF Inv, Working
  <2>2. Proven(target)'
    BY <1>1, <1>2, <1>3 DEF Proven, Verifies
  <2>3. InstallTypes'
    BY <1>1, <1>2, <1>3, GotoType DEF Inv, InstallTypes, Working, Builds
  <2>4. Placed(i)'
    BY <1>1, <1>2, <2>1, <2>2 DEF Placed
  <2>5. Recoverable'
    BY <2>2 DEF Recoverable
  <2>6. Orderly'
    BY <1>1, <1>2, <2>1, <2>2, OthersIdle, BuildAssumption DEF Orderly, Working, Builds
  <2> QED
    BY <1>1, <1>2, <1>3, <2>1, <2>3, <2>4, <2>5, <2>6, HolderStep
<1>4. CASE Goto(i, "removing") /\ UNCHANGED verified
  <2>1. step'[i] = "removing" /\ \A j \in Installers : j # i => step'[j] = step[j]
    BY <1>4, GotoType DEF Inv, Working
  <2>2. InstallTypes'
    BY <1>2, <1>4, GotoType DEF Inv, InstallTypes, Working
  <2>3. Placed(i)'
    BY <1>1, <1>2, <1>4, <2>1 DEF Placed
  <2>4. Recoverable'
    BY <1>2, <1>4 DEF Inv, Recoverable, Proven
  <2>5. Orderly'
    BY <1>1, <1>2, <1>4, <2>1, OthersIdle, BuildAssumption
    DEF Inv, Orderly, Proven, Working, Builds
  <2> QED
    BY <1>1, <1>2, <1>4, <2>1, <2>2, <2>3, <2>4, <2>5, HolderStep
<1> QED
  BY <1>3, <1>4 DEF Verify

LEMMA RemoveTargetStep ==
  ASSUME Inv, NEW i \in Installers, RemoveTarget(i)
  PROVE  Inv'
<1>1. /\ step[i] = "removing" /\ step[i] \in Working /\ lock = i /\ Placed(i)
      /\ target = Absent \/ target.install = i
      /\ i \notin verified
  BY DEF RemoveTarget, Inv, Working, Exclusive, Placed
<1>2. ~Proven(target)
  BY <1>1 DEF Proven
<1>3. CASE /\ target # Absent
           /\ \E part \in target.parts : target' = Removed(target, part)
           /\ UNCHANGED <<staged, backup, lock, step, refusals>>
  <2>1. PICK part \in target.parts : target' = Removed(target, part)
    BY <1>3
  <2>2. target \in Bundles
    BY <1>3 DEF Inv, InstallTypes, Directory
  <2>3. target' \in Directory /\ (target' # Absent => target'.install = i)
    BY <1>1, <1>3, <2>1, <2>2, RemovedType
  <2>4. InstallTypes'
    BY <1>3, <2>3 DEF Inv, InstallTypes, RemoveTarget
  <2>5. Placed(i)'
    BY <1>1, <1>3, <2>3 DEF Placed, RemoveTarget
  <2>6. Recoverable'
    BY <1>2, <1>3 DEF Inv, Recoverable, Proven, RemoveTarget
  <2>7. Orderly'
    BY <1>1, <1>3, OthersIdle, BuildAssumption
    DEF Inv, Orderly, Proven, RemoveTarget, Working, Builds
  <2> QED
    BY <1>1, <1>3, <2>4, <2>5, <2>6, <2>7, HolderStep DEF RemoveTarget
<1>4. CASE target = Absent /\ Goto(i, "restoring") /\ UNCHANGED <<disk, refusals>>
  <2>1. step'[i] = "restoring" /\ \A j \in Installers : j # i => step'[j] = step[j]
    BY <1>4, GotoType DEF Inv, Working
  <2>2. InstallTypes'
    BY <1>4, GotoType DEF Inv, InstallTypes, RemoveTarget, disk, Working
  <2>3. Placed(i)'
    BY <1>1, <1>4, <2>1 DEF Placed, RemoveTarget, disk
  <2>4. Recoverable'
    BY <1>4 DEF Inv, Recoverable, Proven, RemoveTarget, disk
  <2>5. Orderly'
    BY <1>1, <1>4, <2>1, OthersIdle, BuildAssumption
    DEF Inv, Orderly, Proven, RemoveTarget, disk, Working, Builds
  <2> QED
    BY <1>1, <1>4, <2>1, <2>2, <2>3, <2>4, <2>5, HolderStep DEF RemoveTarget, disk
<1>5. CASE Refused(i, "cleaning")
  BY <1>1, <1>5, RefusedStep DEF RemoveTarget, Working
<1> QED
  BY <1>3, <1>4, <1>5 DEF RemoveTarget

LEMMA RestoreStep ==
  ASSUME Inv, NEW i \in Installers, Restore(i)
  PROVE  Inv'
<1>1. /\ step[i] = "restoring" /\ step[i] \in Working /\ lock = i /\ Placed(i)
      /\ target = Absent \/ backup[i] = Absent
  BY DEF Restore, Inv, Working, Exclusive, Placed
<1>2. CASE /\ backup[i] # Absent
           /\ target' = backup[i] /\ backup' = [backup EXCEPT ![i] = Absent]
           /\ Goto(i, "cleaning") /\ UNCHANGED <<staged, lock, refusals>>
  <2>1. step'[i] = "cleaning" /\ \A j \in Installers : j # i => step'[j] = step[j]
    BY <1>2, GotoType DEF Inv, Working
  <2>2. backup'[i] = Absent /\ \A j \in Installers : j # i => backup'[j] = backup[j]
    BY <1>2 DEF Inv, InstallTypes
  <2>3. InstallTypes'
    BY <1>2, GotoType DEF Inv, InstallTypes, Directory, Restore, Working
  <2>4. Placed(i)'
    BY <1>1, <1>2, <2>1 DEF Placed, Restore
  <2>5. ~Proven(target)
    BY <1>1, <1>2 DEF Proven
  <2>6. PICK j \in Installers : Proven(backup[j])
    BY <2>5 DEF Inv, Recoverable
  <2>7. Recoverable'
    BY <1>2, <2>2, <2>6 DEF Recoverable, Proven, Restore
  <2>8. Orderly'
    BY <1>1, <1>2, <2>1, OthersIdle, BuildAssumption
    DEF Inv, Orderly, Proven, Restore, Working, Builds
  <2> QED
    BY <1>1, <1>2, <2>1, <2>2, <2>3, <2>4, <2>7, <2>8, HolderStep DEF Restore
<1>3. CASE backup[i] = Absent /\ Goto(i, "cleaning") /\ UNCHANGED <<disk, refusals>>
  <2>1. step'[i] = "cleaning" /\ \A j \in Installers : j # i => step'[j] = step[j]
    BY <1>3, GotoType DEF Inv, Working
  <2>2. InstallTypes'
    BY <1>3, GotoType DEF Inv, InstallTypes, Restore, disk, Working
  <2>3. Placed(i)'
    BY <1>1, <1>3, <2>1 DEF Placed, Restore, disk
  <2>4. Recoverable'
    BY <1>3 DEF Inv, Recoverable, Proven, Restore, disk
  <2>5. Orderly'
    BY <1>1, <1>3 DEF Inv, Orderly, Proven, Restore, disk
  <2> QED
    BY <1>1, <1>3, <2>1, <2>2, <2>3, <2>4, <2>5, HolderStep DEF Restore, disk
<1>4. CASE Refused(i, "cleaning")
  BY <1>1, <1>4, RefusedStep DEF Restore, Working
<1> QED
  BY <1>2, <1>3, <1>4 DEF Restore

LEMMA DiscardStep ==
  ASSUME Inv, NEW i \in Installers, Discard(i)
  PROVE  Inv'
<1>1. /\ step[i] = "discarding" /\ step[i] \in Working /\ lock = i /\ Placed(i)
      /\ Proven(target)
  BY DEF Discard, Inv, Working, Exclusive, Placed
<1>2. CASE /\ backup[i] # Absent
           /\ \E part \in backup[i].parts :
                backup' = [backup EXCEPT ![i] = Removed(backup[i], part)]
           /\ UNCHANGED <<target, staged, lock, step, refusals>>
  <2>1. PICK part \in backup[i].parts :
          backup' = [backup EXCEPT ![i] = Removed(backup[i], part)]
    BY <1>2
  <2>2. backup[i] \in Bundles
    BY <1>2 DEF Inv, InstallTypes, Directory
  <2>3. Removed(backup[i], part) \in Directory
    BY <2>2, RemovedType
  <2>4. InstallTypes' /\ \A j \in Installers : j # i => backup'[j] = backup[j]
    BY <1>2, <2>1, <2>3 DEF Inv, InstallTypes, Discard
  <2>5. Proven(target)'
    BY <1>1, <1>2 DEF Proven, Discard
  <2>6. Placed(i)'
    BY <1>1, <1>2, <2>5 DEF Placed, Discard
  <2>7. Recoverable'
    BY <2>5 DEF Recoverable
  <2>8. Orderly'
    BY <1>1, <1>2, <2>5, OthersIdle, BuildAssumption DEF Orderly, Discard, Working, Builds
  <2> QED
    BY <1>1, <1>2, <2>4, <2>6, <2>7, <2>8, HolderStep DEF Discard
<1>3. CASE backup[i] = Absent /\ Goto(i, "cleaning") /\ UNCHANGED <<disk, refusals>>
  <2>1. step'[i] = "cleaning" /\ \A j \in Installers : j # i => step'[j] = step[j]
    BY <1>3, GotoType DEF Inv, Working
  <2>2. InstallTypes'
    BY <1>3, GotoType DEF Inv, InstallTypes, Discard, disk, Working
  <2>3. Proven(target)'
    BY <1>1, <1>3 DEF Proven, Discard, disk
  <2>4. Placed(i)'
    BY <1>1, <1>3, <2>1 DEF Placed, Discard, disk
  <2>5. Recoverable'
    BY <2>3 DEF Recoverable
  <2>6. Orderly'
    BY <1>1, <1>3, <2>1, <2>3, OthersIdle, BuildAssumption
    DEF Orderly, Discard, disk, Working, Builds
  <2> QED
    BY <1>1, <1>3, <2>1, <2>2, <2>4, <2>5, <2>6, HolderStep DEF Discard, disk
<1>4. CASE Refused(i, "cleaning")
  BY <1>1, <1>4, RefusedStep DEF Discard, Working
<1> QED
  BY <1>2, <1>3, <1>4 DEF Discard

LEMMA CleanStep ==
  ASSUME Inv, NEW i \in Installers, Clean(i)
  PROVE  Inv'
<1>1. step[i] = "cleaning" /\ step[i] \in Working /\ lock = i /\ Placed(i)
  BY DEF Clean, Inv, Working, Exclusive
<1>2. CASE /\ staged' = [staged EXCEPT ![i] = Absent]
           /\ Goto(i, "releasing") /\ UNCHANGED <<target, backup, lock, refusals>>
  <2>1. step'[i] = "releasing" /\ \A j \in Installers : j # i => step'[j] = step[j]
    BY <1>2, GotoType DEF Inv, Working
  <2>2. staged'[i] = Absent /\ \A j \in Installers : j # i => staged'[j] = staged[j]
    BY <1>2 DEF Inv, InstallTypes
  <2>3. InstallTypes'
    BY <1>2, GotoType DEF Inv, InstallTypes, Directory, Clean, Working
  <2>4. Placed(i)'
    BY <1>1, <1>2, <2>1, <2>2 DEF Placed, Clean
  <2>5. Recoverable'
    BY <1>2 DEF Inv, Recoverable, Proven, Clean
  <2>6. Orderly'
    BY <1>1, <1>2, <2>1, OthersIdle, BuildAssumption
    DEF Inv, Orderly, Proven, Clean, Working, Builds
  <2> QED
    BY <1>1, <1>2, <2>1, <2>2, <2>3, <2>4, <2>5, <2>6, HolderStep DEF Clean
<1>3. CASE Refused(i, "releasing")
  BY <1>1, <1>3, RefusedStep DEF Clean, Working
<1> QED
  BY <1>2, <1>3 DEF Clean

LEMMA ReleaseStep ==
  ASSUME Inv, NEW i \in Installers, Release(i)
  PROVE  Inv'
<1>1. step[i] = "releasing" /\ step[i] \in Working /\ lock = i /\ Placed(i)
  BY DEF Release, Inv, Working, Exclusive
<1>2. CASE lock' = Nobody /\ Goto(i, "ended") /\ UNCHANGED <<target, staged, backup, refusals>>
  <2>1. step'[i] = "ended" /\ \A j \in Installers : j # i => step'[j] = step[j]
    BY <1>2, GotoType DEF Inv
  <2>2. InstallTypes'
    BY <1>2, GotoType DEF Inv, InstallTypes, Release
  <2>3. Placed(i)'
    BY <1>1, <1>2, <2>1 DEF Placed, Release
  <2>4. Recoverable'
    BY <1>2 DEF Inv, Recoverable, Proven, Release
  <2>5. Orderly'
    BY <1>1, <1>2, <2>1, OthersIdle DEF Inv, Orderly, Proven, Release, Working
  <2> QED
    BY <1>1, <1>2, <2>1, <2>2, <2>3, <2>4, <2>5, HolderStep DEF Release, Working
<1>3. CASE Refused(i, "ended")
  BY <1>1, <1>3, RefusedStep DEF Release
<1> QED
  BY <1>2, <1>3 DEF Release

LEMMA CrashStep ==
  ASSUME Inv, NEW i \in Installers, Crash(i)
  PROVE  Inv'
<1>1. step[i] \in Working /\ lock = i /\ Placed(i)
  BY DEF Crash, Inv, Exclusive
<1>2. /\ step'[i] = "ended" /\ \A j \in Installers : j # i => step'[j] = step[j]
      /\ UNCHANGED <<disk, verified, refusals>>
  BY GotoType DEF Inv, Crash
<1>3. InstallTypes'
  BY GotoType DEF Inv, InstallTypes, Crash, disk
<1>4. Placed(i)' /\ Recoverable' /\ Orderly'
  BY <1>1, <1>2 DEF Placed, Inv, InstallTypes, Recoverable, Orderly, Proven, Crash, disk
<1> QED
  BY <1>1, <1>2, <1>3, <1>4, HolderStep DEF disk, Working

LEMMA RemoveStaleLockStep ==
  ASSUME Inv, RemoveStaleLock
  PROVE  Inv'
<1>1. /\ lock # Nobody /\ lock' = Nobody /\ \A i \in Installers : step[i] \notin Working
      /\ UNCHANGED <<target, staged, backup, step, verified, crashes, refusals>>
  BY DEF RemoveStaleLock
<1>2. lock \in Installers
  BY <1>1 DEF Inv, InstallTypes
<1>3. InstallTypes' /\ Exclusive'
  BY <1>1 DEF Inv, InstallTypes, Exclusive
<1>4. (\A i \in Installers : Placed(i)') /\ Recoverable'
  BY <1>1 DEF Inv, Placed, Recoverable, Proven
<1>5. Orderly'
  BY <1>1, <1>2 DEF Inv, Orderly
<1> QED
  BY <1>3, <1>4, <1>5 DEF Inv

\* What the host does, and what it asks, touches no directory.
LEMMA ElsewhereStep ==
  ASSUME Inv, UNCHANGED installVars
  PROVE  Inv'
BY DEF Inv, installVars, disk, InstallTypes, Exclusive, Placed, Recoverable, Orderly, Proven

LEMMA InvStep == Inv /\ [Next]_vars => Inv'
<1> SUFFICES ASSUME Inv, [Next]_vars PROVE Inv'
  OBVIOUS
<1>1. CASE Install
  BY <1>1, AcquireStep, StageStep, BackUpStep, ActivateStep, VerifyStep, RemoveTargetStep,
     RestoreStep, DiscardStep, CleanStep, ReleaseStep, CrashStep, RemoveStaleLockStep
  DEF Install
<1>2. CASE ReadConfiguration \/ StartFromSources \/ Launch \/ Stop
           \/ StartJob \/ EndJob \/ Tick \/ UNCHANGED vars
  BY <1>2, ElsewhereStep
  DEF ReadConfiguration, StartFromSources, Launch, Stop, StartJob, EndJob, Tick, vars
<1> QED
  BY <1>1, <1>2 DEF Next

\* "Activation is transactional" (docs/installation.md:29-33): withInstallLock and
\* atomicReplaceDirectory never lose a working bundle, whichever rename, removal or
\* process fails, and without failures leave one in the target.
THEOREM WorkingBundleKept == Spec => []ActivationIsTransactional
<1>1. Inv => ActivationIsTransactional
  BY DEF Inv, Recoverable, Orderly, ActivationIsTransactional
<1> QED
  BY <1>1, InitInv, InvStep, PTL DEF Spec

-----------------------------------------------------------------------------
(* The status of a server.                                                 *)

HostTypes ==
  /\ made \in [Builds -> Makes]
  /\ \A b \in verified : made[b].says = made[b].declares
  /\ boot \in Builds \cup {Nobody}

\* The builds that have been in the target, among others; the rest cannot be there.
Activated(x) ==
  x = Shipped \/ (x \in Installers /\ step[x] \notin {"idle", "staging", "swapping", "backedUp"})

Known ==
  /\ target # Absent => Activated(target.install)
  /\ \A i \in Installers : backup[i] # Absent => Activated(backup[i].install)
  /\ boot # Nobody => Activated(boot)

\* x is not in the target, and nobody who is at work can bring it back.
Gone(x) ==
  /\ target # Absent => target.install # x
  /\ \A i \in Installers :
       step[i] \in {"backedUp", "verifying", "removing", "restoring"} /\ backup[i] # Absent =>
         backup[i].install # x

\* A process that runs another verified build than it was configured for: that build
\* took the place of the configured one for good.
Superseded ==
  server = "up" /\ boot # Nobody /\ loaded \in verified /\ loaded # boot => Gone(boot)

HostInv == HostTypes /\ Known /\ Superseded

-----------------------------------------------------------------------------
\* A step of an installer keeps what has been activated.
LEMMA ActivatedStays ==
  ASSUME Inv, Install, NEW x, Activated(x)
  PROVE  Activated(x)'
<1>1. CASE x = Shipped
  BY <1>1 DEF Activated
<1>2. CASE x \in Installers /\ step[x] \notin {"idle", "staging", "swapping", "backedUp"}
  <2>1. step'[x] \notin {"idle", "staging", "swapping", "backedUp"}
    BY <1>2 DEF Install, Acquire, Stage, BackUp, Activate, Verify, RemoveTarget, Restore,
       Discard, Clean, Release, Crash, RemoveStaleLock, Goto, Refused, Working, Inv, InstallTypes
  <2> QED
    BY <1>2, <2>1 DEF Activated
<1> QED
  BY <1>1, <1>2 DEF Activated

\* What a step of an installer does to the builds in the target and the backups:
\* one comes out of another place, or it is the installer's own and now activated.
LEMMA KnownStep == Inv /\ Known /\ Install /\ UNCHANGED boot => Known'
<1> SUFFICES ASSUME Inv, Known, Install, UNCHANGED boot PROVE Known'
  OBVIOUS
<1>1. \A x : Activated(x) => Activated(x)'
  BY ActivatedStays
<1>2. boot' # Nobody => Activated(boot)'
  BY <1>1 DEF Known
<1>3. CASE UNCHANGED <<target, backup>>
  BY <1>1, <1>2, <1>3 DEF Known
<1>4. ASSUME NEW i \in Installers, BackUp(i) PROVE Known'
  BY <1>1, <1>2, <1>4 DEF Known, BackUp, Refused, disk, Inv, InstallTypes
<1>5. ASSUME NEW i \in Installers, Activate(i) PROVE Known'
  <2>1. CASE target' = staged[i] /\ Goto(i, "verifying") /\ UNCHANGED backup
    <3>1. staged[i] # Absent /\ staged[i].install = i
      BY <1>5 DEF Activate, Inv, Placed
    <3>2. Activated(i)'
      BY <2>1 DEF Activated, Goto, Inv, InstallTypes
    <3> QED
      BY <1>1, <1>2, <2>1, <3>1, <3>2 DEF Known
  <2>2. CASE UNCHANGED <<target, backup>>
    BY <1>3, <2>2
  <2> QED
    BY <1>5, <2>1, <2>2 DEF Activate, Refused, disk
<1>6. ASSUME NEW i \in Installers, RemoveTarget(i) PROVE Known'
  <2>1. CASE target # Absent /\ (\E part \in target.parts : target' = Removed(target, part))
             /\ UNCHANGED backup
    <3>1. target' # Absent => target'.install = target.install
      BY <2>1, RemovedType DEF Inv, InstallTypes, Directory
    <3> QED
      BY <1>1, <1>2, <2>1, <3>1 DEF Known
  <2>2. CASE UNCHANGED <<target, backup>>
    BY <1>3, <2>2
  <2> QED
    BY <1>6, <2>1, <2>2 DEF RemoveTarget, Refused, disk
<1>7. ASSUME NEW i \in Installers, Restore(i) PROVE Known'
  BY <1>1, <1>2, <1>7 DEF Known, Restore, Refused, disk, Inv, InstallTypes
<1>8. ASSUME NEW i \in Installers, Discard(i) PROVE Known'
  <2>1. CASE backup[i] # Absent /\ UNCHANGED target
             /\ \E part \in backup[i].parts :
                  backup' = [backup EXCEPT ![i] = Removed(backup[i], part)]
    <3>1. backup'[i] # Absent => backup'[i].install = backup[i].install
      BY <2>1, RemovedType DEF Inv, InstallTypes, Directory
    <3>2. \A j \in Installers : j # i => backup'[j] = backup[j]
      BY <2>1 DEF Inv, InstallTypes
    <3>3. \A j \in Installers : backup'[j] # Absent =>
            backup[j] # Absent /\ backup'[j].install = backup[j].install
      BY <2>1, <3>1, <3>2
    <3> QED
      BY <1>1, <1>2, <2>1, <3>3 DEF Known
  <2>2. CASE UNCHANGED <<target, backup>>
    BY <1>3, <2>2
  <2> QED
    BY <1>8, <2>1, <2>2 DEF Discard, Refused, disk
<1>9. ASSUME NEW i \in Installers,
             Acquire(i) \/ Stage(i) \/ Verify(i) \/ Clean(i) \/ Release(i) \/ Crash(i)
      PROVE  UNCHANGED <<target, backup>>
  BY <1>9 DEF Acquire, Stage, Verify, Clean, Release, Crash, Refused, disk
<1>10. RemoveStaleLock => UNCHANGED <<target, backup>>
  BY DEF RemoveStaleLock
<1> QED
  BY <1>3, <1>4, <1>5, <1>6, <1>7, <1>8, <1>9, <1>10 DEF Install

\* A build that is gone stays gone: what is activated is new, and what is restored
\* was put aside by an installer that is still at work.
LEMMA GoneStays ==
  ASSUME Inv, Install, NEW x, Activated(x), Gone(x)
  PROVE  Gone(x)'
<1> DEFINE Aside == {"backedUp", "verifying", "removing", "restoring"}
<1>1. ASSUME UNCHANGED <<target, backup>>,
             \A i \in Installers : step'[i] \in Aside => step[i] \in Aside \/ backup[i] = Absent
      PROVE  Gone(x)'
  BY <1>1 DEF Gone
<1>2. ASSUME NEW i \in Installers, BackUp(i) PROVE Gone(x)'
  <2>1. backup[i] = Absent
    BY <1>2 DEF BackUp, Inv, Placed
  <2>2. CASE backup' = [backup EXCEPT ![i] = target] /\ target' = Absent /\ Goto(i, "backedUp")
    BY <2>2 DEF Gone, Goto, Inv, InstallTypes
  <2>3. CASE Refused(i, "restoring")
    BY <2>1, <2>3 DEF Gone, Refused, disk, Goto, Inv, InstallTypes
  <2> QED
    BY <1>2, <2>2, <2>3 DEF BackUp
<1>3. ASSUME NEW i \in Installers, Activate(i) PROVE Gone(x)'
  <2>1. step[i] = "backedUp"
    BY <1>3 DEF Activate
  <2>2. CASE target' = staged[i] /\ Goto(i, "verifying") /\ UNCHANGED backup
    <3>1. staged[i] # Absent => staged[i].install = i
      BY DEF Inv, Placed
    <3>2. x # i
      BY <2>1, BuildAssumption DEF Activated, Builds
    <3> QED
      BY <2>1, <2>2, <3>1, <3>2 DEF Gone, Goto, Inv, InstallTypes
  <2>3. CASE Refused(i, "restoring")
    BY <2>1, <2>3 DEF Gone, Refused, disk, Goto, Inv, InstallTypes
  <2> QED
    BY <1>3, <2>2, <2>3 DEF Activate
<1>4. ASSUME NEW i \in Installers, RemoveTarget(i) PROVE Gone(x)'
  <2>1. step[i] = "removing"
    BY <1>4 DEF RemoveTarget
  <2>2. CASE target # Absent /\ (\E part \in target.parts : target' = Removed(target, part))
             /\ UNCHANGED <<backup, step>>
    <3>1. target' # Absent => target'.install = target.install
      BY <2>2, RemovedType DEF Inv, InstallTypes, Directory
    <3> QED
      BY <2>2, <3>1 DEF Gone
  <2>3. CASE (Goto(i, "restoring") \/ Goto(i, "cleaning")) /\ UNCHANGED <<target, backup>>
    BY <2>1, <2>3 DEF Gone, Goto, Inv, InstallTypes
  <2> QED
    BY <1>4, <2>2, <2>3 DEF RemoveTarget, Refused, disk
<1>5. ASSUME NEW i \in Installers, Restore(i) PROVE Gone(x)'
  <2>1. step[i] = "restoring"
    BY <1>5 DEF Restore
  <2>2. CASE backup[i] # Absent /\ target' = backup[i] /\ backup' = [backup EXCEPT ![i] = Absent]
             /\ Goto(i, "cleaning")
    BY <2>1, <2>2 DEF Gone, Goto, Inv, InstallTypes
  <2>3. CASE Goto(i, "cleaning") /\ UNCHANGED <<target, backup>>
    BY <2>3 DEF Gone, Goto, Inv, InstallTypes
  <2> QED
    BY <1>5, <2>2, <2>3 DEF Restore, Refused, disk
<1>6. ASSUME NEW i \in Installers, Discard(i) PROVE Gone(x)'
  <2>1. step[i] = "discarding" /\ UNCHANGED target
    BY <1>6 DEF Discard, Refused, disk
  <2>2. /\ step'[i] \notin Aside
        /\ \A j \in Installers : j # i => step'[j] = step[j] /\ backup'[j] = backup[j]
    BY <1>6 DEF Discard, Refused, disk, Goto, Inv, InstallTypes
  <2> QED
    BY <2>1, <2>2 DEF Gone
<1>7. ASSUME NEW i \in Installers, Acquire(i) \/ Stage(i) \/ Clean(i) \/ Release(i) \/ Crash(i)
      PROVE  Gone(x)'
  <2>1. /\ UNCHANGED <<target, backup>> /\ step'[i] \notin Aside
        /\ \A j \in Installers : j # i => step'[j] = step[j]
    BY <1>7 DEF Acquire, Stage, Clean, Release, Crash, Refused, disk, Goto, Inv, InstallTypes
  <2> QED
    BY <1>1, <2>1
<1>8. ASSUME NEW i \in Installers, Verify(i) PROVE Gone(x)'
  <2>1. /\ UNCHANGED <<target, backup>> /\ step[i] \in Aside
        /\ \A j \in Installers : j # i => step'[j] = step[j]
    BY <1>8 DEF Verify, disk, Goto, Inv, InstallTypes
  <2> QED
    BY <1>1, <2>1
<1>9. RemoveStaleLock => Gone(x)'
  BY <1>1 DEF RemoveStaleLock
<1> QED
  BY <1>2, <1>3, <1>4, <1>5, <1>6, <1>7, <1>8, <1>9 DEF Install

\* A verification that ends well: the verified build is in the target, and nobody is
\* left to put another one there.
LEMMA VerifiedReplaces ==
  ASSUME Inv, NEW i \in Installers, Verify(i), verified' # verified, NEW x, x # i
  PROVE  verified' = verified \cup {i} /\ Gone(x)'
<1>1. /\ step[i] = "verifying" /\ target # Absent /\ target.install = i
      /\ UNCHANGED <<target, backup>> /\ verified' = verified \cup {target.install}
      /\ Goto(i, IF backup[i] # Absent THEN "discarding" ELSE "cleaning")
  BY DEF Verify, disk, Inv, Placed
<1>2. \A j \in Installers : step'[j] \notin {"backedUp", "verifying", "removing", "restoring"}
  BY <1>1, OthersIdle DEF Goto, Working, Inv, InstallTypes
<1> QED
  BY <1>1, <1>2 DEF Gone

LEMMA InstallHost == Inv /\ HostInv /\ Install /\ UNCHANGED host => HostInv'
<1> SUFFICES ASSUME Inv, HostInv, Install, UNCHANGED host PROVE HostInv'
  OBVIOUS
<1>1. UNCHANGED <<server, boot, loaded, made>>
  BY DEF host, Install
<1>2. Known'
  BY <1>1, KnownStep DEF HostInv
<1>3. CASE verified' = verified
  <2>1. HostTypes'
    BY <1>1, <1>3 DEF HostInv, HostTypes
  <2>2. Superseded'
    BY <1>1, <1>3, GoneStays DEF HostInv, Superseded, Known
  <2> QED
    BY <1>2, <2>1, <2>2 DEF HostInv
<1>4. CASE verified' # verified
  <2>1. PICK i \in Installers : Verify(i)
    BY <1>4 DEF Install, Acquire, Stage, BackUp, Activate, RemoveTarget, Restore, Discard,
       Clean, Release, Crash, RemoveStaleLock
  <2>2. Verifies(target) /\ verified' = verified \cup {target.install} /\ target.install = i
    BY <1>4, <2>1 DEF Verify, Inv, Placed
  <2>3. made[i].says = made[i].declares
    BY <2>2 DEF Verifies, RuntimeStatus
  <2>4. HostTypes'
    BY <1>1, <2>2, <2>3 DEF HostInv, HostTypes
  <2>5. Superseded'
    <3>1. CASE boot = i
      <4>1. loaded \in verified' /\ loaded # boot => loaded \in verified
        BY <2>2, <3>1
      <4> QED
        BY <1>1, <4>1, GoneStays DEF HostInv, Superseded, Known
    <3>2. CASE boot # i
      BY <1>1, <1>4, <2>1, <3>2, VerifiedReplaces DEF Superseded
    <3> QED
      BY <3>1, <3>2
  <2> QED
    BY <1>2, <2>4, <2>5 DEF HostInv
<1> QED
  BY <1>3, <1>4

\* Code that was launched as another build than the configured one, and is verified
\* already, is beyond being rolled back.
LEMMA LaunchHost == Inv /\ HostInv /\ Launch => HostInv'
<1> SUFFICES ASSUME Inv, HostInv, Launch PROVE HostInv'
  OBVIOUS
<1>1. UNCHANGED <<target, backup, step, verified, made>>
  BY DEF Launch, installVars, disk
<1>2. CASE target # Absent /\ "runtime" \in target.parts
  <2>1. loaded' = target.install /\ boot' = boot
    BY <1>2 DEF Launch
  <2>2. HostTypes' /\ Known'
    BY <1>1, <2>1 DEF HostInv, HostTypes, Known, Activated
  <2>3. ASSUME target.install \in verified, target.install # boot PROVE Gone(boot)
    <3>1. \A i \in Installers :
            step[i] \in {"backedUp", "verifying", "removing", "restoring"} => backup[i] = Absent
      BY <1>2, <2>3 DEF Inv, Placed
    <3> QED
      BY <2>3, <3>1 DEF Gone
  <2>4. Superseded'
    BY <1>1, <2>1, <2>3 DEF Superseded, Gone
  <2> QED
    BY <2>2, <2>4 DEF HostInv
<1>3. CASE ~(target # Absent /\ "runtime" \in target.parts)
  <2>1. server' = "off" /\ boot' = Nobody
    BY <1>3 DEF Launch
  <2> QED
    BY <1>1, <2>1 DEF HostInv, HostTypes, Known, Superseded, Activated
<1> QED
  BY <1>2, <1>3

LEMMA HostStep == Inv /\ HostInv /\ [Next]_vars => HostInv'
<1> SUFFICES ASSUME Inv, HostInv, [Next]_vars PROVE HostInv'
  OBVIOUS
<1>1. CASE ReadConfiguration
  <2>1. /\ server' = "configured" /\ boot' = target.install /\ target # Absent
        /\ UNCHANGED <<target, backup, step, verified, made>>
    BY <1>1 DEF ReadConfiguration, installVars, disk
  <2>2. target.install \in Builds
    BY <2>1 DEF Inv, InstallTypes, Directory, Bundles
  <2> QED
    BY <2>1, <2>2 DEF HostInv, HostTypes, Known, Superseded, Activated
<1>2. CASE StartFromSources \/ Stop
  <2>1. boot' = Nobody /\ UNCHANGED <<target, backup, step, verified, made>>
    BY <1>2 DEF StartFromSources, Stop, installVars, disk
  <2> QED
    BY <2>1 DEF HostInv, HostTypes, Known, Superseded, Activated
<1>3. CASE StartJob \/ EndJob \/ Tick \/ UNCHANGED vars
  <2>1. UNCHANGED <<target, backup, step, verified, made, server, boot, loaded>>
    BY <1>3 DEF StartJob, EndJob, Tick, vars, host, installVars, disk
  <2> QED
    BY <2>1 DEF HostInv, HostTypes, Known, Superseded, Gone, Activated
<1> QED
  BY <1>1, <1>2, <1>3, InstallHost, LaunchHost DEF Next

\* getRuntimeInfo, for any number of installers and whatever versions the builds have:
\* over a working bundle, a server that took configuration and code from it is current,
\* and one that is current never runs the code of another bundle that was verified.
THEOREM CurrentIsNeverAnother == Spec => []NeverTheCodeOfAnother
<1>1. Init => Inv /\ HostInv
  <2> SUFFICES ASSUME Init PROVE HostInv
    BY InitInv
  <2>1. target.install = Shipped
    BY DEF Init, InstallInit, Bundle
  <2> QED
    BY <2>1 DEF Init, InstallInit, HostInv, HostTypes, Known, Superseded, Activated
<1>2. Inv /\ HostInv => NeverTheCodeOfAnother
  <2> SUFFICES ASSUME Inv, HostInv, server = "up", boot # Nobody, Proven(target)
               PROVE  /\ boot = target.install /\ loaded = target.install => Status = "current"
                      /\ Status = "current" =>
                           /\ boot = target.install
                           /\ loaded = target.install \/ loaded \notin verified
    BY DEF NeverTheCodeOfAnother
  <2>1. /\ target \in Bundles /\ target # Absent /\ "manifest" \in target.parts
        /\ target.install \in verified
    BY DEF Inv, InstallTypes, Directory, Proven, Parts
  <2>2. Status = "current" <=>
          boot = target.install /\ made[target.install].declares = made[loaded].says
    BY <2>1 DEF Status, RuntimeStatus
  <2>3. made[target.install].says = made[target.install].declares
    BY <2>1 DEF HostInv, HostTypes
  <2>4. ASSUME boot = target.install, loaded # target.install, loaded \in verified PROVE FALSE
    BY <2>1, <2>4 DEF HostInv, Superseded, Gone
  <2> QED
    BY <2>2, <2>3, <2>4
<1> QED
  BY <1>1, <1>2, InvStep, HostStep, PTL DEF Spec

-----------------------------------------------------------------------------
(* The table of jobs.                                                      *)

JobTypes ==
  /\ jobs \in SUBSET [id : Nat, running : BOOLEAN, at : Nat]
  /\ IsFiniteSet(jobs) /\ Cardinality(jobs) <= Limit
  /\ started \in Nat /\ clock \in Nat
  /\ \A i \in jobs : i.id < started
  /\ \A i, j \in jobs : i.id = j.id => i = j

LEMMA LeastOf ==
  ASSUME NEW S \in SUBSET Nat, S # {}
  PROVE  \E m \in S : \A k \in S : m <= k
<1> DEFINE Less == {p \in Nat \X Nat : p[1] < p[2]}
<1>1. IsWellFoundedOn(Less, Nat)
  BY NatLessThanWellFounded DEF OpToRel
<1>2. PICK m \in S : \A k \in S : ~ (<<k, m>> \in Less)
  <2> HIDE DEF Less
  <2> QED
    BY <1>1, WFMin
<1>3. ASSUME NEW k \in S PROVE m <= k
  <2>1. <<k, m>> \notin Less /\ m \in Nat /\ k \in Nat
    BY <1>2
  <2> QED
    BY <2>1
<1> QED
  BY <1>3

\* Of the jobs that have ended, one is the oldest.
LEMMA OldestEnded ==
  ASSUME JobTypes, Ended # {}
  PROVE  \E i \in Ended : \A j \in Ended : ~Older(j, i)
<1>1. \A i \in Ended : i.at \in Nat /\ i.id \in Nat
  BY DEF JobTypes, Ended
<1> DEFINE Times == {i.at : i \in Ended}
<1>2. Times \in SUBSET Nat /\ Times # {}
  BY <1>1
<1> HIDE DEF Times
<1>3. PICK t \in Times : \A u \in Times : t <= u
  BY <1>2, LeastOf
<1> DEFINE Ids == {i.id : i \in {j \in Ended : j.at = t}}
<1>4. Ids \in SUBSET Nat /\ Ids # {}
  BY <1>1, <1>3 DEF Times
<1> HIDE DEF Ids
<1>5. PICK d \in Ids : \A e \in Ids : d <= e
  BY <1>4, LeastOf
<1>6. PICK i \in Ended : i.at = t /\ i.id = d
  BY <1>5 DEF Ids
<1>7. ASSUME NEW j \in Ended, Older(j, i) PROVE FALSE
  <2>1. j.at \in Times /\ (j.at = t => j.id \in Ids)
    BY DEF Times, Ids
  <2> QED
    BY <1>1, <1>3, <1>5, <1>6, <1>7, <2>1 DEF Older
<1> QED
  BY <1>7

\* What pruning drops: the oldest ended job, and only from a full table.
LEMMA EvictedIsOldest ==
  ASSUME JobTypes, NEW i \in Evicted
  PROVE  ~i.running /\ Cardinality(jobs) = Limit /\ \A j \in Ended : j.at >= i.at
<1> DEFINE Before == {j \in Ended : Older(j, i)}
<1>1. /\ i \in Ended /\ Cardinality(Before) < Cardinality(jobs) + 1 - Limit
      /\ Before \in SUBSET jobs
  BY DEF Evicted, Ended
<1> HIDE DEF Before
<1>2. IsFiniteSet(Before)
  BY <1>1, FS_Subset DEF JobTypes
<1>3. Cardinality(Before) \in Nat /\ Cardinality(jobs) \in Nat
  BY <1>2, FS_CardinalityType DEF JobTypes
<1>4. Cardinality(Before) = 0 /\ Cardinality(jobs) = Limit
  BY <1>1, <1>3, LimitAssumption DEF JobTypes
<1>5. Before = {}
  BY <1>2, <1>4, FS_EmptySet
<1>6. ASSUME NEW j \in Ended PROVE j.at >= i.at
  <2>1. ~Older(j, i) /\ j.at \in Nat /\ i.at \in Nat
    BY <1>1, <1>5 DEF Before, JobTypes, Ended
  <2> QED
    BY <2>1 DEF Older
<1> QED
  BY <1>1, <1>4, <1>6 DEF Ended

\* A full table from which nothing is dropped holds running jobs only.
LEMMA RefusalMeansBusy ==
  ASSUME JobTypes, Cardinality(Pruned) >= Limit
  PROVE  Pruned = jobs /\ \A job \in jobs : job.running
<1>1. Pruned \in SUBSET jobs
  BY DEF Pruned
<1>2. /\ Cardinality(Pruned) <= Cardinality(jobs)
      /\ Cardinality(jobs) = Cardinality(Pruned) => jobs = Pruned
      /\ IsFiniteSet(Pruned)
  BY <1>1, FS_Subset DEF JobTypes
<1>3. Cardinality(jobs) \in Nat /\ Cardinality(Pruned) \in Nat /\ Limit \in Nat
  BY <1>2, FS_CardinalityType, LimitAssumption DEF JobTypes
<1>4. Cardinality(jobs) = Limit /\ jobs = Pruned
  BY <1>2, <1>3 DEF JobTypes
<1>5. Ended = {}
  <2> SUFFICES ASSUME Ended # {} PROVE FALSE
    OBVIOUS
  <2>1. PICK i \in Ended : \A j \in Ended : ~Older(j, i)
    BY OldestEnded
  <2>2. Cardinality({j \in Ended : Older(j, i)}) = 0
    <3>1. {j \in Ended : Older(j, i)} = {}
      BY <2>1
    <3> QED
      BY <3>1, FS_EmptySet
  <2>3. i \in Evicted
    BY <1>3, <1>4, <2>2 DEF Evicted
  <2> QED
    BY <1>4, <2>3 DEF Pruned, Ended
<1> QED
  BY <1>4, <1>5 DEF Ended

\* start_graph and the end of a job keep the bound and the ids.
LEMMA StartJobStep == ASSUME JobTypes, StartJob PROVE JobTypes'
<1>1. Pruned \in SUBSET jobs
  BY DEF Pruned
<1>2. /\ IsFiniteSet(Pruned) /\ Cardinality(Pruned) \in Nat
      /\ Cardinality(Pruned) <= Cardinality(jobs)
  BY <1>1, FS_Subset, FS_CardinalityType DEF JobTypes
<1>3. /\ IsFiniteSet(Pruned \cup {Job(started)})
      /\ Cardinality(Pruned \cup {Job(started)}) \in {Cardinality(Pruned), Cardinality(Pruned) + 1}
  BY <1>2, FS_AddElement
<1>4. Job(started) \in [id : Nat, running : BOOLEAN, at : Nat] /\ Job(started).id = started
  BY DEF JobTypes, Job
<1>5. clock' = clock
  BY DEF StartJob
<1>6. \/ jobs' = Pruned /\ started' = started
      \/ jobs' = Pruned \cup {Job(started)} /\ started' = started + 1
  BY DEF StartJob
<1>7. IsFiniteSet(jobs') /\ Cardinality(jobs') <= Limit
  <2>1. CASE Cardinality(Pruned) >= Limit
    BY <1>2, <2>1, RefusalMeansBusy DEF StartJob, JobTypes
  <2>2. CASE ~(Cardinality(Pruned) >= Limit)
    <3>1. jobs' = Pruned \cup {Job(started)} /\ Cardinality(Pruned) + 1 <= Limit
      BY <1>2, <2>2, LimitAssumption DEF StartJob
    <3> QED
      BY <1>2, <1>3, <3>1, LimitAssumption
  <2> QED
    BY <2>1, <2>2
<1>8. \A i \in jobs' : i \in jobs \/ (i = Job(started) /\ started' = started + 1)
  BY <1>1, <1>6
<1>9. /\ jobs \in SUBSET [id : Nat, running : BOOLEAN, at : Nat] /\ started \in Nat
      /\ \A i \in jobs : i.id < started
      /\ \A i, j \in jobs : i.id = j.id => i = j
  BY DEF JobTypes
<1>10. /\ \A i \in jobs' : i.id < started'
       /\ \A i, j \in jobs' : i.id = j.id => i = j
       /\ jobs' \in SUBSET [id : Nat, running : BOOLEAN, at : Nat]
  BY <1>4, <1>6, <1>8, <1>9
<1> QED
  BY <1>5, <1>6, <1>7, <1>9, <1>10 DEF JobTypes

LEMMA EndJobStep == ASSUME JobTypes, EndJob PROVE JobTypes'
<1>1. PICK job \in jobs :
        jobs' = (jobs \ {job}) \cup {[job EXCEPT !.running = FALSE, !.at = clock]}
  BY DEF EndJob
<1> DEFINE ended == [job EXCEPT !.running = FALSE, !.at = clock]
<1>2. ended \in [id : Nat, running : BOOLEAN, at : Nat] /\ ended.id = job.id
  BY DEF JobTypes
<1> HIDE DEF ended
<1>3. IsFiniteSet(jobs \ {job}) /\ Cardinality(jobs \ {job}) = Cardinality(jobs) - 1
  BY FS_RemoveElement DEF JobTypes
<1>4. jobs' = (jobs \ {job}) \cup {ended}
  BY <1>1 DEF ended
<1>5. Cardinality(jobs) \in Nat /\ Limit \in Nat
  BY FS_CardinalityType, LimitAssumption DEF JobTypes
<1>6. IsFiniteSet(jobs') /\ Cardinality(jobs') <= Limit
  <2>1. /\ IsFiniteSet((jobs \ {job}) \cup {ended})
        /\ Cardinality((jobs \ {job}) \cup {ended})
             \in {Cardinality(jobs \ {job}), Cardinality(jobs \ {job}) + 1}
    BY <1>3, FS_AddElement
  <2> QED
    BY <1>3, <1>4, <1>5, <2>1 DEF JobTypes
<1>7. started' = started /\ clock' = clock
  BY DEF EndJob
<1>8. \A i \in jobs' : (i \in jobs /\ i # job) \/ i = ended
  BY <1>4
<1> QED
  BY <1>2, <1>6, <1>7, <1>8 DEF JobTypes

LEMMA JobStep == JobTypes /\ [Next]_vars => JobTypes'
<1> SUFFICES ASSUME JobTypes, [Next]_vars PROVE JobTypes'
  OBVIOUS
<1>1. CASE Stop
  <2>1. jobs' = {} /\ started' = 0 /\ clock' = 0
    BY <1>1 DEF Stop
  <2> QED
    BY <2>1, FS_EmptySet, LimitAssumption DEF JobTypes
<1>2. CASE Tick
  BY <1>2 DEF Tick, JobTypes
<1>3. CASE (Install /\ UNCHANGED <<host, table>>) \/ ReadConfiguration \/ StartFromSources
           \/ Launch \/ UNCHANGED vars
  BY <1>3 DEF ReadConfiguration, StartFromSources, Launch, vars, table, JobTypes
<1> QED
  BY <1>1, <1>2, <1>3, StartJobStep, EndJobStep DEF Next

\* A job that goes: nothing but start_graph makes room, and only as it should.
LEMMA DroppedIsOldest ==
  ASSUME JobTypes, [Next]_vars, server' = "up", NEW i \in jobs, \A j \in jobs' : j.id # i.id
  PROVE  /\ ~i.running /\ Cardinality(jobs) = Limit
         /\ \A j \in jobs' : ~j.running => j.at >= i.at
<1>1. CASE StartJob
  <2>1. \A j \in Pruned : j \in jobs'
    BY <1>1 DEF StartJob
  <2>2. i \in Evicted
    BY <2>1 DEF Pruned
  <2>3. \A j \in jobs' : ~j.running => j \in Ended
    BY <1>1 DEF StartJob, Pruned, Ended, Job
  <2> QED
    BY <2>2, <2>3, EvictedIsOldest
<1>2. CASE EndJob
  <2>1. PICK job \in jobs :
          jobs' = (jobs \ {job}) \cup {[job EXCEPT !.running = FALSE, !.at = clock]}
    BY <1>2 DEF EndJob
  <2>2. [job EXCEPT !.running = FALSE, !.at = clock].id = job.id
    BY DEF JobTypes
  <2> QED
    BY <2>1, <2>2
<1>3. CASE ~StartJob /\ ~EndJob
  <2>1. jobs' = jobs
    BY <1>3 DEF Next, ReadConfiguration, StartFromSources, Launch, Stop, Tick, vars, table
  <2> QED
    BY <2>1
<1> QED
  BY <1>1, <1>2, <1>3

\* pruneCompletedJobs, for any limit and any number of jobs: a running job is never
\* dropped, nothing is dropped while there is room, an ended job only after those
\* that ended before it; and a call that finds no room has dropped nothing.
THEOREM JobTableKept == Spec => JobsKept
<1>1. Init => JobTypes
  BY FS_EmptySet, LimitAssumption DEF Init, JobTypes
<1>2. JobTypes => (Cardinality(Pruned) >= Limit =>
                     Pruned = jobs /\ \A job \in jobs : job.running)
  BY RefusalMeansBusy
<1>3. JobTypes /\ [Next]_vars =>
        [server' = "up" =>
           \A i \in jobs :
             (\A j \in jobs' : j.id # i.id) =>
               /\ ~i.running /\ Cardinality(jobs) = Limit
               /\ \A j \in jobs' : ~j.running => j.at >= i.at]_vars
  BY DroppedIsOldest
<1> QED
  BY <1>1, <1>2, <1>3, JobStep, PTL DEF Spec, JobsKept
=============================================================================
