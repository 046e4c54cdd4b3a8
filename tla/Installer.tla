------------------------------- MODULE Installer -------------------------------
(***************************************************************************)
(* Installers (scripts/install.mjs) that replace the plugin bundle of one    *)
(* target directory: a lock file, a staged copy, a swap by two renames       *)
(* (scripts/install-lib.mjs) and a verification that launches the installed  *)
(* servers (scripts/verify-install.mjs).  An installer may die at any step,  *)
(* and the file system may refuse any rename or removal.                     *)
(*                                                                         *)
(* Abstracted: a bundle is named by the installer that built it; its install  *)
(* id is that name.  Two builds may have the same version, and a build that    *)
(* is refused may be of any version.  Global npm packages are not modelled.  *)
(***************************************************************************)
EXTENDS Naturals, FiniteSets

CONSTANTS Installers, Shipped, \* the builds; Shipped is the one installed at first
          Versions,
          Absent, Nobody,      \* no directory; nobody's lock file or install id
          MaxCrashes, MaxRefusals

Builds == Installers \cup {Shipped}

\* What a directory holds; a removal takes them in any order.
Parts == {"config", "manifest", "runtime"}

Bundles == [install : Builds, parts : SUBSET Parts]

ASSUME BuildAssumption ==
  Shipped \notin Installers /\ Nobody \notin Builds /\ Absent \notin Bundles

\* The version the manifest takes from package.json, and the one the code says it is.
Makes == [declares : Versions, says : Versions]

VARIABLES
  made,       \* what each build is; it never changes
  target,     \* the bundle in the plugin directory
  staged,     \* ${target}.installing-<pid> of each installer
  backup,     \* ${target}.backup-<uuid> of each installer
  lock,       \* who created ${target}.install.lock
  step,       \* where each installer is
  verified,   \* the builds whose verification has ended well
  crashes, refusals

local == <<staged, backup, step>>
disk == <<target, staged, backup, lock>>
installVars == <<made, disk, step, verified, crashes, refusals>>

\* The bundle main() assembles, from the build with its install id and manifest.
Bundle(i) == [install |-> i, parts |-> Parts]

Working == {"staging", "swapping", "backedUp", "verifying", "removing", "restoring",
            "discarding", "cleaning", "releasing"}

Goto(i, place) == step' = [step EXCEPT ![i] = place]

\* rename or rm throws.
Refused(i, place) ==
  /\ refusals < MaxRefusals /\ refusals' = refusals + 1
  /\ Goto(i, place)
  /\ UNCHANGED disk

-----------------------------------------------------------------------------
\* withInstallLock: the lock file must not exist.
Acquire(i) ==
  /\ step[i] = "idle"
  /\ IF lock = Nobody THEN lock' = i /\ Goto(i, "staging")
                      ELSE UNCHANGED lock /\ Goto(i, "ended")
  /\ UNCHANGED <<target, staged, backup, verified, crashes, refusals>>

\* Build, copy, manifest and configurations; the build may fail.
Stage(i) ==
  /\ step[i] = "staging"
  /\ \/ staged' = [staged EXCEPT ![i] = Bundle(i)] /\ Goto(i, "swapping")
     \/ Goto(i, "cleaning") /\ UNCHANGED staged
  /\ UNCHANGED <<target, backup, lock, verified, crashes, refusals>>

\* atomicReplaceDirectory: what is there is put aside.
BackUp(i) ==
  /\ step[i] = "swapping"
  /\ \/ /\ backup' = [backup EXCEPT ![i] = target] /\ target' = Absent
        /\ Goto(i, "backedUp")
        /\ UNCHANGED <<staged, lock, refusals>>
     \/ target # Absent /\ Refused(i, "restoring")
  /\ UNCHANGED <<verified, crashes>>

\* The second rename: until it is done, the target does not exist.
Activate(i) ==
  /\ step[i] = "backedUp"
  /\ \/ /\ target' = staged[i] /\ staged' = [staged EXCEPT ![i] = Absent]
        /\ Goto(i, "verifying")
        /\ UNCHANGED <<backup, lock, refusals>>
     \/ Refused(i, "restoring")
  /\ UNCHANGED <<verified, crashes>>

\* Mutant of RuntimeStatus: the version alone decides.
RuntimeStatusByVersion(boot, hasPath, version, active) ==
  CASE boot = Nobody /\ ~hasPath -> "unmanaged"
    [] boot = Nobody \/ ~hasPath -> "invalid_manifest"
    [] active = Absent -> "invalid_manifest"
    [] "manifest" \notin active.parts -> "invalid_manifest"
    [] made[active.install].declares # version -> "reload_required"
    [] OTHER -> "current"

\* getRuntimeInfo of a process that was booted with an install id and a path, or
\* with neither, or only one of them; "version" is what its code says it is.
RuntimeStatus(boot, hasPath, version, active) ==
  CASE boot = Nobody /\ ~hasPath -> "unmanaged"
    [] boot = Nobody \/ ~hasPath -> "invalid_manifest"
    [] active = Absent -> "invalid_manifest"
    [] "manifest" \notin active.parts -> "invalid_manifest"
    [] active.install # boot \/ made[active.install].declares # version -> "reload_required"
    [] OTHER -> "current"

\* verify-install.mjs: the manifest and the configuration are read, both servers
\* are launched as configured, and have to list their tools and report themselves
\* as current, at the version the manifest declares.
Verifies(b) ==
  /\ b.parts = Parts
  /\ RuntimeStatus(b.install, TRUE, made[b.install].says, b) = "current"

\* Any other fault of the build, and servers that do not answer in five seconds, make
\* the verification fail as well.
Verify(i) ==
  /\ step[i] = "verifying"
  /\ \/ /\ Verifies(target)
        /\ verified' = verified \cup {target.install}
        /\ Goto(i, IF backup[i] # Absent THEN "discarding" ELSE "cleaning")
     \/ Goto(i, "removing") /\ UNCHANGED verified
  /\ UNCHANGED <<disk, crashes, refusals>>

\* rm -r takes one part after the other, and the directory last.
Removed(b, part) ==
  IF b.parts \subseteq {part} THEN Absent ELSE [b EXCEPT !.parts = @ \ {part}]

\* The catch: what was activated is removed...
RemoveTarget(i) ==
  /\ step[i] = "removing"
  /\ \/ /\ target # Absent
        /\ \E part \in target.parts : target' = Removed(target, part)
        /\ UNCHANGED <<staged, backup, lock, step, refusals>>
     \/ target = Absent /\ Goto(i, "restoring") /\ UNCHANGED <<disk, refusals>>
     \/ target # Absent /\ Refused(i, "cleaning")
  /\ UNCHANGED <<verified, crashes>>

\* Mutant of Restore: only the failed bundle is taken away.
RestoreNothing(i) ==
  /\ step[i] = "restoring"
  /\ Goto(i, "cleaning")
  /\ UNCHANGED <<disk, verified, crashes, refusals>>

\* ... and what was put aside comes back.
Restore(i) ==
  /\ step[i] = "restoring"
  /\ \/ /\ backup[i] # Absent
        /\ target' = backup[i] /\ backup' = [backup EXCEPT ![i] = Absent]
        /\ Goto(i, "cleaning") /\ UNCHANGED <<staged, lock, refusals>>
     \/ backup[i] = Absent /\ Goto(i, "cleaning") /\ UNCHANGED <<disk, refusals>>
     \/ backup[i] # Absent /\ Refused(i, "cleaning")
  /\ UNCHANGED <<verified, crashes>>

\* The previous bundle goes once the new one is verified.
Discard(i) ==
  /\ step[i] = "discarding"
  /\ \/ /\ backup[i] # Absent
        /\ \E part \in backup[i].parts :
             backup' = [backup EXCEPT ![i] = Removed(backup[i], part)]
        /\ UNCHANGED <<target, staged, lock, step, refusals>>
     \/ backup[i] = Absent /\ Goto(i, "cleaning") /\ UNCHANGED <<disk, refusals>>
     \/ backup[i] # Absent /\ Refused(i, "cleaning")
  /\ UNCHANGED <<verified, crashes>>

\* The finally of main(): the staged copy goes...
Clean(i) ==
  /\ step[i] = "cleaning"
  /\ \/ /\ staged' = [staged EXCEPT ![i] = Absent]
        /\ Goto(i, "releasing") /\ UNCHANGED <<target, backup, lock, refusals>>
     \/ staged[i] # Absent /\ Refused(i, "releasing")
  /\ UNCHANGED <<verified, crashes>>

\* ... and that of withInstallLock: the lock file goes.
Release(i) ==
  /\ step[i] = "releasing"
  /\ \/ lock' = Nobody /\ Goto(i, "ended") /\ UNCHANGED <<target, staged, backup, refusals>>
     \/ Refused(i, "ended")
  /\ UNCHANGED <<verified, crashes>>

\* The process dies; its lock file, its staged copy and its backup stay.
Crash(i) ==
  /\ crashes < MaxCrashes /\ step[i] \in Working
  /\ crashes' = crashes + 1
  /\ Goto(i, "ended")
  /\ UNCHANGED <<disk, verified, refusals>>

\* "Verify no installer is running before removing a stale lock": the operator does.
RemoveStaleLock ==
  /\ lock # Nobody /\ \A i \in Installers : step[i] \notin Working
  /\ lock' = Nobody
  /\ UNCHANGED <<target, staged, backup, step, verified, crashes, refusals>>

-----------------------------------------------------------------------------
InstallInit ==
  /\ made \in [Builds -> Makes]
  /\ made[Shipped].says = made[Shipped].declares
  /\ target = Bundle(Shipped)
  /\ staged = [i \in Installers |-> Absent]
  /\ backup = [i \in Installers |-> Absent]
  /\ lock = Nobody
  /\ step = [i \in Installers |-> "idle"]
  /\ verified = {Shipped}
  /\ crashes = 0 /\ refusals = 0

Install ==
  /\ UNCHANGED made
  /\ \/ \E i \in Installers :
          \/ Acquire(i) \/ Stage(i) \/ BackUp(i) \/ Activate(i) \/ Verify(i)
          \/ RemoveTarget(i) \/ Restore(i) \/ Discard(i) \/ Clean(i) \/ Release(i)
          \/ Crash(i)
     \/ RemoveStaleLock

-----------------------------------------------------------------------------
(* Properties.                                                             *)

\* A bundle that works: complete, and once launched and identity-checked.
Proven(b) == b # Absent /\ b.parts = Parts /\ b.install \in verified

\* "Activation is transactional": a working bundle is on the disk at every instant,
\* in the target or put aside, whichever step dies or is refused; and when no
\* installer is at work and nothing died or was refused, it is in the target.
ActivationIsTransactional ==
  /\ Proven(target) \/ \E i \in Installers : Proven(backup[i])
  /\ lock = Nobody /\ crashes = 0 /\ refusals = 0 => Proven(target)
=============================================================================
