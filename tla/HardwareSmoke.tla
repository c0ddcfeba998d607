--------------------------- MODULE HardwareSmoke ---------------------------
(***************************************************************************)
(* The scripts that take a host from nothing to a kernel armed for one     *)
(* boot: hardware-reboot-smoke.py, its shell twin, and                     *)
(* build-reboot-candidate.sh.  Each is a fixed sequence of autokernel      *)
(* verbs that stops at the first one that fails, over a working directory  *)
(* that outlives it: the next run finds the trees, the final.config, the   *)
(* packages and the boot-test record that earlier ones left.               *)
(***************************************************************************)
EXTENDS Naturals, Sequences

CONSTANTS
  Versions,      \* kernel versions; the tree of one is linux-<version> in the cache
  MajorMinor,    \* [Versions -> Versions]: the version whose tree is named linux-<major>.<minor>
  NoVersion,
  NoFile,        \* a final.config that is not there
  GivenTrees,    \* versions whose trees the user has at first
  Options,       \* command lines of the scripts
  InitialDeps,   \* what the host may have installed at first
  Settings,      \* checks that only the user can make pass
  MaxBuilds,     \* bound: kernels linked
  MaxFaults      \* bound: commands that are interrupted or fail by themselves

\* What install-deps --for all asks of the package manager.  Packaging stands
\* for those whose absence the preflight only warns about (debhelper).
Requested == {"tools", "libs", "packaging", "qemu", "grub"}
Deps == Requested \cup {"virtme"}

\* How a kernel behaves in a VM without a root file system.
Guests == {"reaches_rootfs", "panics", "hangs"}

Drivers == {"smoke.py", "smoke.sh", "candidate"}

\* Only build-reboot-candidate.sh has a --keep-config.
ASSUME SmokeAssumption ==
  /\ MajorMinor \in [Versions -> Versions]
  /\ NoVersion \notin Versions
  /\ NoFile \notin Nat
  /\ GivenTrees \subseteq Versions
  /\ \A o \in Options : /\ o.driver \in Drivers
                        /\ o.version \in Versions
                        /\ o.deps \in BOOLEAN /\ o.install \in BOOLEAN
                        /\ o.stamp \in BOOLEAN /\ (o.driver # "candidate" => o.stamp)
                        /\ o.target \in {"auto", "kernel-only"}
                        /\ o.method \in {"qemu", "virtme"}
  /\ InitialDeps \subseteq SUBSET Deps
  /\ Settings \subseteq {"free_disk_space", "grub_default_saved"}
  /\ MaxBuilds \in Nat /\ MaxFaults \in Nat

VARIABLES
  at,       \* the step of the script that runs; 0 when none does
  run,      \* its options, tree and packages, and how many builds were there before its own
  deps,     \* what is installed on the host
  blocked,  \* checks of Settings that fail
  scanned,  \* whether the snapshot directory has a manifest
  final,    \* final.config: its CONFIG_LOCALVERSION, 0 the one of the running kernel
  trees,    \* the kernel cache: what each tree holds
  recent,   \* the tree whose directory was written last
  builds,   \* history: the kernels linked, in order
  record,   \* boot-test.json: the build it is about, and its verdict
  armed,    \* the packages last installed with a one-shot entry
  faults    \* how many faults there were

smokeVars == <<at, run, deps, blocked, scanned, final, trees, recent, builds, record, armed, faults>>

-----------------------------------------------------------------------------
(* Preflight: the checks that can FAIL on such a host.  The others only    *)
(* warn, or hold or fail for good.                                         *)

check_build_tools == "tools" \in deps

\* A package query that fails counts as everything installed.
check_kernel_dev_libs(probed) == probed => "libs" \in deps

check_free_disk_space == "free_disk_space" \notin blocked
check_grub_default_saved == "grub_default_saved" \notin blocked
check_grub_tools == "grub" \in deps
check_boot_test_record(snapshot) == snapshot /\ record.build # 0 => record.ok
check_boot_test_runtime_available == deps \cap {"qemu", "virtme"} # {}

virtme_root_transport_available(source) == trees[source].config # "bare"
check_virtme_config_support(source) ==
  source # NoVersion =>
    virtme_root_transport_available(source) \/ "qemu" \in deps

\* Mutant: every check runs, whatever the script is about to do.
TagsIgnored(for) == {"build", "install", "boot-test"}

Tags(for) == IF for = "all" THEN {"build", "install", "boot-test"} ELSE {for}

run_checks(for, snapshot, source, probed) ==
  /\ ("build" \in Tags(for) => /\ check_build_tools
                               /\ check_kernel_dev_libs(probed)
                               /\ check_free_disk_space)
  /\ ("install" \in Tags(for) => /\ check_boot_test_record(snapshot)
                                 /\ check_grub_tools
                                 /\ check_grub_default_saved)
  /\ ("boot-test" \in Tags(for) => /\ check_boot_test_runtime_available
                                   /\ check_virtme_config_support(source))

-----------------------------------------------------------------------------
(* Choosing a tree and packages.                                           *)

HasMakefile(v) == trees[v].files # "none"

\* hardware-reboot-smoke.py: a tree named linux-<major>.<minor>, or else the
\* one written last; unpacking to the end gives a tree the date of its archive.
find_kernel_source(v) ==
  LET candidates == {w \in Versions : HasMakefile(w)}
  IN  IF MajorMinor[v] \in candidates THEN {MajorMinor[v]}
      ELSE IF recent \in candidates THEN {recent}
      ELSE candidates

\* The shell script: the tree of the release first.
resolve_source_dir(v) == IF HasMakefile(v) THEN {v} ELSE {w \in Versions : HasMakefile(w)}

Release(i) == <<builds[i].version, builds[i].localversion>>

\* The Python script: every package of the release in the cache.
find_packages(built) ==
  {i \in DOMAIN builds : builds[i].packaged /\ Release(i) = Release(built)}

\* Mutant: packages of any age.
FindAllPackages(marker) == {i \in DOMAIN builds : builds[i].packaged}

\* The shell scripts: packages newer than a file made before the build.
find_built_packages(marker) == {i \in DOMAIN builds : builds[i].packaged /\ i > marker}

-----------------------------------------------------------------------------
(* The sequence of a script.                                               *)

Smoke == <<"preflight", "deps", "scan", "preflight_snapshot", "fetch", "configure",
           "stamp", "build", "boot_test", "report", "install">>

\* Mutant: checked first, as the smoke scripts do.
CandidateChecksFirst ==
  <<"preflight_build", "deps", "scan", "find_config", "preflight_boot_test",
    "stamp", "build", "boot_test", "report", "preflight_install", "install">>

Candidate == <<"deps", "scan", "find_config", "preflight_build", "preflight_boot_test",
               "stamp", "build", "boot_test", "report", "preflight_install", "install">>

Script(driver) == IF driver = "candidate" THEN Candidate ELSE Smoke

\* No script runs.
Idle == [driver |-> "none"]

At(step) == at # 0 /\ Script(run.driver)[at] = step
Advance == at' = at + 1 /\ UNCHANGED run
Stop == at' = 0 /\ run' = Idle

SmokeInit ==
  /\ at = 0
  /\ run = Idle
  /\ deps \in InitialDeps
  /\ blocked \in SUBSET Settings
  /\ scanned = FALSE
  /\ final = NoFile
  /\ trees = [v \in Versions |-> [files  |-> IF v \in GivenTrees THEN "whole" ELSE "none",
                                  config |-> "none",
                                  linked |-> 0]]
  /\ recent = NoVersion
  /\ builds = << >>
  /\ record = [build |-> 0, ok |-> FALSE]
  /\ armed = {}
  /\ faults = 0

\* A user starts a script.  build-reboot-candidate.sh is given a tree, and
\* stops at once without one.
Start(o) ==
  /\ at = 0
  /\ (o.driver = "candidate" => HasMakefile(o.version))
  /\ at' = 1
  /\ run' = [driver |-> o.driver, version |-> o.version, deps |-> o.deps,
             install |-> o.install, stamp |-> o.stamp, target |-> o.target,
             method |-> o.method, marker |-> Len(builds), packages |-> {},
             source |-> IF o.driver = "candidate" THEN o.version ELSE NoVersion]
  /\ UNCHANGED <<deps, blocked, scanned, final, trees, recent, builds, record, armed, faults>>

\* preflight --for ...; a FAIL ends the script.
Preflight(step, for, snapshot, source) ==
  /\ At(step)
  /\ \E probed \in BOOLEAN :
       IF run_checks(for, snapshot, source, probed) THEN Advance ELSE Stop
  /\ UNCHANGED <<deps, blocked, scanned, final, trees, recent, builds, record, armed, faults>>

Preflights ==
  \/ Preflight("preflight", "all", FALSE, NoVersion)
  \/ Preflight("preflight_snapshot", "all", TRUE, NoVersion)
  \/ Preflight("preflight_build", "build", TRUE, NoVersion)
  \/ Preflight("preflight_boot_test", "boot-test", TRUE, run.source)
  \/ Preflight("preflight_install", "install", TRUE, NoVersion)

\* install-deps --execute, unless --no-deps: what is missing, then virtme-ng.
InstallDeps ==
  /\ At("deps")
  /\ deps' = IF run.deps THEN deps \cup Requested \cup {"virtme"} ELSE deps
  /\ Advance
  /\ UNCHANGED <<blocked, scanned, final, trees, recent, builds, record, armed, faults>>

\* The package manager gives up half-way, or virtme-ng cannot be installed:
\* it is only tried when the packages are in.
InstallDepsFails ==
  /\ At("deps") /\ run.deps
  /\ \E more \in SUBSET (Requested \ deps) : deps' = deps \cup more
  /\ Stop
  /\ faults' = faults + 1
  /\ UNCHANGED <<blocked, scanned, final, trees, recent, builds, record, armed>>

\* scan; build-reboot-candidate.sh does it only when there is no manifest.
Scan ==
  /\ At("scan")
  /\ scanned' = TRUE
  /\ Advance
  /\ UNCHANGED <<deps, blocked, final, trees, recent, builds, record, armed, faults>>

\* build-reboot-candidate.sh needs a final.config and makes none.
FindConfig ==
  /\ At("find_config")
  /\ IF final = NoFile THEN Stop ELSE Advance
  /\ UNCHANGED <<deps, blocked, scanned, final, trees, recent, builds, record, armed, faults>>

\* fetch-source --method tarball: a directory with a Makefile is taken as it is.
Fetch ==
  /\ At("fetch")
  /\ trees' = IF HasMakefile(run.version) THEN trees
              ELSE [trees EXCEPT ![run.version].files = "whole"]
  /\ Advance
  /\ UNCHANGED <<deps, blocked, scanned, final, recent, builds, record, armed, faults>>

\* The download or the unpacking is interrupted: the Makefile may be there,
\* and what comes after it may not.
FetchFails ==
  /\ At("fetch") /\ ~HasMakefile(run.version)
  /\ \/ trees' = [trees EXCEPT ![run.version].files = "partial"] /\ recent' = run.version
     \/ UNCHANGED <<trees, recent>>
  /\ Stop
  /\ faults' = faults + 1
  /\ UNCHANGED <<deps, blocked, scanned, final, builds, record, armed>>

\* The tree is located, then propose, review and apply (ConfigPipeline)
\* leave a final.config with the running kernel's CONFIG_LOCALVERSION.
Configure ==
  /\ At("configure")
  /\ \E source \in IF run.driver = "smoke.py" THEN find_kernel_source(run.version)
                   ELSE resolve_source_dir(run.version) :
       run' = [run EXCEPT !.source = source]
  /\ final' = 0
  /\ at' = at + 1
  /\ UNCHANGED <<deps, blocked, scanned, trees, recent, builds, record, armed, faults>>

\* CONFIG_LOCALVERSION of this run, by default its time in minutes; with
\* --localversion or AUTOKERNEL_HW_LOCALVERSION, or within the minute, one that
\* earlier kernels have too.  --keep-config leaves final.config alone.
SetConfigString ==
  /\ At("stamp")
  /\ final' \in IF run.stamp THEN 1..(Len(builds) + 1) ELSE {final}
  /\ Advance
  /\ UNCHANGED <<deps, blocked, scanned, trees, recent, builds, record, armed, faults>>

-----------------------------------------------------------------------------
(* Build, boot test, install.                                              *)

Needed == {"tools", "libs"} \cup IF run.target = "auto" THEN {"packaging"} ELSE {}

\* The configuration in the tree becomes that of the build; it may or may
\* not have what virtme needs to mount the host's root.
Link(packaged, guest, config) ==
  /\ Len(builds) < MaxBuilds
  /\ builds' = Append(builds, [version |-> run.source, localversion |-> final,
                               packaged |-> packaged, guest |-> guest])
  /\ trees' = [trees EXCEPT ![run.source].linked = Len(builds) + 1,
                            ![run.source].config = config]
  /\ recent' = run.source

\* build --localmodconfig --execute.
Build ==
  /\ At("build")
  /\ trees[run.source].files = "whole"
  /\ Needed \subseteq deps
  /\ \E guest \in Guests, config \in {"virtio", "bare"} : Link(run.target = "auto", guest, config)
  /\ Advance
  /\ UNCHANGED <<deps, blocked, scanned, final, record, armed, faults>>

\* Without what make needs, or with half a tree, there is no kernel.  The
\* bound on builds counts as such a failure too.
BuildCannot ==
  /\ At("build")
  /\ \/ trees[run.source].files # "whole"
     \/ ~(Needed \subseteq deps)
     \/ Len(builds) = MaxBuilds
  /\ recent' = run.source
  /\ Stop
  /\ UNCHANGED <<deps, blocked, scanned, final, trees, builds, record, armed, faults>>

\* make fails or the run is interrupted after the kernel was linked and before
\* it was packaged: the tree has a new bzImage and the release file names it.
BuildFails ==
  /\ At("build")
  /\ trees[run.source].files = "whole"
  /\ \E guest \in Guests, config \in {"virtio", "bare"} : Link(FALSE, guest, config)
  /\ Stop
  /\ faults' = faults + 1
  /\ UNCHANGED <<deps, blocked, scanned, final, record, armed>>

\* The verdict on what the serial console shows within the time limit.  With
\* QEMU any text with the kernel's banner and no panic passes.
analyze_serial(guest) ==
  IF run.method = "qemu"
  THEN "qemu" \in deps /\ guest \in {"reaches_rootfs", "hangs"}
  ELSE "virtme" \in deps /\ guest = "reaches_rootfs"

\* boot-test: the record is written before a failed verdict ends the script.
\* virtme without its transport is refused before anything boots.
BootTest ==
  /\ At("boot_test")
  /\ LET built == trees[run.source].linked
         ok    == analyze_serial(builds[built].guest)
     IN  IF run.method = "virtme" /\ ~virtme_root_transport_available(run.source)
         THEN Stop /\ UNCHANGED record
         ELSE /\ record' = [build |-> built, ok |-> ok]
              /\ IF ok THEN Advance ELSE Stop
  /\ UNCHANGED <<deps, blocked, scanned, final, trees, recent, builds, armed, faults>>

\* Which packages the rest of the script is about.
Report ==
  /\ At("report")
  /\ LET packages == IF run.driver = "smoke.py"
                     THEN find_packages(trees[run.source].linked)
                     ELSE find_built_packages(run.marker)
     IN  IF run.driver = "candidate" /\ packages = {} THEN Stop
         ELSE at' = at + 1 /\ run' = [run EXCEPT !.packages = packages]
  /\ UNCHANGED <<deps, blocked, scanned, final, trees, recent, builds, record, armed, faults>>

\* install --execute behind its boot-test gate, when asked for and confirmed.
Install ==
  /\ At("install")
  /\ IF run.install /\ run.packages # {} /\ record.build # 0 /\ record.ok
     THEN armed' = run.packages \/ UNCHANGED armed
     ELSE UNCHANGED armed
  /\ Stop
  /\ UNCHANGED <<deps, blocked, scanned, final, trees, recent, builds, record, faults>>

\* Any command can be interrupted, or fail by itself, and leave nothing behind.
CommandFails ==
  /\ at # 0
  /\ Stop
  /\ faults' = faults + 1
  /\ UNCHANGED <<deps, blocked, scanned, final, trees, recent, builds, record, armed>>

\* The user sets GRUB_DEFAULT=saved, or makes room.
Settle(c) ==
  /\ c \in blocked
  /\ blocked' = blocked \ {c}
  /\ UNCHANGED <<at, run, deps, scanned, final, trees, recent, builds, record, armed, faults>>

Step ==
  \/ Preflights \/ InstallDeps \/ Scan \/ FindConfig \/ Fetch \/ Configure \/ SetConfigString
  \/ Build \/ BuildCannot \/ BootTest \/ Report \/ Install

Fault ==
  /\ faults < MaxFaults
  /\ InstallDepsFails \/ FetchFails \/ BuildFails \/ CommandFails

SmokeNext ==
  \/ \E o \in Options : Start(o)
  \/ Step
  \/ Fault
  \/ \E c \in Settings : Settle(c)

\* Commands end, the user does what a check asks for, and goes on trying each
\* of the command lines; faults are finitely many.
Fairness ==
  /\ WF_smokeVars(Step)
  /\ \A c \in Settings : WF_smokeVars(Settle(c))
  /\ \A o \in Options : SF_smokeVars(Start(o))

SmokeSpec == SmokeInit /\ [][SmokeNext]_smokeVars /\ Fairness

-----------------------------------------------------------------------------
(* Properties                                                              *)

\* What a script holds of the host, the trees and the record is what its
\* steps put there.
SmokeTypeOK ==
  /\ at \in 0..Len(Smoke)
  /\ deps \subseteq Deps /\ blocked \subseteq Settings
  /\ scanned \in BOOLEAN
  /\ (final # NoFile => final \in 0..(MaxBuilds + 1))
  /\ trees \in [Versions -> [files : {"none", "partial", "whole"},
                             config : {"none", "virtio", "bare"}, linked : 0..MaxBuilds]]
  /\ recent \in Versions \cup {NoVersion}
  /\ record \in [build : 0..Len(builds), ok : BOOLEAN]
  /\ armed \subseteq DOMAIN builds
  /\ faults \in 0..MaxFaults

\* A script hands the installer packages of the release that this run of it
\* linked and that the boot test passed, not one of another release in the
\* same cache, nor on the verdict on an earlier build (packages and record
\* outlive the runs that made them).  It is that kernel's own package alone,
\* unless the Python script was given the localversion of an earlier build.
InstallsWhatItTested ==
  [][armed' # armed =>
       LET built == trees[run.source].linked
       IN  /\ built > run.marker
           /\ record = [build |-> built, ok |-> TRUE]
           /\ \A i \in armed' : Release(i) = Release(built)
           /\ \/ armed' = {built}
              \/ /\ run.driver = "smoke.py"
                 /\ \E i \in 1..run.marker : Release(i) = Release(built)]_smokeVars

\* Only the package of the tested kernel.  It does not hold: with a repeated
\* localversion _find_packages finds the earlier packages too, and with
\* --target kernel-only nothing but these: README.
InstallsNothingElse == [][armed' # armed => armed' = {trees[run.source].linked}]_smokeVars

\* A host that lacks packages gets them from build-reboot-candidate.sh, which
\* installs before it checks: once there is a tree to give it, running it
\* without --no-deps again and again ends with all install-deps asks for.
CandidateInstallsDeps ==
  \A o \in Options :
    o.driver = "candidate" /\ o.deps => (HasMakefile(o.version) ~> Requested \subseteq deps)

\* The same of all scripts.  It does not hold: the smoke scripts run the
\* preflight first, which a bare host never passes: README.
MissingDepsAreInstalled == <>[](Requested \subseteq deps)

\* A kernel that failed its boot test does not end the story: another one is
\* built in the same working directory (the failed record stays there until
\* a new test overwrites it).
FailedTestIsNotFinal ==
  \A n \in 1..MaxBuilds :
    (record = [build |-> n, ok |-> FALSE]) ~> (record.build # n \/ Len(builds) = MaxBuilds)

\* A verdict of PASS says that the kernel got as far as looking for its root
\* file system.  It does not hold of a QEMU test: README.
PassMeansReachedRootfs == record.ok => builds[record.build].guest = "reaches_rootfs"

=============================================================================
