-------------------------- MODULE MCHardwareSmoke --------------------------
(* Instances of HardwareSmoke: two versions of one series, so that the     *)
(* tree of the first is the linux-<major>.<minor> of both.                 *)
EXTENDS HardwareSmoke

CONSTANTS v12, v125

MCMajorMinor == [v \in {v12, v125} |-> v12]

Line(driver, version, withDeps, install, stamp, target, method) ==
  [driver |-> driver, version |-> version, deps |-> withDeps, install |-> install,
   stamp |-> stamp, target |-> target, method |-> method]

MCOptions == {
  Line("smoke.py", v125, FALSE, TRUE, TRUE, "auto", "qemu"),
  Line("smoke.sh", v12, TRUE, TRUE, TRUE, "kernel-only", "virtme"),
  Line("candidate", v125, TRUE, TRUE, FALSE, "auto", "qemu")}

MCInitialDeps == {Deps \ {"virtme"}, {"tools", "libs", "grub", "virtme"}, {"grub", "qemu"}}
=============================================================================
