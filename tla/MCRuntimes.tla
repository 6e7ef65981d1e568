----------------------------- MODULE MCRuntimes -------------------------------
(***************************************************************************)
(* The sessions of the VM, and the protocols around the VM and its Runtimes*)
(* that these models leave without shared state, in one state space: a     *)
(* behaviour follows one of them, the others stay in their first states.   *)
(***************************************************************************)
EXTENDS MCVmRuntime, TestSession, PortableApp, StudioLaunch, UefiRecovery, VersionCache

VARIABLE part

RuntimesInit ==
  /\ part \in {"vm", "test", "portable", "build", "launch", "uefi", "versions"}
  /\ Init /\ TestInit /\ PortableInit /\ BuildInit /\ LaunchInit /\ UefiInit /\ VersionInit
  /\ (part # "test" => policy = "keep") /\ (part # "versions" => disk = {})

RuntimesNext ==
  /\ UNCHANGED part
  /\ \/ /\ part = "vm"
        /\ UNCHANGED <<testVars, portableVars, buildVars, launchVars, uefiVars, versionVars>>
        /\ Next
     \/ /\ part = "test"
        /\ UNCHANGED <<vars, portableVars, buildVars, launchVars, uefiVars, versionVars>>
        /\ TestNext
     \/ /\ part = "portable"
        /\ UNCHANGED <<vars, testVars, buildVars, launchVars, uefiVars, versionVars>>
        /\ PortableNext
     \/ /\ part = "build"
        /\ UNCHANGED <<vars, testVars, portableVars, launchVars, uefiVars, versionVars>>
        /\ BuildNext
     \/ /\ part = "launch"
        /\ UNCHANGED <<vars, testVars, portableVars, buildVars, uefiVars, versionVars>>
        /\ LaunchNext
     \/ /\ part = "uefi"
        /\ UNCHANGED <<vars, testVars, portableVars, buildVars, launchVars, versionVars>>
        /\ UefiNext
     \/ /\ part = "versions"
        /\ UNCHANGED <<vars, testVars, portableVars, buildVars, launchVars, uefiVars>>
        /\ VersionNext

runtimesVars == <<part, vars, testVars, portableVars, buildVars, launchVars, uefiVars,
                  versionVars>>

RuntimesSpec == RuntimesInit /\ [][RuntimesNext]_runtimesVars

\* The variables of a behaviour that are not those of its part stay what they are.
RuntimesView ==
  CASE part = "vm" -> vars
    [] part = "test" -> testVars
    [] part = "portable" -> portableVars
    [] part = "build" -> buildVars
    [] part = "launch" -> launchVars
    [] part = "uefi" -> uefiVars
    [] part = "versions" -> versionVars
MCView == <<part, RuntimesView>>

\* The types of all of them, each where its part may have moved.
RuntimesTypeOK ==
  /\ part = "vm" => TypeOK
  /\ part = "test" => TestTypeOK
  /\ part = "portable" => PortableTypeOK
  /\ part = "build" => BuildTypeOK
  /\ part = "launch" => LaunchTypeOK
  /\ part = "uefi" => UefiTypeOK
  /\ part = "versions" => VersionTypeOK
=============================================================================
