---------------------------- MODULE ServerActions ----------------------------
(* The registry of server-maintenance actions kept by the root helper
   (scripts/server-maintenance-helper.py), for one action of one module.

   A package version declares the action "plain", "protected" or not at all
   ("none").  The executable lives in the module's own folder below the Core
   action root, so a version is also what the bytes at that path are.      *)
EXTENDS Naturals

CONSTANTS
  Packages,     \* the versions of the module's package: a set of positive numbers
  Declares      \* Declares[v]: how package v declares the action

ASSUME ServerActionsConstants ==
  /\ Packages \subseteq Nat \ {0}
  /\ Declares \in [Packages -> {"plain", "protected", "none"}]

VARIABLES
  installed,    \* the package version in the module folder, 0 when there is none
  entry,        \* the action's file in the registry
  bytes,        \* the version of the executable in the action root, 0 when absent
  registrar     \* the root module job's next step; "idle" when the last one finished,
                \* "died" when it did not

actionVars == <<installed, entry, bytes, registrar>>

NoEntry == [by |-> "none", version |-> 0, enabled |-> FALSE]
Entries == [by : {"none", "hand", "manifest"}, version : Packages \cup {0}, enabled : BOOLEAN]

InitActions ==
  /\ installed = 0
  /\ entry = NoEntry
  /\ bytes = 0
  /\ registrar = "idle"

---------------------------------------------------------------------------
(* What reads the registry. *)

\* The SHA-256 recorded at registration against the bytes now at the path.
verify_registered_executable_hash(e) == e.by = "manifest" => bytes = e.version

\* The executable exists below the action root.
validate_executable == bytes # 0

\* Mutant: whatever has a file in the registry can be used.
LoadPresent == entry.by # "none"

\* The registered action can be used: present, enabled, executable there and unchanged.
load_registered_action ==
  /\ entry.by # "none"
  /\ entry.enabled
  /\ validate_executable
  /\ verify_registered_executable_hash(entry)

\* Core's own reading of the registry when a job is started: no look at the executable.
read_action == entry.by # "none" /\ entry.enabled

---------------------------------------------------------------------------
(* What the root module job does: files first, then --register-module or
   --unregister-module, each a sequence of separate file operations.       *)

Between == registrar \in {"idle", "died"}

InstallModule(v) ==
  /\ Between
  /\ installed' = v
  /\ registrar' = "register"
  /\ UNCHANGED <<entry, bytes>>

RemoveModule ==
  /\ Between
  /\ installed # 0
  /\ installed' = 0
  /\ registrar' = "unregister"
  /\ UNCHANGED <<entry, bytes>>

\* Mutant: everything the package declares is staged.
StagedDeclared == Declares[installed] # "none"
Staged == Declares[installed] = "plain"

RegisterCopy ==
  /\ registrar = "register"
  /\ bytes' = IF Staged THEN installed ELSE bytes
  /\ registrar' = "write"
  /\ UNCHANGED <<installed, entry>>

RegisterWrite ==
  /\ registrar = "write"
  /\ entry' = IF Staged THEN [by |-> "manifest", version |-> installed, enabled |-> TRUE] ELSE entry
  /\ registrar' = "sweep"
  /\ UNCHANGED <<installed, bytes>>

\* Mutant: only the files are swept.
RegisterSweepFiles ==
  /\ registrar = "sweep"
  /\ bytes' = IF Staged THEN bytes ELSE 0
  /\ registrar' = "idle"
  /\ UNCHANGED <<installed, entry>>

\* A manifest entry the package no longer declares plain goes; so does every
\* file of the module's action folder that was not staged.
RegisterSweep ==
  /\ registrar = "sweep"
  /\ entry' = IF ~Staged /\ entry.by = "manifest" THEN NoEntry ELSE entry
  /\ bytes' = IF Staged THEN bytes ELSE 0
  /\ registrar' = "idle"
  /\ UNCHANGED installed

\* A manifest entry goes, a hand registration stays and is disabled.
UnregisterEntries ==
  /\ registrar = "unregister"
  /\ entry' = IF entry.by = "manifest" THEN NoEntry ELSE [entry EXCEPT !.enabled = FALSE]
  /\ registrar' = "folder"
  /\ UNCHANGED <<installed, bytes>>

UnregisterFolder ==
  /\ registrar = "folder"
  /\ bytes' = 0
  /\ registrar' = "idle"
  /\ UNCHANGED <<installed, entry>>

\* The root job dies between two of these steps; the next install or removal starts afresh.
RegistrarDies ==
  /\ ~Between
  /\ registrar' = "died"
  /\ UNCHANGED <<installed, entry, bytes>>

\* An administrator copies the package's executable into the folder and registers it by hand.
HandRegister ==
  /\ installed # 0
  /\ Between
  /\ bytes' = installed
  /\ entry' = [by |-> "hand", version |-> installed, enabled |-> TRUE]
  /\ UNCHANGED <<installed, registrar>>

HandUnregister ==
  /\ entry.by # "none"
  /\ entry' = NoEntry
  /\ UNCHANGED <<installed, bytes, registrar>>

RegistrarStep ==
  \/ RegisterCopy \/ RegisterWrite \/ RegisterSweep
  \/ UnregisterEntries \/ UnregisterFolder
NextActions ==
  \/ \E v \in Packages : InstallModule(v)
  \/ RemoveModule \/ RegistrarStep \/ RegistrarDies
  \/ HandRegister \/ HandUnregister

SpecActions == InitActions /\ [][NextActions]_actionVars

---------------------------------------------------------------------------
\* Types of the registry, the package and the job.
ActionsTypeOK ==
  /\ installed \in Packages \cup {0}
  /\ entry \in Entries
  /\ bytes \in Packages \cup {0}
  /\ registrar \in {"idle", "died", "register", "write", "sweep", "unregister", "folder"}

\* When a registration or removal ran to its end, what the registry holds from
\* a manifest is what the installed package declares, with its bytes in place:
\* a job that died halfway is made good by the next one (register_module
\* writes, then sweeps; unregister_module removes, then clears the folder).
RegistryMatchesPackage ==
  registrar = "idle" /\ entry.by = "manifest" =>
    /\ installed = entry.version /\ bytes = installed
    /\ Declares[installed] = "plain"

\* An action its package declares protected is only ever usable through an
\* administrator's hand registration, also while a job is halfway or died.
ProtectedNeedsHand ==
  load_registered_action /\ entry.by = "manifest" => Declares[bytes] = "plain"

\* Once a removal has disabled the entries, nothing makes the action usable
\* again but a new installation or an administrator.
RemovedIsUnusable ==
  registrar = "idle" /\ installed = 0 => ~load_registered_action

\* What the helper is ready to execute as root is what the installed package
\* declares plain, or what an administrator registered (load_action).
RegistryIsSafe == RegistryMatchesPackage /\ ProtectedNeedsHand /\ RemovedIsUnusable
=============================================================================
