----------------------------- MODULE FirstLaunch -----------------------------
(***************************************************************************)
(* What the overlay does to the disk before its window opens               *)
(* (Migration.cpp, run by every start of WKOpenVR.exe, the installer's     *)
(* --register-only included): the data folder and the registry key of the  *)
(* program's former name are copied, the OSC port of the face-tracking     *)
(* profile moves to the router's profile, and the translator folder is     *)
(* renamed.  The face-tracking plugin then rewrites its profile            *)
(* (Profiles.cpp), and SteamVR's driver and the captions host create       *)
(* folders of their own whenever they run.                                 *)
(*                                                                         *)
(* Each step of a migration is one access to the disk: the process may be  *)
(* killed between two of them, and an access may fail.  The machine is one *)
(* that has the old folder and the old key (on any other the migration     *)
(* returns at once).  Of the old tree three parts are told apart: the      *)
(* face-tracking profile, the model packs under translator\, and the rest. *)
(***************************************************************************)
EXTENDS Naturals, FiniteSets

CONSTANTS
    OldPort,      \* the osc_port of the old face-tracking profile
    UserPort,     \* a port the user types into oscrouter.json
    MaxStarts,    \* bound: starts of WKOpenVR.exe
    MaxEdits,     \* bound: edits of oscrouter.json by the user
    MayFail       \* disk accesses that may fail: "copy", "key", "read", "router", "sentinel"

VARIABLES
    pc,           \* where the starting process is
    newDir,       \* the WKOpenVR folder exists
    tree,         \* the parts of the old tree that are in it
    key,          \* the new registry key
    ft,           \* facetracking.json: [port, done]; done is the sentinel
    router,       \* send_port of oscrouter.json, Default when absent
    packs,        \* the folder that holds the model packs
    captionsDir,  \* WKOpenVR\captions exists
    starts,
    edits,
    failed        \* history: the accesses that failed

disk == <<newDir, tree, key, ft, router, packs, captionsDir>>
vars == <<pc, disk, starts, edits, failed>>

Default == 9000
None == 0
OldTree == {"profile", "packs", "rest"}

\* The keys of a profile that the migration reads; Encode writes neither.
Profile(port, done) == [port |-> port, done |-> done]
NoProfile == Profile(None, FALSE)

TypeOK ==
    /\ pc \in {"off", "appdata", "copying", "key", "keycopy", "port", "sentinel",
               "router", "captions", "run"}
    /\ {newDir, captionsDir} \subseteq BOOLEAN
    /\ tree \subseteq OldTree
    /\ key \in {"absent", "empty", "copied"}
    /\ ft \in [port : {None, Default, OldPort}, done : BOOLEAN]
    /\ router \in {Default, OldPort, UserPort}
    /\ packs \in {"none", "translator", "captions"}
    /\ starts \in 0..MaxStarts /\ edits \in 0..MaxEdits
    /\ failed \subseteq MayFail

Init ==
    /\ pc = "off" /\ newDir = FALSE /\ tree = {} /\ key = "absent"
    /\ ft = NoProfile /\ router = Default /\ packs = "none" /\ captionsDir = FALSE
    /\ starts = 0 /\ edits = 0 /\ failed = {}

Launch ==
    /\ pc = "off" /\ starts < MaxStarts
    /\ pc' = "appdata" /\ starts' = starts + 1
    /\ UNCHANGED <<disk, edits, failed>>

\* MigrateAppData: nothing is done when the new folder exists; fs::copy
\* creates it before the first file.
MigrateAppData ==
    /\ pc = "appdata"
    /\ pc' = IF newDir THEN "key" ELSE "copying"
    /\ newDir' = TRUE
    /\ UNCHANGED <<tree, key, ft, router, packs, captionsDir, starts, edits, failed>>

\* One entry of the tree: skip_existing leaves what is there.
CopyEntry ==
    /\ pc = "copying" /\ tree # OldTree
    /\ \E part \in OldTree \ tree :
         /\ tree' = tree \cup {part}
         /\ ft' = IF part = "profile" THEN Profile(OldPort, FALSE) ELSE ft
         /\ packs' = IF part = "packs" THEN "translator" ELSE packs
    /\ UNCHANGED <<pc, newDir, key, router, captionsDir, starts, edits, failed>>

CopyDone ==
    /\ pc = "copying" /\ tree = OldTree
    /\ pc' = "key"
    /\ UNCHANGED <<disk, starts, edits, failed>>

\* An error of fs::copy ends this step and is not retried.
CopyFails ==
    /\ pc = "copying" /\ "copy" \in MayFail
    /\ pc' = "key" /\ failed' = failed \cup {"copy"}
    /\ UNCHANGED <<disk, starts, edits>>

\* MigrateScRegistryKey creates the key before RegCopyTree fills it.
MigrateScRegistryKey ==
    \/ /\ pc = "key"
       /\ pc' = IF key = "absent" THEN "keycopy" ELSE "port"
       /\ key' = IF key = "absent" THEN "empty" ELSE key
       /\ UNCHANGED <<newDir, tree, ft, router, packs, captionsDir, starts, edits, failed>>
    \/ /\ pc = "keycopy"
       /\ pc' = "port"
       /\ \/ key' = "copied" /\ UNCHANGED failed
          \/ "key" \in MayFail /\ failed' = failed \cup {"key"} /\ UNCHANGED key
       /\ UNCHANGED <<newDir, tree, ft, router, packs, captionsDir, starts, edits>>

\* The steps after the check in MigrateFtOscPort, by what facetracking.json
\* and oscrouter.json hold.  (A port that is none, above 65535, counts as the
\* default.)
AfterCheck ==
    CASE ft.port = None -> "captions"
      [] ft.port # None /\ ft.done -> "captions"
      [] ft.port # None /\ ~ft.done /\ (ft.port = Default \/ router # Default) -> "sentinel"
      [] OTHER -> "router"

\* The sentinel is written before the port is.
CheckFtOscPort_MarksFirst ==
    /\ pc = "port"
    /\ pc' = AfterCheck
    /\ ft' = IF ft.port = None THEN ft ELSE Profile(ft.port, TRUE)
    /\ UNCHANGED <<newDir, tree, key, router, packs, captionsDir, starts, edits, failed>>

\* A profile that cannot be opened or parsed counts as absent: the check ends,
\* or goes on to write the router's.
CheckFtOscPort ==
    /\ pc = "port"
    /\ \/ pc' = AfterCheck /\ UNCHANGED failed
       \/ /\ "read" \in MayFail /\ ft.port # None
          /\ pc' = "captions" /\ failed' = failed \cup {"read"}
       \/ /\ "read" \in MayFail /\ AfterCheck = "sentinel" /\ ft.port # Default
          /\ pc' = "router" /\ UNCHANGED failed
    /\ UNCHANGED <<disk, starts, edits>>

\* oscrouter.json is replaced by renaming a complete temporary file; the
\* sentinel is written next whether that worked or not.
WriteRouterPort ==
    /\ pc = "router"
    /\ pc' = "sentinel"
    /\ \/ router' = ft.port /\ UNCHANGED failed
       \/ "router" \in MayFail /\ failed' = failed \cup {"router"} /\ UNCHANGED router
    /\ UNCHANGED <<newDir, tree, key, ft, packs, captionsDir, starts, edits>>

WriteSentinel ==
    /\ pc = "sentinel"
    /\ pc' = "captions"
    /\ \/ ft' = Profile(ft.port, TRUE) /\ UNCHANGED failed
       \/ "sentinel" \in MayFail /\ failed' = failed \cup {"sentinel"} /\ UNCHANGED ft
    /\ UNCHANGED <<newDir, tree, key, router, packs, captionsDir, starts, edits>>

\* fs::rename, when only the old name exists.
MigrateTranslatorToCaptions ==
    /\ pc = "captions"
    /\ pc' = "run"
    /\ LET rename == packs = "translator" /\ ~captionsDir IN
         /\ packs' = IF rename THEN "captions" ELSE packs
         /\ captionsDir' = (captionsDir \/ rename)
    /\ UNCHANGED <<newDir, tree, key, ft, router, starts, edits, failed>>

\* CreateShellContext makes the profile and log folders; by then the
\* migration has made WKOpenVR or found nothing to copy, so no more changes.

\* What the profile store reads from a profile and writes back: the keys of
\* the migration are not among them.
Encode(profile) == Profile(Default, FALSE)

\* FacetrackingProfileStore::Save: every minute, with each change of the
\* modules, and when the overlay closes.
SaveProfile ==
    /\ pc = "run"
    /\ ft' = Encode(ft)
    /\ UNCHANGED <<pc, newDir, tree, key, router, packs, captionsDir, starts, edits, failed>>

\* The overlay closes (the plugin saves), or is killed at any point.
Close ==
    /\ pc = "run"
    /\ pc' = "off" /\ ft' = Encode(ft)
    /\ UNCHANGED <<newDir, tree, key, router, packs, captionsDir, starts, edits, failed>>

Killed ==
    /\ pc # "off"
    /\ pc' = "off"
    /\ UNCHANGED <<disk, starts, edits, failed>>

\* The driver's log file, the captions host's status file: each creates the
\* folders of its path.
DriverLogs ==
    /\ ~newDir
    /\ newDir' = TRUE
    /\ UNCHANGED <<pc, tree, key, ft, router, packs, captionsDir, starts, edits, failed>>

CaptionsHostStarts ==
    /\ newDir /\ ~captionsDir
    /\ captionsDir' = TRUE
    /\ UNCHANGED <<pc, newDir, tree, key, ft, router, packs, starts, edits, failed>>

\* The user edits oscrouter.json: the router tab only shows the port.
EditRouter ==
    /\ pc \in {"off", "run"} /\ edits < MaxEdits
    /\ router' \in {Default, UserPort}
    /\ edits' = edits + 1
    /\ UNCHANGED <<pc, newDir, tree, key, ft, packs, captionsDir, starts, failed>>

Next ==
    \/ Launch \/ MigrateAppData \/ CopyEntry \/ CopyDone \/ CopyFails
    \/ MigrateScRegistryKey \/ CheckFtOscPort \/ WriteRouterPort \/ WriteSentinel
    \/ MigrateTranslatorToCaptions \/ SaveProfile \/ Close \/ Killed
    \/ DriverLogs \/ CaptionsHostStarts \/ EditRouter

Spec == Init /\ [][Next]_vars

-----------------------------------------------------------------------------

(***************************************************************************)
(* The port of the old profile is not lost, wherever a start was killed:   *)
(* until the user touches the router's profile, a profile that arrived     *)
(* either still holds the port and will be migrated, or the router's       *)
(* profile has it (MigrateFtOscPort writes the port before the sentinel).  *)
(* A failed write of oscrouter.json loses it, and so does a facetracking   *)
(* profile that cannot be read or parsed at a start: the start goes on and *)
(* the plugin writes the profile anew.                                     *)
(***************************************************************************)
PortIsCarried ==
    "profile" \in tree /\ edits = 0 /\ failed \cap {"read", "router"} = {} =>
        \/ router = OldPort
        \/ ft = Profile(OldPort, FALSE)

=============================================================================
