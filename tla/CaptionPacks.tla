---------------------------- MODULE CaptionPacks ----------------------------
(***************************************************************************)
(* The translation packs of the captions feature: the buttons of its setup *)
(* table, the one script process the overlay keeps a handle on             *)
(* (CaptionsPlugin.cpp), and what that script does to the disk             *)
(* (install-captions-pack.ps1).  Every pack depends on the translation     *)
(* runtime, which is a pack of its own and is shared.                      *)
(*                                                                         *)
(* A pack's files are one item, present when all of them are whole; its    *)
(* stamp is the file installed-<id>.json.  A script may be killed between  *)
(* two steps, and fails when the network does or when the captions host    *)
(* has the runtime's library loaded, for Windows then neither replaces nor *)
(* removes it.                                                             *)
(***************************************************************************)
EXTENDS Naturals, FiniteSets

CONSTANTS
    Packs,        \* translation packs
    Runtime,      \* the pack they depend on
    Scripts,      \* processes of the script
    MaxStarts,    \* bound: scripts started
    MaxRestarts   \* bound: restarts of the overlay

VARIABLES
    files,        \* packs whose files are whole
    stamps,       \* packs with a stamp that can be read
    script,       \* each process: what it does, for which pack, and where it is
    handle,       \* pack_process_: the process the overlay waits for
    loaded,       \* the captions host has the runtime's library loaded
    starts,
    restarts,
    torn,         \* history: a script was killed while it replaced the runtime
    overlap       \* history: a script was started while another ran

vars == <<files, stamps, script, handle, loaded, starts, restarts, torn, overlap>>

All == Packs \cup {Runtime}
NoScript == [pc |-> "none", pack |-> Runtime, un |-> FALSE]
None == "none"

TypeOK ==
    /\ files \subseteq All /\ stamps \subseteq All
    /\ script \in [Scripts -> [pc : {"none", "depGet", "depCopy", "depCopying", "depStamp",
                                     "model", "stamp", "unModel", "unStamp", "unCheck",
                                     "unDep", "unDepStamp", "ok", "failed"},
                               pack : All, un : BOOLEAN]]
    /\ handle \in Scripts \cup {None}
    /\ loaded \in BOOLEAN /\ torn \in BOOLEAN /\ overlap \in BOOLEAN
    /\ starts \in 0..MaxStarts /\ restarts \in 0..MaxRestarts

Init ==
    /\ files = {} /\ stamps = {}
    /\ script = [s \in Scripts |-> NoScript]
    /\ handle = None /\ loaded = FALSE
    /\ starts = 0 /\ restarts = 0 /\ torn = FALSE /\ overlap = FALSE

-----------------------------------------------------------------------------
(* The overlay *)

\* An install or uninstall button: StartPackAction returns while a handle is
\* held.
StartPackAction(s, p, un) ==
    /\ handle = None /\ starts < MaxStarts /\ script[s].pc = "none"
    /\ script' = [script EXCEPT ![s] = [pc |-> IF un THEN "unModel" ELSE "depGet",
                                        pack |-> p, un |-> un]]
    /\ handle' = s /\ starts' = starts + 1
    /\ overlap' = (overlap \/ \E t \in Scripts : script[t].pc \notin {"none", "ok", "failed"})
    /\ UNCHANGED <<files, stamps, loaded, restarts, torn>>

\* An action that succeeded restarts the captions host.
PollPackAction(s) ==
    /\ handle = s /\ script[s].pc \in {"ok", "failed"}
    /\ handle' = None
    /\ script' = [script EXCEPT ![s] = NoScript]
    /\ loaded' = (loaded /\ script[s].pc = "failed")
    /\ UNCHANGED <<files, stamps, starts, restarts, torn, overlap>>

\* OnShutdown closes the handle; the script goes on.
OverlayRestarts ==
    /\ restarts < MaxRestarts
    /\ handle' = None /\ restarts' = restarts + 1
    /\ UNCHANGED <<files, stamps, script, loaded, starts, torn, overlap>>

\* A script nobody waits for any more is gone when it ends.
Forgotten(s) ==
    /\ handle # s /\ script[s].pc \in {"ok", "failed"}
    /\ script' = [script EXCEPT ![s] = NoScript]
    /\ UNCHANGED <<files, stamps, handle, loaded, starts, restarts, torn, overlap>>

\* The host loads the runtime when it translates, and lets go when it dies.
HostLoads ==
    /\ ~loaded /\ Runtime \in files /\ files \cap Packs # {}
    /\ loaded' = TRUE
    /\ UNCHANGED <<files, stamps, script, handle, starts, restarts, torn, overlap>>

HostDies ==
    /\ loaded
    /\ loaded' = FALSE
    /\ UNCHANGED <<files, stamps, script, handle, starts, restarts, torn, overlap>>

-----------------------------------------------------------------------------
(* The script *)

Goto(s, pc) == script' = [script EXCEPT ![s].pc = pc]

\* $ErrorActionPreference is Stop: an error ends the script.
Throws(s) == Goto(s, "failed") /\ UNCHANGED <<files, stamps, torn>>

\* Download-VerifiedFile of the runtime's archive, into the cache.
DownloadDep(s) ==
    /\ script[s].pc = "depGet"
    /\ \/ Goto(s, "depCopy") /\ UNCHANGED <<files, stamps, torn>>
       \/ Throws(s)
    /\ UNCHANGED <<handle, loaded, starts, restarts, overlap>>

\* Extract-ZipEntries copies the library over the one that is there, also
\* when it is installed already.
ExtractDep(s) ==
    /\ script[s].pc = "depCopy"
    /\ \/ ~loaded /\ files' = files \ {Runtime} /\ Goto(s, "depCopying") /\ UNCHANGED <<stamps, torn>>
       \/ loaded /\ Throws(s)
    /\ UNCHANGED <<handle, loaded, starts, restarts, overlap>>

DepExtracted(s) ==
    /\ script[s].pc = "depCopying"
    /\ files' = files \cup {Runtime} /\ Goto(s, "depStamp")
    /\ torn' = FALSE
    /\ UNCHANGED <<stamps, handle, loaded, starts, restarts, overlap>>

\* Write-PackStamp, of the dependency and of the pack.
WritePackStamp(s) ==
    /\ \/ /\ script[s].pc = "depStamp"
          /\ stamps' = stamps \cup {Runtime} /\ Goto(s, "model")
       \/ /\ script[s].pc = "stamp"
          /\ stamps' = stamps \cup {script[s].pack} /\ Goto(s, "ok")
    /\ UNCHANGED <<files, handle, loaded, starts, restarts, torn, overlap>>

\* Install-HfSnapshot; a failure in the middle leaves a pack without all of
\* its files, one that was whole keeps them.
InstallHfSnapshot(s) ==
    /\ script[s].pc = "model"
    /\ \/ files' = files \cup {script[s].pack} /\ Goto(s, "stamp") /\ UNCHANGED <<stamps, torn>>
       \/ Throws(s)
    /\ UNCHANGED <<handle, loaded, starts, restarts, overlap>>

\* Uninstall-Pack: the files go before the stamp.
RemoveModel(s) ==
    /\ script[s].pc = "unModel"
    /\ files' = files \ {script[s].pack} /\ Goto(s, "unStamp")
    /\ UNCHANGED <<stamps, handle, loaded, starts, restarts, torn, overlap>>

RemoveStamp(s) ==
    /\ script[s].pc = "unStamp"
    /\ stamps' = stamps \ {script[s].pack} /\ Goto(s, "unCheck")
    /\ UNCHANGED <<files, handle, loaded, starts, restarts, torn, overlap>>

\* Only the pack itself is asked for.
TestInstalledPackDependency_Own(ignored) == ignored \in stamps

\* Test-InstalledPackDependency: another stamped pack needs the runtime.  A
\* stamp that cannot be read is ignored.
TestInstalledPackDependency(ignored) == \E p \in Packs \ {ignored} : p \in stamps

CheckDependency(s) ==
    /\ script[s].pc = "unCheck"
    /\ Goto(s, IF TestInstalledPackDependency(script[s].pack) THEN "ok" ELSE "unDep")
    /\ UNCHANGED <<files, stamps, handle, loaded, starts, restarts, torn, overlap>>

RemoveDep(s) ==
    /\ script[s].pc = "unDep"
    /\ \/ ~loaded /\ files' = files \ {Runtime} /\ Goto(s, "unDepStamp") /\ UNCHANGED <<stamps, torn>>
       \/ loaded /\ Throws(s)
    /\ UNCHANGED <<handle, loaded, starts, restarts, overlap>>

RemoveDepStamp(s) ==
    /\ script[s].pc = "unDepStamp"
    /\ stamps' = stamps \ {Runtime} /\ Goto(s, "ok")
    /\ UNCHANGED <<files, handle, loaded, starts, restarts, torn, overlap>>

\* The stamp that Set-Content is writing.
Writing(s) ==
    CASE script[s].pc = "depStamp" -> {Runtime}
      [] script[s].pc = "stamp" -> {script[s].pack}
      [] OTHER -> {}

\* Killed in the middle of a write, the script leaves a stamp that is cut off.
Killed(s) ==
    /\ script[s].pc \notin {"none", "ok", "failed"}
    /\ Goto(s, "failed")
    /\ torn' = (torn \/ script[s].pc = "depCopying")
    /\ stamps' \in {stamps, stamps \ Writing(s)}
    /\ UNCHANGED <<files, handle, loaded, starts, restarts, overlap>>

Script(s) ==
    \/ DownloadDep(s) \/ ExtractDep(s) \/ DepExtracted(s) \/ InstallHfSnapshot(s)
    \/ WritePackStamp(s) \/ RemoveModel(s) \/ RemoveStamp(s) \/ CheckDependency(s)
    \/ RemoveDep(s) \/ RemoveDepStamp(s) \/ Killed(s)

Next ==
    \/ \E s \in Scripts, p \in Packs, un \in BOOLEAN : StartPackAction(s, p, un)
    \/ \E s \in Scripts : PollPackAction(s) \/ Forgotten(s) \/ Script(s)
    \/ OverlayRestarts \/ HostLoads \/ HostDies

Spec == Init /\ [][Next]_vars

-----------------------------------------------------------------------------

RuntimeThere ==
    \/ stamps \cap Packs = {}
    \/ Runtime \in files
    \/ torn
    \/ \E s \in Scripts : script[s].pc = "depCopying"

(***************************************************************************)
(* A stamped pack has its runtime, through failed and killed installs and  *)
(* uninstalls in any order, except while a script replaces the library and *)
(* after one was killed doing so (Uninstall-Pack removes the stamp before  *)
(* it asks who needs the runtime, Install-Pack stamps last), as long as    *)
(* one script runs at a time.                                              *)
(***************************************************************************)
RuntimeIsKept == overlap \/ RuntimeThere

=============================================================================
