----------------------------- MODULE StatusFile -----------------------------
(***************************************************************************)
(* The status files through which a process tells the overlay how it is:   *)
(* host_status.json of the face and captions hosts, driver_telemetry.json  *)
(* of the driver.  A writer writes a temporary file and renames it over    *)
(* the old one, about once per second; a poller of the overlay stats the   *)
(* file every 500 ms and reads it when its modification time is another    *)
(* than the one it saw last (HostStatusPoller, DriverTelemetryPoller).     *)
(* The three pairs follow the same protocol, which is modelled once.       *)
(*                                                                         *)
(* What a file says is the process that wrote it and a bit that each of    *)
(* its writes flips.  Modification times never repeat, so one bit tells    *)
(* whether the file has another than the poller saw.  A reader holds the   *)
(* file open without FILE_SHARE_DELETE, and a rename then fails.           *)
(***************************************************************************)
EXTENDS Naturals

CONSTANTS
    Pids,        \* process ids of the hosts, used in turn
    StaleAfter   \* kStaleAfter, in steps of the clock

VARIABLES
    host,        \* the process that runs, or None
    last,        \* the process that ran last
    wpc,         \* where the writer is: "idle", "tmp", or "last" in the write
                 \* after which the process ends
    bit,         \* what the next write says
    file,        \* what the file says, or Absent
    changed,     \* its time is not last_observed_mtime_
    ppc,         \* where the poller is: "idle", "stat" or "read"
    due,         \* kReadInterval has passed
    snap,        \* snapshot_: what was read last, or Absent
    stale,       \* snapshot_.stale
    age          \* time since last_successful_read_

writer == <<host, last, wpc, bit>>
poller == <<ppc, due, snap, stale, age>>
vars == <<writer, file, changed, poller>>

None == 0
Absent == <<None, 0>>

TypeOK ==
    /\ host \in Pids \cup {None} /\ last \in Pids
    /\ wpc \in {"idle", "tmp", "last"} /\ bit \in {0, 1}
    /\ file \in (Pids \X {0, 1}) \cup {Absent} /\ changed \in BOOLEAN
    /\ ppc \in {"idle", "stat", "read"} /\ due \in BOOLEAN
    /\ snap \in (Pids \X {0, 1}) \cup {Absent} /\ stale \in BOOLEAN
    /\ age \in 0..StaleAfter + 1

Init ==
    /\ host = None /\ last \in Pids /\ wpc = "idle" /\ bit = 0
    /\ file = Absent /\ changed = FALSE
    /\ ppc = "idle" /\ due = TRUE /\ snap = Absent /\ stale = FALSE /\ age = 0

-----------------------------------------------------------------------------
(* The writer *)

HostStarts ==
    /\ host = None
    /\ \E p \in Pids \ {last} : host' = p /\ last' = p
    /\ UNCHANGED <<wpc, bit, file, changed, poller>>

\* A death leaves at most a temporary file behind, which the next write
\* replaces.
HostDies ==
    /\ host # None
    /\ host' = None /\ wpc' = "idle"
    /\ UNCHANGED <<last, bit, file, changed, poller>>

WriteTmp ==
    /\ host # None /\ wpc = "idle"
    /\ wpc' = "tmp"
    /\ UNCHANGED <<host, last, bit, file, changed, poller>>

\* WriteStartupFailure, and the write with which a shutdown ends: the
\* process ends whether it succeeds or not.
WriteLast ==
    /\ host # None /\ wpc = "idle"
    /\ wpc' = "last"
    /\ UNCHANGED <<host, last, bit, file, changed, poller>>

Written ==
    /\ wpc # "idle" /\ wpc' = "idle"
    /\ host' = IF wpc = "last" THEN None ELSE host

\* A temporary file that is not written in full is deleted: this second's
\* write is lost.
WriteSkipped ==
    /\ Written
    /\ UNCHANGED <<last, bit, file, changed, poller>>

\* What the next write says.
Says == <<host, bit>>

\* The rename fails while the poller has the file open.
Rename ==
    /\ Written
    /\ bit' = 1 - bit
    /\ IF ppc = "read"
         THEN UNCHANGED <<file, changed>>
         ELSE file' = Says /\ changed' = TRUE
    /\ UNCHANGED <<last, poller>>

-----------------------------------------------------------------------------
(* The poller: Tick, once per frame *)

\* The age of the snapshot, which every return of Tick but the last compares.
Stale == age > StaleAfter

\* Between two reads, and when the file is missing or has the time it had.
TickWaits ==
    /\ ppc = "idle" /\ ~due /\ snap # Absent
    /\ stale' = Stale
    /\ UNCHANGED <<writer, file, changed, ppc, due, snap, age>>

TickUnchanged ==
    /\ ppc = "idle" /\ due /\ ~changed
    /\ due' = FALSE
    /\ stale' = IF snap # Absent THEN Stale ELSE stale
    /\ UNCHANGED <<writer, file, changed, ppc, snap, age>>

\* The file is read again whenever it exists.
TickOpens_ByExistence ==
    /\ ppc = "idle" /\ due /\ file # Absent
    /\ due' = FALSE /\ ppc' = "stat" /\ changed' = FALSE
    /\ UNCHANGED <<writer, file, snap, stale, age>>

\* The time is taken before the file is opened: a rename in between makes it
\* another again.
TickOpens ==
    /\ ppc = "idle" /\ due /\ changed
    /\ due' = FALSE /\ ppc' = "stat" /\ changed' = FALSE
    /\ UNCHANGED <<writer, file, snap, stale, age>>

ReadOpens ==
    /\ ppc = "stat"
    /\ ppc' = "read"
    /\ UNCHANGED <<writer, file, changed, due, snap, stale, age>>

\* After ReadFile the time counts as observed when a snapshot is valid, be
\* it of this read or of an earlier one.
Observed(s) ==
    /\ changed' = (changed \/ s = Absent)
    /\ age' = IF s # Absent THEN 0 ELSE age
    /\ stale' = (stale /\ s = Absent)

ReadOk ==
    /\ ppc = "read"
    /\ ppc' = "idle" /\ snap' = file
    /\ Observed(file)
    /\ UNCHANGED <<writer, file, due>>

\* The file cannot be opened, or does not parse.
ReadFails ==
    /\ ppc \in {"stat", "read"}
    /\ ppc' = "idle"
    /\ Observed(snap)
    /\ UNCHANGED <<writer, file, snap, due>>

TimePasses ==
    /\ ppc = "idle"
    /\ due' = TRUE
    /\ age' = IF age > StaleAfter THEN age ELSE age + 1
    /\ UNCHANGED <<writer, file, changed, ppc, snap, stale>>

Next ==
    \/ HostStarts \/ HostDies \/ WriteTmp \/ WriteLast \/ WriteSkipped \/ Rename
    \/ TickWaits \/ TickUnchanged \/ TickOpens \/ ReadOpens \/ ReadOk \/ ReadFails \/ TimePasses

\* The writer's loop and the overlay's frames go on; a temporary file can be
\* written, renamed and read again and again, if not every time.
Fairness ==
    /\ WF_vars(TickWaits \/ TickUnchanged \/ TickOpens)
    /\ WF_vars(ReadOpens \/ ReadOk \/ ReadFails) /\ SF_vars(ReadOpens) /\ SF_vars(ReadOk)
    /\ WF_vars(TimePasses)
    /\ WF_vars(WriteTmp) /\ SF_vars(Rename /\ ppc = "idle")

Spec == Init /\ [][Next]_vars /\ Fairness

-----------------------------------------------------------------------------

(***************************************************************************)
(* What the overlay shows follows the process: of a host that stays up it  *)
(* comes to show the status, and a host that is gone for good is shown as  *)
(* stale for good (HostStatusPoller::Tick), whatever writes, renames and   *)
(* reads fail in between.                                                  *)
(***************************************************************************)
StatusFollows ==
    /\ \A p \in Pids : <>[](host = p) => []<>(snap[1] = p /\ ~stale)
    /\ <>[](host = None) => <>[](snap # Absent => stale)

=============================================================================
