------------------------------ MODULE SlotTable ------------------------------
(***************************************************************************)
(* The two tables of slots in shared memory through which the driver shows *)
(* its state: the input statistics (InputHealthSnapshotShmem) and the OSC  *)
(* routes (OscRouterStatsShmem).  A worker of the driver writes all slots  *)
(* ten times a second; the overlay reads them whenever it draws.  Each     *)
(* slot has a generation that is odd while the slot is written, and a      *)
(* reader that sees it odd, or changed, tries again.  Both tables follow   *)
(* the same protocol, which is modelled once.                              *)
(*                                                                         *)
(* A body is two words, each the number of the pass that wrote it.  The    *)
(* driver stops between two passes or is killed at any instruction; the    *)
(* segment, generations included, stays for as long as the overlay has it  *)
(* mapped.  The reader of the input statistics closes a mapping that is    *)
(* stale; the reader of the routes never does.                             *)
(***************************************************************************)
EXTENDS Naturals

CONSTANTS
    Slots,       \* the first slots of a table, 1..n
    MaxPasses,   \* bound: passes of the worker
    MaxRetries,  \* max_retries of a read (8)
    MaxStops     \* bound: stops and kills of the driver

VARIABLES
    gen, words,  \* of each slot of the segment
    driver,      \* "down", "idle", or where WriteSlot is: "odd", "copy", "even"
    slot, prev,  \* its slot, and the generation it found there
    pass,        \* the number of the pass
    mapped,      \* the overlay has the segment mapped
    rpc,         \* where TryReadSlot is: "idle", "g1", "word1", "word2", "g2"
    rslot, g1, copy, attempt,
    shown,       \* the bodies the overlay has taken, by slot
    hurt,        \* history: slots that a killed driver was writing
    stops

segment == <<gen, words>>
writer == <<driver, slot, prev, pass>>
reading == <<rpc, rslot, g1, copy, attempt>>
vars == <<segment, writer, mapped, reading, shown, hurt, stops>>

Empty == <<0, 0>>

TypeOK ==
    /\ gen \in [Slots -> Nat] /\ words \in [Slots -> (0..MaxPasses) \X (0..MaxPasses)]
    /\ driver \in {"down", "idle", "odd", "copy", "even"} /\ slot \in Slots /\ pass \in 0..MaxPasses
    /\ mapped \in BOOLEAN /\ rpc \in {"idle", "g1", "word1", "word2", "g2"}
    /\ rslot \in Slots /\ copy \in (0..MaxPasses) \X (0..MaxPasses) /\ attempt \in 0..MaxRetries
    /\ shown \in [Slots -> (0..MaxPasses) \X (0..MaxPasses)]
    /\ hurt \subseteq Slots /\ stops \in 0..MaxStops

Init ==
    /\ gen = [s \in Slots |-> 0] /\ words = [s \in Slots |-> Empty]
    /\ driver = "down" /\ slot = 1 /\ prev = 0 /\ pass = 0
    /\ mapped = FALSE /\ rpc = "idle" /\ rslot = 1 /\ g1 = 0 /\ copy = Empty /\ attempt = 0
    /\ shown = [s \in Slots |-> Empty] /\ hurt = {} /\ stops = 0

-----------------------------------------------------------------------------
(* The driver *)

\* Create leaves the slots of a segment that exists as they are.
DriverStarts ==
    /\ driver = "down"
    /\ driver' = "idle"
    /\ gen' = IF mapped THEN gen ELSE [s \in Slots |-> 0]
    /\ words' = IF mapped THEN words ELSE [s \in Slots |-> Empty]
    /\ hurt' = IF mapped THEN hurt ELSE {}
    /\ UNCHANGED <<slot, prev, pass, mapped, reading, shown, stops>>

\* The worker is joined between two passes.
DriverStops ==
    /\ driver = "idle" /\ stops < MaxStops
    /\ driver' = "down" /\ stops' = stops + 1
    /\ UNCHANGED <<segment, slot, prev, pass, mapped, reading, shown, hurt>>

DriverKilled ==
    /\ driver \in {"odd", "copy", "even"} /\ stops < MaxStops
    /\ driver' = "down" /\ stops' = stops + 1
    /\ hurt' = IF gen[slot] # prev THEN hurt \cup {slot} ELSE hurt
    /\ UNCHANGED <<segment, slot, prev, pass, mapped, reading, shown>>

\* PublishOneTick, PublishToShmem.
PassBegins ==
    /\ driver = "idle" /\ pass < MaxPasses
    /\ driver' = "odd" /\ slot' = 1 /\ prev' = gen[1] /\ pass' = pass + 1
    /\ UNCHANGED <<segment, mapped, reading, shown, hurt, stops>>

\* The generation says that the slot is written before a byte of it changes.
MarksOdd ==
    /\ driver = "odd"
    /\ driver' = "copy"
    /\ gen' = [gen EXCEPT ![slot] = prev + 1]
    /\ UNCHANGED <<words, slot, prev, pass, mapped, reading, shown, hurt, stops>>

Copies ==
    /\ driver = "copy"
    /\ IF words[slot][1] # pass
         THEN words' = [words EXCEPT ![slot] = <<pass, words[slot][2]>>] /\ UNCHANGED driver
         ELSE words' = [words EXCEPT ![slot] = <<words[slot][1], pass>>] /\ driver' = "even"
    /\ UNCHANGED <<gen, slot, prev, pass, mapped, reading, shown, hurt, stops>>

\* The generation after a write, and on to the next slot.
MarksEven ==
    /\ driver = "even"
    /\ gen' = [gen EXCEPT ![slot] = prev + 2]
    /\ IF slot + 1 \in Slots
         THEN driver' = "odd" /\ slot' = slot + 1 /\ prev' = gen[slot + 1]
         ELSE driver' = "idle" /\ UNCHANGED <<slot, prev>>
    /\ UNCHANGED <<words, pass, mapped, reading, shown, hurt, stops>>

-----------------------------------------------------------------------------
(* The overlay *)

Opens ==
    /\ ~mapped /\ driver # "down"
    /\ mapped' = TRUE
    /\ UNCHANGED <<segment, writer, reading, shown, hurt, stops>>

\* The publish tick has not moved for two seconds, or the overlay ends.
Closes ==
    /\ mapped /\ rpc = "idle" /\ driver = "down"
    /\ mapped' = FALSE
    /\ shown' = [s \in Slots |-> Empty]
    /\ UNCHANGED <<segment, writer, reading, hurt, stops>>

ReadBegins ==
    /\ mapped /\ rpc = "idle"
    /\ rpc' = "g1" /\ attempt' = 0
    /\ rslot' \in Slots
    /\ UNCHANGED <<segment, writer, mapped, g1, copy, shown, hurt, stops>>

\* Another attempt, or the slot is left out this time.
Again ==
    /\ attempt' = attempt + 1
    /\ rpc' = IF attempt + 1 < MaxRetries THEN "g1" ELSE "idle"

LoadsG1 ==
    /\ rpc = "g1"
    /\ g1' = gen[rslot]
    /\ IF gen[rslot] % 2 = 1 THEN Again ELSE rpc' = "word1" /\ UNCHANGED attempt
    /\ UNCHANGED <<segment, writer, mapped, rslot, copy, shown, hurt, stops>>

CopiesWord ==
    /\ rpc \in {"word1", "word2"}
    /\ IF rpc = "word1"
         THEN copy' = <<words[rslot][1], copy[2]>> /\ rpc' = "word2"
         ELSE copy' = <<copy[1], words[rslot][2]>> /\ rpc' = "g2"
    /\ UNCHANGED <<segment, writer, mapped, rslot, g1, attempt, shown, hurt, stops>>

\* Only that no write is under way is asked.
Unchanged_Even == gen[rslot] % 2 = 0

Unchanged == gen[rslot] = g1

LoadsG2 ==
    /\ rpc = "g2"
    /\ IF Unchanged
         THEN rpc' = "idle" /\ shown' = [shown EXCEPT ![rslot] = copy] /\ UNCHANGED attempt
         ELSE Again /\ UNCHANGED shown
    /\ UNCHANGED <<segment, writer, mapped, rslot, g1, copy, hurt, stops>>

Next ==
    \/ DriverStarts \/ DriverStops \/ DriverKilled
    \/ PassBegins \/ MarksOdd \/ Copies \/ MarksEven
    \/ Opens \/ Closes \/ ReadBegins \/ LoadsG1 \/ CopiesWord \/ LoadsG2

Spec == Init /\ [][Next]_vars

-----------------------------------------------------------------------------

(***************************************************************************)
(* The overlay never shows the parts of two writes as one (TryReadSlot,    *)
(* WriteSlot), through restarts of the driver in a segment that lives on;  *)
(* except in a slot whose write a kill interrupted: its generation stays   *)
(* odd, the next driver counts on from there, and the slot is marked as    *)
(* whole while it is written.                                              *)
(***************************************************************************)
NoTornSlot == \A s \in Slots \ hurt : shown[s][1] = shown[s][2]
=============================================================================
