----------------------------- MODULE ContainerScan -----------------------------
(***************************************************************************)
(* The container crate (lib.rs): an envelope is recognised by its leading  *)
(* bytes, its walker takes the file apart, and payloads are handed out     *)
(* from what that walk retained.  input.signature is the signature the     *)
(* file starts with, input.cut says that the file is shorter than one it   *)
(* is a prefix of.                                                         *)
(***************************************************************************)
EXTENDS ModernScan, ZipScan, Ole2Scan

CONSTANT ProbeWindow

ASSUME ProbeAssumption == ProbeWindow \in Nat

\* What the walkers read at an offset, or at a position of the compound file.
ASSUME InputAssumption ==
  \A i \in Inputs :
    /\ i.size \in Nat
    /\ DOMAIN i.frames \subseteq Nat /\ \A o \in DOMAIN i.frames : i.frames[o] \in Frame
    /\ DOMAIN i.eocds \subseteq Nat /\ \A o \in DOMAIN i.eocds : i.eocds[o] \in Eocd
    /\ DOMAIN i.records \subseteq Nat /\ \A o \in DOMAIN i.records : i.records[o] \in Record
    /\ i.streams \in Seq(Fact)

Envelopes == {"modern", "zip", "ole2"}

MarkerInWindow ==
  \E o \in DOMAIN input.frames : o + MarkerLen <= Smaller(input.size, ProbeWindow)

Probe ==
  IF input.size > MaxFileSize THEN "rejected"
  ELSE IF input.size = 0 THEN "malformed"
  ELSE IF input.signature \in Envelopes THEN input.signature
  ELSE IF MarkerInWindow THEN "modern"
  ELSE IF input.cut THEN "malformed"
  ELSE "unsupported"

ContainerInit ==
  /\ input \in Inputs
  /\ wanted \in SUBSET (DOMAIN input.frames \cup DOMAIN input.records \cup DOMAIN input.streams)
  /\ phase = "probe" /\ cursor = 0 /\ markers = 0
  /\ entries = <<>> /\ stored = {} /\ decoded = {}
  /\ accounted = {} /\ decodedBytes = 0 /\ faults = {} /\ status = NONE

\* An envelope goes to its walker; anything else ends without an inventory.
Dispatch ==
  /\ phase = "probe"
  /\ IF Probe \in Envelopes THEN phase' = Probe /\ UNCHANGED status ELSE Finish(Probe)
  /\ UNCHANGED <<input, wanted, cursor, markers, accounted, faults>> /\ NothingRetained

ContainerNext == Dispatch \/ ModernNext \/ ZipNext \/ Ole2Next

ContainerSpec == ContainerInit /\ [][ContainerNext]_vars

-----------------------------------------------------------------------------
(***************************************************************************)
(* What callers are given.                                                 *)
(***************************************************************************)
Finished == phase = "finished"

Uninterpreted == Complement(accounted, input.size)

Retained(mode) == IF mode = "stored" THEN stored ELSE decoded

Inventoried == {entries[i].id : i \in DOMAIN entries}

MissingStatus ==
  [complete |-> "not_found", partial |-> "not_found", unsupported |-> "unavailable",
   malformed |-> "malformed", rejected |-> "rejected"]

Extraction(id, mode) ==
  IF id \notin Inventoried THEN MissingStatus[status]
  ELSE IF id \in Retained(mode) THEN "extracted"
  ELSE "unavailable"
=============================================================================
