----------------------------- MODULE GeometryMeter -----------------------------
(***************************************************************************)
(* What the search for nested streams costs, counted from outside: how     *)
(* many members were handed to the inflater and how many bytes were taken  *)
(* up, inflated or recognised in a payload, whatever became of them.  The  *)
(* meter watches the steps of GeometryDomains and never hinders one; only  *)
(* properties read it.                                                     *)
(***************************************************************************)
EXTENDS GeometryDomains

VARIABLES
  probed,   \* members handed to the inflater
  taken     \* bytes inflated, or recognised as streams of a payload

meter == <<probed, taken>>
meteredVars == <<vars, meter>>

MeterInit == GeometryInit /\ probed = 0 /\ taken = 0

\* A part was taken unless the search gave up before it.
Advanced == part' # part

MeteredProbe ==
  /\ TakeProbe
  /\ IF Advanced
     THEN /\ probed' = probed + 1
          /\ LET stream == Parts[part + 1]
             IN taken' = taken + Expanded(stream, InflateLimit(stream, budget.bytes))
     ELSE UNCHANGED meter

MeteredDirect ==
  /\ TakeDirect
  /\ taken' = IF Advanced /\ IsStart(Parts, part + 1) THEN taken + Parts[part + 1].len ELSE taken
  /\ UNCHANGED probed

Unmetered ==
  /\ \/ Refuse \/ Decode \/ SelectStreams \/ OpenEntry \/ CloseEntry \/ EndSearch \/ Conclude
  /\ UNCHANGED meter

MeterNext == MeteredProbe \/ MeteredDirect \/ Unmetered

MeterSpec == MeterInit /\ [][MeterNext]_meteredVars
===============================================================================
