-------------------------- MODULE MCDCGMExporters --------------------------
(***************************************************************************)
(* DCGMExporters for TLC, and, before anything happened to it, XIDLoop on  *)
(* every scrape of up to MaxSamples samples, as a host with several GPUs   *)
(* has: clear, two critical XIDs, two XIDs the table does not know, and a  *)
(* sample without a value.                                                 *)
(***************************************************************************)
EXTENDS DCGMExporters, XIDLoop, SequencesExt

CONSTANT MaxSamples

SomeFamilies == BoundedSeq({0, 31, 79, 13, 999, NoValue}, MaxSamples)

Untouched ==
  /\ DOMAIN home = {}
  /\ \A n \in Node : <<chosen[n], answer[n], lastPut[n]>> = <<NoExporter, "none", NoValue>>

ExportersStep == family = <<>> /\ Next /\ UNCHANGED loopVars
LoopStep == Untouched /\ LoopNext /\ UNCHANGED vars

ScrapesInit == Init /\ LoopInit
ScrapesSpec == ScrapesInit /\ [][ExportersStep \/ LoopStep]_<<vars, loopVars>>
=============================================================================
