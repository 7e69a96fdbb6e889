------------------------ MODULE MCControllerRollout ------------------------
(* Instances of ControllerRollout for TLC.                                 *)
EXTENDS ControllerRollout, TLC

Flags(source, selector, election) ==
  [source |-> source, selector |-> selector, election |-> election]

(* Good ones with and without election, and two that main refuses.         *)
Revisions ==
  << Flags("dcgm-simulator", "valid", FALSE),
     Flags("annotation", "empty", TRUE),
     Flags("dcgm", "unparsable", FALSE),
     Flags("unsupported", "valid", TRUE) >>
=============================================================================
