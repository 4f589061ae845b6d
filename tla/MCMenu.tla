------------------------------- MODULE MCMenu -------------------------------
(***************************************************************************)
(* Two cards, one with less than a page of images and one with more.  UP   *)
(* and LT go together, so that the cursor gets to column 255 of any row.   *)
(***************************************************************************)
EXTENDS Menu, TLC
CONSTANTS few, many
MCNFiles == few :> 2 @@ many :> 5
MCSticks == {{}, {"FIRE"}, {"UP", "LT"}, {"DN"}, {"RT"}, {"DN", "FIRE"}}
=============================================================================
