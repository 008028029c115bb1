------------------------------- MODULE MCRvft -------------------------------
(* Instances of RvftGroup.                                                 *)
EXTENDS RvftGroup, TLC

CONSTANTS mon1, d1, d2, Any_, Lose_, Crash_, Stall_, Destroy_, Weight_, Blip_

MCBudget == ("any" :> Any_) @@ ("lose" :> Lose_) @@ ("crash" :> Crash_) @@ ("stall" :> Stall_)
         @@ ("destroy" :> Destroy_) @@ ("weight" :> Weight_) @@ ("blip" :> Blip_)
=============================================================================
