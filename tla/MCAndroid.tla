----------------------------- MODULE MCAndroid -----------------------------
(***************************************************************************)
(* One run for Android's two halves of A2DP playback, the library LibA2dp *)
(* and the audio HAL A2dpHw.  In their initial states nothing is under     *)
(* way, so that the fairness of the one that does not run asks for         *)
(* nothing.                                                                *)
(***************************************************************************)
EXTENDS LibA2dp, A2dpHw

VARIABLE part \* which of them runs

MCInit == Init /\ HwInit /\ part \in {"lib", "hw"}
MCNext == \/ part = "lib" /\ Next /\ UNCHANGED <<part, hwvars, controls>>
          \/ part = "hw" /\ HwNext /\ UNCHANGED <<part, vars>>
          \/ part = "hw" /\ ((exit /\ bpc = "done") \/ "reset" \in hasty) \* closed, or at its end
             /\ UNCHANGED <<part, vars, hwvars, controls>>
MCSpec == MCInit /\ [][MCNext]_<<part, vars, hwvars, controls>> /\ Fairness /\ HwFairness
=============================================================================
