------------------------------ MODULE Session ------------------------------
(***************************************************************************)
(* What a session promises, without saying how: the machine is in the      *)
(* decoy or in the hidden root.  The hidden root is entered only when      *)
(* everything the way back needs is staged, runs guarded (the decoy's      *)
(* units masked, the way back ready) for as long as it runs, and is left   *)
(* for a decoy on which nothing of the session remains.                    *)
(***************************************************************************)
VARIABLES place,  \* where PID 1 runs, or is about to
          gear    \* what of the session is in /run

Gears == {"bare", "partial", "staged", "guarded"}

SessionInit == place = "decoy" /\ gear = "bare"

(* Entries are prepared, abandoned and cleaned up on the decoy. *)
Work  == place = "decoy" /\ place' = "decoy" /\ gear' \in Gears \ {"guarded"}
Enter == place = "decoy" /\ gear = "staged" /\ place' = "hidden" /\ gear' = "guarded"
Leave == place = "hidden" /\ place' = "decoy" /\ gear' = "bare"

SessionNext == Work \/ Enter \/ Leave
SessionSpec == SessionInit /\ [][SessionNext]_<<place, gear>>
==============================================================================
