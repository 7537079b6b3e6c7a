------------------------------ MODULE SSDStore ------------------------------
(***************************************************************************)
(* What a flash device promises its host: an array of logical pages.  A    *)
(* page holds what the last successful write put there, until it is        *)
(* trimmed.  Where pages lie on the flash, and what garbage collection     *)
(* does, must not show.                                                    *)
(***************************************************************************)
CONSTANTS Logical,  \* logical page addresses
          Data      \* page contents

VARIABLES store,    \* the contents of every logical page, Nothing if it has none
          out       \* the answer to the command, "none" between commands

Nothing == "nothing"

SInit == store = [l \in Logical |-> Nothing] /\ out = "none"

\* A write succeeds, or is refused as a whole.
SWrite(l, d) ==
  \/ store' = [store EXCEPT ![l] = d] /\ out' = "success"
  \/ out' = "full" /\ UNCHANGED store

STrim(l) ==
  IF store[l] = Nothing
    THEN out' = "uninitialized" /\ UNCHANGED store
    ELSE store' = [store EXCEPT ![l] = Nothing] /\ out' = "success"

SRead(l) ==
  /\ out' = IF store[l] = Nothing THEN "uninitialized" ELSE store[l]
  /\ UNCHANGED store

SIllegal == out' = "illegal" /\ UNCHANGED store

\* The answer has been taken.
SReady == out' = "none" /\ UNCHANGED store

SNext ==
  \/ SIllegal \/ SReady
  \/ \E l \in Logical : STrim(l) \/ SRead(l) \/ \E d \in Data : SWrite(l, d)

SSpec == SInit /\ [][SNext]_<<store, out>>
=============================================================================
