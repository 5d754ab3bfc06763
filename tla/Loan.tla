--------------------------------- MODULE Loan ---------------------------------
(***************************************************************************)
(* What a caller may rely on when a calibration has the chip, whatever it  *)
(* does with it meanwhile: between calls nothing changes; a call that      *)
(* returns Ok has put everything back and tuned what it was asked to tune, *)
(* even if earlier calls had left a mess; a call that fails has put        *)
(* everything back too, as long as the chip could always be reached.       *)
(***************************************************************************)
CONSTANT Bandwidths

VARIABLES
  busy,     \* a call has the chip
  asked,    \* the bandwidths it was asked for, if any
  intact,   \* the caller's part of the chip is as it was configured
  tuned,    \* the bandwidths that both the driver and the filters have, if any
  spoilt,   \* the chip couldn't be reached at some time
  result    \* of the last call

vars == <<busy, asked, intact, tuned, spoilt, result>>

AtMostOne == {{}} \cup {{bw} : bw \in Bandwidths}

Init == /\ busy = FALSE /\ asked = {}
        /\ intact = TRUE /\ tuned \in AtMostOne \ {{}}
        /\ spoilt = FALSE /\ result = "ok"

Begin == /\ ~busy /\ busy' = TRUE
         /\ asked' \in AtMostOne
         /\ UNCHANGED <<intact, tuned, spoilt, result>>

Use == /\ busy
       /\ intact' \in BOOLEAN /\ tuned' \in AtMostOne /\ (spoilt => spoilt')
       /\ UNCHANGED <<busy, asked, result>>

End == /\ busy /\ busy' = FALSE /\ asked' = {}
       /\ tuned' \in AtMostOne /\ (spoilt => spoilt')
       /\ \/ result' = "ok" /\ intact' /\ asked \subseteq tuned'
          \/ result' = "error" /\ (intact' \/ spoilt')

Next == Begin \/ Use \/ End

Spec == Init /\ [][Next]_vars
=============================================================================
