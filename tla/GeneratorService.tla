-------------------------- MODULE GeneratorService --------------------------
(***************************************************************************)
(* What traffic-generator-gmii promises: a stream that is asked for is     *)
(* offered as a whole or not at all.  A generator that stands still starts *)
(* with the stream that was asked for, in one step; one that is running    *)
(* offers a mixture while it is reconfigured, until the new stream is      *)
(* complete; a call that is cut short never starts a stream.               *)
(***************************************************************************)
CONSTANTS Streams, Nothing, Mixture

VARIABLES
  asked,   \* the stream of the call in progress, Nothing outside a call or
           \* when the call is to stop the generator
  offered  \* a stream, Nothing or Mixture

Init == asked = Nothing /\ offered = Nothing

Ask == asked = Nothing /\ asked' \in Streams /\ UNCHANGED offered
Start == asked # Nothing /\ offered = Nothing /\ offered' = asked
Disturb == asked # Nothing /\ offered # Nothing /\ offered' = Mixture
Settle == asked # Nothing /\ offered = Mixture /\ offered' = asked
Stop == asked = Nothing /\ offered' = Nothing
\* Returning, before or after the stream is offered.
Leave == asked' = Nothing /\ UNCHANGED offered

Next ==
  \/ (Start \/ Disturb \/ Settle \/ Stop) /\ UNCHANGED asked
  \/ Ask \/ Leave

Spec == Init /\ [][Next]_<<asked, offered>>
=============================================================================
