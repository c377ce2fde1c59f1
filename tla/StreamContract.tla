--------------------------- MODULE StreamContract ---------------------------
(***************************************************************************)
(* What a streaming generator promises its consumer: every page at most    *)
(* once, and an end of the stream only when every page was given, unless   *)
(* the consumer left or the producer failed.                               *)
(***************************************************************************)
EXTENDS Naturals, Sequences

CONSTANT Page

VARIABLES mayFail, \* the producer of this stream may fail
          given,   \* the pages given so far, in order
          mode     \* "open", "left" by the consumer, "over"

Given == {given[k] : k \in 1..Len(given)}

Init == mayFail \in BOOLEAN /\ given = <<>> /\ mode = "open"

Give == /\ mode = "open"
        /\ \E p \in Page \ Given : given' = Append(given, p)
        /\ UNCHANGED <<mayFail, mode>>

LeaveEarly == mode = "open" /\ mode' = "left" /\ UNCHANGED <<mayFail, given>>

End == /\ \/ mode = "open" /\ (Given = Page \/ mayFail)
          \/ mode = "left"
       /\ mode' = "over" /\ UNCHANGED <<mayFail, given>>

Next == Give \/ LeaveEarly \/ End

Spec == Init /\ [][Next]_<<mayFail, given, mode>>
=============================================================================
