-------------------------------- MODULE Transfer --------------------------------
(*******************************************************************************)
(* What the reader of a response promises its callbacks: the body arrives in   *)
(* order and complete, and the exchange ends only then, or when the server has *)
(* broken off.  An exchange may go astray; then nothing more is promised of it, *)
(* but the next one starts anew.  Response is shown to implement this module.   *)
(*******************************************************************************)
EXTENDS Naturals, Sequences

CONSTANT Payloads      \* the bodies a server may send

VARIABLES payload,     \* the body that is being sent
          got,         \* what resp_body_func has been given of it
          cut,         \* the server has closed the connection before the end
          ended,       \* http_internal_response has returned without an error
          astray       \* the reader has taken something for what it is not

vars == <<payload, got, cut, ended, astray>>

Init == /\ payload \in Payloads
        /\ got = <<>>
        /\ cut = FALSE
        /\ ended = FALSE
        /\ astray = FALSE

Deliver == /\ ~ended
           /\ \E n \in Len(got) + 1 .. Len(payload) : got' = SubSeq(payload, 1, n)
           /\ UNCHANGED <<payload, cut, ended>>

BreakOff == /\ ~ended
            /\ cut' = TRUE
            /\ UNCHANGED <<payload, got, ended>>

End == /\ ~ended
       /\ got = payload \/ cut
       /\ ended' = TRUE
       /\ UNCHANGED <<payload, got, cut>>

(* Nothing is said of what the callbacks get from here on. *)
GoAstray == /\ astray'
            /\ UNCHANGED payload

(* The next exchange; one that the server broke off may have failed instead. *)
Again == /\ ended \/ cut \/ astray
         /\ payload' \in Payloads
         /\ got' = <<>>
         /\ cut' = FALSE
         /\ ended' = FALSE
         /\ astray' = FALSE

Next == \/ ~astray /\ ~astray' /\ (Deliver \/ BreakOff \/ End)
        \/ GoAstray
        \/ Again

Spec == Init /\ [][Next]_vars
=================================================================================
