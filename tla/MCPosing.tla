------------------------------ MODULE MCPosing ------------------------------
EXTENDS Tab

(* An empty cell, and a painted one.                                          *)
MCBoard == [c \in Cells |-> IF c = "c1" THEN Erase ELSE 2]

(* What a behaviour may spend: presses and confirmed actions; a key with a    *)
(* trip to Twitch; presses, or keys and hovering, with a working gauge; the   *)
(* dock and a refusal; the transport; the tiers; and nothing.                 *)
MCScenarios ==
    {<<>>,
     [press |-> 3, mod |-> 2],
     [press |-> 2, flip |-> 1, frame |-> 1],
     [press |-> 1, key |-> 1, trip |-> 1, flip |-> 2, frame |-> 1],
     [hover |-> 1, key |-> 2, blur |-> 1, flip |-> 1, frame |-> 1, permission |-> 1],
     [press |-> 1, click |-> 2, flip |-> 1, frame |-> 1, permission |-> 1, ban |-> 1],
     [flip |-> 2, drop |-> 1, tokenFails |-> 1, online |-> 1],
     [flip |-> 2, drop |-> 1, signOut |-> 1, offline |-> 1],
     [tier |-> 2, claimFails |-> 1, flip |-> 1, drop |-> 1, frame |-> 1]}

(* The boards: the owner's own pixel, a moderator's, and a viewer's elsewhere; *)
(* on the other canvas nobody's pixel, and another viewer's elsewhere.        *)
MCAuthors == [a \in Canvases |-> [c \in Square(MaxSize) |->
                 CASE c = <<0, 0>> -> IF a = "a" THEN "owner" ELSE Nil
                   [] c = <<0, 1>> /\ a = "a" -> "helper"
                   [] OTHER -> IF a = "a" THEN "viewer" ELSE "other"]]

(* The form, with someone elsewhere and failing calls; the same while a pixel *)
(* drains; two picks on the console; the freeze button; the creation page; a  *)
(* removal and its restore.                                                   *)
MCQuotas ==
    {[edit |-> 1, press |-> 2, elsewhere |-> 1, fault |-> 1],
     [edit |-> 1, press |-> 2, elsewhere |-> 1, drain |-> 1],
     [press |-> 4, pick |-> 2],
     [press |-> 1, pick |-> 1, freeze |-> 1, elsewhere |-> 1, fault |-> 1],
     [edit |-> 1, press |-> 2, visit |-> 1, fault |-> 1],
     [press |-> 4, pick |-> 1, fault |-> 1]}
=============================================================================
