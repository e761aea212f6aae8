--------------------------- MODULE ContentStore ---------------------------
(***************************************************************************)
(* What a content-addressed store promises about one object while the      *)
(* machine stays up.  An object is stored once; damage to its bytes is     *)
(* noticed; and from then on it is condemned: no later operation brings    *)
(* the object back before an explicit repair, which Replay does not have.  *)
(***************************************************************************)
VARIABLE object   \* "absent", "good", "bad" or "condemned"

Init == object = "absent"

Store   == object = "absent" /\ object' = "good"
Damage  == object = "good" /\ object' = "bad"
Condemn == object = "bad" /\ object' = "condemned"

Next == Store \/ Damage \/ Condemn

Spec == Init /\ [][Next]_object
============================================================================
