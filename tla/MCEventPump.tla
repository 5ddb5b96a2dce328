----------------------------- MODULE MCEventPump -----------------------------
(* A finite instance of EventPump: two containers, two and three events in a second. *)
EXTENDS EventPump

MCTime == <<1, 1, 3, 3, 3>>
MCContainer == <<"c1", "c2", "c1", "c2", "c1">>
=============================================================================
