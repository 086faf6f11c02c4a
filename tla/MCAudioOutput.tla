----------------------------- MODULE MCAudioOutput -----------------------------
(***************************************************************************)
(* Three players.  "" is device 0, "default" is 2, and another one, whose  *)
(* id is less than "default", is 1.  Either two of them name the default   *)
(* device in its two ways and the third plays on the device between them,  *)
(* or two share a mixer on that device, where the third has another one.   *)
(***************************************************************************)
EXTENDS AudioSourceProvider

Plays(device, params) == [frame |-> 1, params |-> params, device |-> device, origin |-> 1]

MCProviders == 1 .. 3
MCKeys == {<<Plays(0, 1), Plays(2, 1), Plays(1, 1)>>, <<Plays(1, 1), Plays(1, 1), Plays(1, 2)>>}
=============================================================================
