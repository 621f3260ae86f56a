------------------------------ MODULE MCLiveSet -------------------------------
(* venc starts with its output on, above the sensor's rate, or off.            *)
EXTENDS LiveSet

MCBoot == {[bitrate |-> 1, fps |-> 4, gop |-> 1, server |-> "a", enabled |-> 1],
           [bitrate |-> 1, fps |-> 2, gop |-> 1, server |-> "",  enabled |-> 0]}
===============================================================================
