---------------------------- MODULE MCReinitControl ----------------------------
(* Two fields: fps, which venc.json names, and one that a request may set and   *)
(* that the file leaves out.  The rates are the sensor's and one above it.      *)
EXTENDS ReinitControl

MCInFile  == {"fps"}
MCUnfiled == {"flip"}
MCValues  == {1, 2}
===============================================================================
