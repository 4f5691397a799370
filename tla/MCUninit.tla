------------------------------- MODULE MCUninit --------------------------------
(***************************************************************************)
(* An apply that is running, an init that comes after, and uninit.         *)
(***************************************************************************)
EXTENDS Uninit

================================================================================
