------------------------------- MODULE MCVoice -------------------------------
(***************************************************************************)
(* Instances of VoiceLink for TLC.                                         *)
(***************************************************************************)
EXTENDS VoiceLink, TLC
=============================================================================
