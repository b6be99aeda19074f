-------------------------- MODULE MCChipzenSession ---------------------------
(* An instance of CaptureReader for TLC: the bot and the probe, two hands,  *)
(* a buffer of five events.                                                  *)
EXTENDS CaptureReader

AllSettings ==
  [provenance : {"live_unrated", "live_rated"}, research : BOOLEAN, probe : BOOLEAN, production : BOOLEAN,
   ready : BOOLEAN, cohort : {{"probe"}, {"script"}}, timeout : {59, 60}]

AllSinks == {{"file"}, {"stdout"}, {"file", "stdout"}}

=============================================================================
