--------------------------- MODULE MCBathroomFan ---------------------------
(***************************************************************************)
(* Instances of BathroomFan for TLC: working times of one to three         *)
(* seconds, two thresholds, two hystereses, and humidities on both sides   *)
(* of every limit that they form.                                          *)
(***************************************************************************)
EXTENDS BathroomFan

MCTimes        == 0..4
MCThresholds   == {20, 95}
MCHystereses   == {0, 20}
MCHumidities   == {0, 1, 20, 75, 94, 95}
=============================================================================
