------------------------------ MODULE MCVoice ------------------------------
(* An instance of VoiceBridge for TLC: the transcript of the first utterance *)
(* may be finalised twice, with other words; the second one interrupts.      *)
EXTENDS VoiceBridge, TLC

CONSTANTS i1, i2, t1, t2

TwoReadings == i1 :> {t1, t2} @@ i2 :> {}

=============================================================================
