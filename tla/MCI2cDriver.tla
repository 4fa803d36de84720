----------------------------- MODULE MCI2cDriver -----------------------------
(* The I2C driver for TLC. *)
EXTENDS I2cDriver
=============================================================================
