----------------------------- MODULE MCPasscode -----------------------------
(* Small instances of Passcode for TLC.                                    *)
EXTENDS Passcode
=============================================================================
