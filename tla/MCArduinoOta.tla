---------------------------- MODULE MCArduinoOta ----------------------------
(***************************************************************************)
(* Three runs of espota.py; the first and the last file are as long as a   *)
(* chunk, the second takes two.                                            *)
(***************************************************************************)
EXTENDS ArduinoOta

Sizes == <<2, 3, 2>>
OneSize == <<2>>
=============================================================================
