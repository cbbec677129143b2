------------------------------ MODULE EepromMC ------------------------------
(* Instances of Eeprom: a save of two words that its callback repeats, in  *)
(* the second bank, and in the first bank an erase of the same kind of     *)
(* words and a program from the EEPROM library or from an interrupt.       *)
EXTENDS Eeprom

CONSTANTS save, put, get, wipe, w1, w2, w3, w4

AreaMC == save :> <<w1, w2>> @@ put :> <<w3, w4>> @@ get :> <<w3>>
          @@ wipe :> <<w4, w3>>
ControlMC == save :> "PROGRAM" @@ put :> "PROGRAM" @@ get :> "READ"
          @@ wipe :> "ERASE"
DataMC == save :> "saved" @@ put :> "put" @@ get :> Erased @@ wipe :> Erased
==============================================================================
