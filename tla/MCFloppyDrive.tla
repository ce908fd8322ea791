----------------------------- MODULE MCFloppyDrive -----------------------------
(* FloppyDrive with a sound and a damaged disk, two tracks, two sectors of  *)
(* two bytes in all: a transfer can be cut between its bytes.               *)
EXTENDS FloppyDrive

CONSTANTS sound, capture

MCDamaged == [disk \in Disk |-> IF disk = capture THEN {<<1, 0>>} ELSE {}]
===============================================================================
