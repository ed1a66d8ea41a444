----------------------------- MODULE FileTransfer -----------------------------
(***************************************************************************)
(* What an upload and a download of a file (src/files.go) have in common:   *)
(* the length of the file and the budget of wrongMachine bounces.           *)
(***************************************************************************)
EXTENDS Naturals, Sequences

CONSTANTS
    Size,           \* the number of chunks of the file
    WmRetries       \* Config.WrongMachineRetries after New: at least 1

ASSUME TransferAssumption == Size \in Nat /\ WmRetries \in Nat \ {0}

\* Each loop over "attempt" makes WmRetries + 1 of them, counted from 1 here.
Attempts == 1 .. WmRetries + 1
===============================================================================
