----------------------------- MODULE MCSdkHeap -----------------------------
(* SdkHeap with two paths and a command of every kind for the parameters:  *)
(* one that drops them, one that writes them, one that is refused.         *)
EXTENDS SdkHeap

CONSTANTS photoA, photoB, noPath

MCPath == {photoA, photoB}

Effect(name, args) == [name |-> name, args |-> args]

MCCommands == { Effect("Normal", << >>), Effect("Rotate", <<90>>),
                Effect("Rotate", <<Absent>>) }
=============================================================================
