---------------------------- MODULE MCEffectCmd ----------------------------
(***************************************************************************)
(* Every effect name with every kind of argument: two numbers that differ  *)
(* from each other and from the zeros of calloc, something that is no      *)
(* number, and a missing key.                                              *)
(***************************************************************************)
EXTENDS EffectCmd

Numbers == {7, 90}
Odd == {NotANumber, Absent}

Command(name, args) == [name |-> name, args |-> args]

(* Two clips of four numbers, and each with one key that is odd.           *)
Clips == {<<7, 90, 7, 7>>, <<90, 7, 90, 7>>}
OddClips == {[c EXCEPT ![i] = o] : c \in Clips, i \in 1 .. 4, o \in Odd}

MCCommands ==
    {Command(name, << >>) : name \in {"Normal", "Skin", "Clip", Unreadable}}
      \cup {Command(name, <<a>>) : name \in {"Rotate", "Scale"},
                                  a \in Numbers \cup Odd}
      \cup {Command("Clip", c) : c \in Clips \cup OddClips}

MCBeginnings == {BlankEffect, InitEffectCmd}

(* What the sample application sends, in any order: RenderActivity sends   *)
(* Normal, HomeActivity Rotate.                                            *)
AppCommands == {Command("Normal", << >>), Command("Rotate", <<90>>)}
AppBeginnings == {InitEffectCmd}
=============================================================================
