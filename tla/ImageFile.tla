------------------------------ MODULE ImageFile ------------------------------
(***************************************************************************)
(* What the two codecs of jni/src/imgsdk.c share: the file being read, the *)
(* Bitmap_t that loadImage fills and saveImage writes, and how far the     *)
(* call under way has come.                                                *)
(*                                                                         *)
(* A picture is its lines, top line first; the pixels of a line are left   *)
(* out.  A row of memory holds a line, `whole` when all of the line's      *)
(* pixels are there as the file has them.                                  *)
(***************************************************************************)
EXTENDS Integers, Sequences

CONSTANTS
    Word,           \* sizes are computed modulo Word: 2^32 in the program
    MaxHeight,      \* bound: the lines of a picture
    MaxWidth        \* bound: the pixels of a line

ASSUME WordAssumption == Word \in Nat \ {0}
ASSUME BoundsAssumption == MaxHeight \in Nat /\ MaxWidth \in Nat

VARIABLES
    file,           \* the file that path names
    mem,            \* the Bitmap_t
    call,           \* what loadImage or saveImage is doing, or has done
    starved         \* malloc or calloc has failed

fileVars == <<file, mem, call, starved>>

Row == [line : 1 .. MaxHeight, whole : BOOLEAN]

Line(i) == [line |-> i, whole |-> TRUE]

(* The library went on without the data: what it made up.                  *)
Filler(i) == [line |-> i, whole |-> FALSE]

(* What calloc leaves in a row: nothing.                                   *)
Blank == [line |-> 0, whole |-> FALSE]

(* mem->form is the number of bytes of a pixel; rows is mem->base, in the  *)
(* order of the addresses.                                                 *)
Bitmap ==
    [form : 0 .. 4, width : 0 .. MaxWidth, height : 0 .. MaxHeight,
     rows : UNION {[1 .. n -> Row \cup {Blank}] : n \in 0 .. MaxHeight}]

NoBitmap == [form |-> 0, width |-> 0, height |-> 0, rows |-> << >>]

(* The bytes that a bitmap needs, and those that calloc is asked for.      *)
Bytes(width, height, form) == width * height * form
BlockSize(width, height, form) == Bytes(width, height, form) % Word
Overruns(width, height, form) ==
    BlockSize(width, height, form) < Bytes(width, height, form)

(* After a write outside a block: the process stops, or goes on and what   *)
(* the rows hold is anyone's guess.                                        *)
Corrupt(bitmap, next) ==
    \/ call' = "exited" /\ mem' = NoBitmap
    \/ call' = next /\ mem' = [bitmap EXCEPT !.rows = << >>]

(* The row at an address, also one outside the block.                      *)
RowAt(i) == IF i \in DOMAIN mem.rows THEN mem.rows[i] ELSE Blank

Calls ==
    {"none",        \* no call yet
     "png", "jpeg", \* read_png, read_jpeg under way
     "loaded",      \* loadImage returned without an error
     "readBack",    \* main has read the drawn picture into the bitmap
     "refused",     \* -1, or another negative number
     "toPng", "toJpeg", "saved",
     "exited"}      \* the library ended the process
=============================================================================
