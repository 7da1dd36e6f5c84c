-------------------------- MODULE ImageCodecProofs --------------------------
(***************************************************************************)
(* Proofs about ImageCodec for any files, damaged in any way, of any size: *)
(* its types, and that what a reader returns is the whole picture, what    *)
(* main reads back lies where it was, and what is saved is what is in      *)
(* memory.  The invariant follows a reader through its file: where it      *)
(* stands, and how many lines it has by then.                              *)
(***************************************************************************)
EXTENDS ImageCodec, SequenceTheorems, TLAPS

USE WordAssumption, BoundsAssumption

Faults == {"none", "crc", "method", "length", "zlib", "cut"}
Colors == {"gray", "rgb", "rgba", "graya", "palette"}
ChunkRecord == [name : ChunkNames, lines : Nat, ends : BOOLEAN, fault : Faults]
ItemNames == Markers \cup {"JUNK", "ROW"}

PngRecord ==
    [step : Steps, at : Nat \ {0}, lost : BOOLEAN, sig_bytes : {0, 8},
     mode : SUBSET {"IHDR", "PLTE", "IDAT"}, dims : BOOLEAN, palette : BOOLEAN,
     rowInit : BOOLEAN, row_number : 0 .. MaxHeight, taken : Nat]

JdsRecord ==
    [global_state : DStates, at : Nat \ {0}, saw : SUBSET Markers,
     eoi_reached : BOOLEAN, output_scanline : 0 .. MaxHeight]

JcsRecord == [global_state : CStates, next_scanline : Nat]

(* What main knows of its input says which of the two kinds the file is.   *)
FileInv ==
    /\ inputImageType \in {"none", "IMAGE_JPG", "IMAGE_PNG"}
    /\ inputImageType = "none" => file = NoFile
    /\ inputImageType = "IMAGE_JPG" => file \in JpegFiles
    /\ inputImageType = "IMAGE_PNG" => file \in PngFiles
    /\ call = "png" => inputImageType = "IMAGE_PNG"
    /\ call = "jpeg" => inputImageType = "IMAGE_JPG"
    /\ call \in {"loaded", "readBack"} => inputImageType # "none"
    /\ call \in Calls
    /\ starved \in BOOLEAN
    /\ postfix \in Postfixes

(* A bitmap has all of its rows, or its memory was overwritten.            *)
Rows(n) == [1 .. n -> Row \cup {Blank}]

MemInv ==
    /\ mem \in Bitmap
    /\ mem.rows = << >> \/ mem.rows \in Rows(mem.height)

(* libpng's reader.  Inside an IDAT there is an IDAT; past the last row    *)
(* all rows are there, whatever error brought it back to its setjmp.       *)
PngHeld(p) ==
    /\ p \in PngRecord
    /\ p.at \in 1 .. Len(file.chunks) + 1
    /\ p.row_number <= file.height

PngGood(p) ==
    /\ PngHeld(p)
    /\ p.step \in {"start", "rows", "finish", "tail"} =>
          p.at \in DOMAIN file.chunks /\ file.chunks[p.at].name = "IDAT"
    /\ p.step \in {"finish", "tail", "end", "done"} => p.row_number = file.height

PngInv ==
    /\ png \in PngRecord
    /\ call = "none" => png = NewReader
    /\ call = "png" => PngGood(png)

-----------------------------------------------------------------------------
(* The PNG reader.                                                         *)
LEMMA PngFileTyped ==
    ASSUME file \in PngFiles
    PROVE  /\ file.chunks \in Seq(ChunkRecord)
           /\ file.height \in 0 .. MaxHeight /\ file.width \in 0 .. MaxWidth
           /\ file.color \in Colors /\ file.deep \in BOOLEAN
  BY PngFilesAssumption DEF ChunkRecord, Faults, Colors

(* The fields of the reader that the invariant is about.                   *)
At(p, step, at, row_number) ==
    p \in PngRecord /\ p.step = step /\ p.at = at /\ p.row_number = row_number

LEMMA PngUpdates ==
    ASSUME NEW r \in PngRecord
    PROVE  /\ \A s \in Steps : At([r EXCEPT !.step = s], s, r.at, r.row_number)
           /\ At([r EXCEPT !.lost = TRUE], r.step, r.at, r.row_number)
           /\ At([r EXCEPT !.sig_bytes = 8], r.step, r.at, r.row_number)
           /\ \A n \in {"IHDR", "PLTE", "IDAT"} :
                 At([r EXCEPT !.mode = @ \cup {n}], r.step, r.at, r.row_number)
           /\ At([r EXCEPT !.dims = TRUE], r.step, r.at, r.row_number)
           /\ \A b \in BOOLEAN :
                 At([r EXCEPT !.palette = b], r.step, r.at, r.row_number)
           /\ \A b \in BOOLEAN :
                 At([r EXCEPT !.rowInit = b], r.step, r.at, r.row_number)
           /\ At([r EXCEPT !.at = @ + 1], r.step, r.at + 1, r.row_number)
           /\ At([r EXCEPT !.taken = 0], r.step, r.at, r.row_number)
           /\ At([r EXCEPT !.taken = @ + 1], r.step, r.at, r.row_number)
           /\ \A n \in 0 .. MaxHeight :
                 At([r EXCEPT !.row_number = n], r.step, r.at, n)
<1>1. \A s \in Steps : At([r EXCEPT !.step = s], s, r.at, r.row_number)
  BY DEF At, PngRecord
<1>2. /\ At([r EXCEPT !.lost = TRUE], r.step, r.at, r.row_number)
      /\ At([r EXCEPT !.sig_bytes = 8], r.step, r.at, r.row_number)
      /\ At([r EXCEPT !.dims = TRUE], r.step, r.at, r.row_number)
  BY DEF At, PngRecord
<1>3. \A n \in {"IHDR", "PLTE", "IDAT"} :
         At([r EXCEPT !.mode = @ \cup {n}], r.step, r.at, r.row_number)
  BY DEF At, PngRecord
<1>4. \A b \in BOOLEAN :
         /\ At([r EXCEPT !.palette = b], r.step, r.at, r.row_number)
         /\ At([r EXCEPT !.rowInit = b], r.step, r.at, r.row_number)
  BY DEF At, PngRecord
<1>5. At([r EXCEPT !.at = @ + 1], r.step, r.at + 1, r.row_number)
  BY DEF At, PngRecord
<1>6. /\ At([r EXCEPT !.taken = 0], r.step, r.at, r.row_number)
      /\ At([r EXCEPT !.taken = @ + 1], r.step, r.at, r.row_number)
  BY DEF At, PngRecord
<1>7. \A n \in 0 .. MaxHeight : At([r EXCEPT !.row_number = n], r.step, r.at, n)
  BY DEF At, PngRecord
<1>. QED
  BY <1>1, <1>2, <1>3, <1>4, <1>5, <1>6, <1>7

(* Back to the setjmp.                                                     *)
LEMMA PngRetried ==
    ASSUME NEW p \in PngRecord, PngHeld(p), Retry(p) \/ RetryLost(p), UNCHANGED file
    PROVE  PngGood(png)'
<1> DEFINE q == [p EXCEPT !.step = "sig"]
<1>1. At(q, "sig", p.at, p.row_number)
  BY PngUpdates DEF Steps
<1>2. At([q EXCEPT !.lost = TRUE], "sig", p.at, p.row_number)
  BY <1>1, PngUpdates DEF At
<1>3. png' = q \/ png' = [q EXCEPT !.lost = TRUE]
  BY DEF Retry, RetryLost
<1>4. At(png', "sig", p.at, p.row_number)
  BY <1>1, <1>2, <1>3
<1>. QED
  BY <1>4 DEF PngGood, PngHeld, At

LEMMA PngCrcFinished ==
    ASSUME file \in PngFiles, NEW p \in PngRecord, PngHeld(p), p.at \in DOMAIN file.chunks,
           \/ Here.fault \in {"crc", "cut"}
           \/ p.step \in {"info", "end", "done"},
           p.step \in {"end", "done"} => p.row_number = file.height,
           CrcFinish(p), UNCHANGED file
    PROVE  PngGood(png)'
<1> DEFINE n == [p EXCEPT !.at = @ + 1]
           q == [n EXCEPT !.taken = 0]
<1>1. At(n, p.step, p.at + 1, p.row_number)
  BY PngUpdates
<1>2. At(q, p.step, p.at + 1, p.row_number)
  BY <1>1, PngUpdates DEF At
<1>3. q = [p EXCEPT !.at = @ + 1, !.taken = 0]
  OBVIOUS
<1>4. Len(file.chunks) \in Nat /\ DOMAIN file.chunks = 1 .. Len(file.chunks)
  BY PngFileTyped
<1>5. p.at + 1 \in 1 .. Len(file.chunks) + 1
  BY <1>4
<1>6. PngHeld(q)
  BY <1>2, <1>5 DEF PngHeld, At
<1>7. CASE Retry(q) \/ RetryLost(p)
  BY <1>2, <1>6, <1>7, PngRetried DEF At
<1>8. CASE png' = q /\ Here.fault \notin {"crc", "cut"}
  BY <1>2, <1>6, <1>8 DEF PngGood, PngHeld, At
<1>. QED
  BY <1>3, <1>7, <1>8 DEF CrcFinish

(* Each kind of chunk.                                                     *)
LEMMA PngChunk ==
    ASSUME file \in PngFiles, png \in PngRecord, PngGood(png), UNCHANGED file,
           HandleIHDR \/ HandlePLTE \/ HandleAncillary \/ HandleIEND \/ InfoIDAT \/ EndIDAT
    PROVE  PngGood(png)'
<1>1. /\ Len(file.chunks) \in Nat /\ DOMAIN file.chunks = 1 .. Len(file.chunks)
      /\ png.at \in Nat \ {0} /\ png.row_number \in 0 .. MaxHeight
  BY PngFileTyped DEF PngRecord
<1>2. PngHeld(png) /\ png.step \in {"info", "end"} /\ png.at \in DOMAIN file.chunks
  BY <1>1 DEF PngGood, PngHeld, HandleIHDR, HandlePLTE, HandleAncillary, HandleIEND, InfoIDAT,
              EndIDAT, ReadChunk, AtEof
<1>3. png.step = "end" => png.row_number = file.height
  BY DEF PngGood
<1>4. ASSUME NEW p \in PngRecord, At(p, png.step, png.at, png.row_number),
             Retry(p) \/ RetryLost(p) \/ CrcFinish(p)
      PROVE  PngGood(png)'
  <2>1. PngHeld(p) /\ p.at \in DOMAIN file.chunks /\ p.step \in {"info", "end"}
    BY <1>2, <1>4 DEF PngHeld, At
  <2>2. p.step = "end" => p.row_number = file.height
    BY <1>3, <1>4 DEF At
  <2>. QED
    BY <1>4, <2>1, <2>2, PngRetried, PngCrcFinished
<1>5. ASSUME NEW p \in PngRecord, At(p, png.step, png.at + 1, png.row_number), png' = p
      PROVE  PngGood(png)'
  <2>1. p.at \in 1 .. Len(file.chunks) + 1
    BY <1>1, <1>2, <1>5 DEF At
  <2>. QED
    BY <1>2, <1>3, <1>5, <2>1 DEF PngGood, PngHeld, At
<1>6. At(png, png.step, png.at, png.row_number)
  BY DEF At
<1>7. CASE HandleIHDR
  <2> DEFINE p == [png EXCEPT !.mode = @ \cup {"IHDR"}]
             d == [p EXCEPT !.dims = TRUE]
             q == [p EXCEPT !.dims = TRUE, !.at = @ + 1]
  <2>1. At(p, png.step, png.at, png.row_number)
    BY PngUpdates
  <2>2. At(d, png.step, png.at, png.row_number)
    BY <2>1, PngUpdates DEF At
  <2>3. At([d EXCEPT !.at = @ + 1], png.step, png.at + 1, png.row_number)
    <3>1. /\ d \in PngRecord /\ d.step = png.step /\ d.at = png.at
          /\ d.row_number = png.row_number
      BY <2>2 DEF At
    <3>2. At([d EXCEPT !.at = @ + 1], d.step, d.at + 1, d.row_number)
      BY <3>1, PngUpdates
    <3>. QED
      BY <3>1, <3>2
  <2>4. q = [d EXCEPT !.at = @ + 1]
    OBVIOUS
  <2>5. At(q, png.step, png.at + 1, png.row_number)
    BY <2>3, <2>4
  <2>6. \/ RetryLost(png) \/ CrcFinish(p)
        \/ Retry(q) \/ png' = q
    BY <1>7 DEF HandleIHDR
  <2>7. CASE Retry(q)
    <3>1. q.at \in 1 .. Len(file.chunks) + 1
      BY <1>1, <1>2, <2>5 DEF At
    <3>2. PngHeld(q)
      BY <1>2, <2>5, <3>1 DEF PngHeld, At
    <3>. QED
      BY <2>5, <2>7, <3>2, PngRetried DEF At
  <2>. QED
    BY <1>4, <1>5, <1>6, <2>1, <2>5, <2>6, <2>7 DEF At
<1>8. CASE HandlePLTE
  <2> DEFINE p == [png EXCEPT !.mode = @ \cup {"PLTE"}]
             q == [png EXCEPT !.mode = @ \cup {"PLTE"}, !.palette = Here.fault = "none"]
  <2>1. At(p, png.step, png.at, png.row_number)
    BY PngUpdates
  <2>2. At([p EXCEPT !.palette = Here.fault = "none"], png.step, png.at, png.row_number)
    <3>1. (Here.fault = "none") \in BOOLEAN
      OBVIOUS
    <3>2. p \in PngRecord /\ p.step = png.step /\ p.at = png.at /\ p.row_number = png.row_number
      BY <2>1 DEF At
    <3> HIDE DEF p
    <3>3. At([p EXCEPT !.palette = Here.fault = "none"], p.step, p.at, p.row_number)
      BY <3>1, <3>2, PngUpdates
    <3>. QED
      BY <3>2, <3>3
  <2>3. q = [p EXCEPT !.palette = Here.fault = "none"]
    OBVIOUS
  <2>4. RetryLost(png) \/ CrcFinish(png) \/ CrcFinish(q)
    BY <1>8 DEF HandlePLTE
  <2>. QED
    BY <1>4, <1>6, <2>2, <2>3, <2>4 DEF At
<1>9. CASE HandleAncillary
  <2>1. At([png EXCEPT !.at = @ + 1], png.step, png.at + 1, png.row_number)
    BY PngUpdates
  <2>2. RetryLost(png) \/ png' = [png EXCEPT !.at = @ + 1]
    BY <1>9 DEF HandleAncillary, SkipAncillary
  <2>. QED
    BY <1>4, <1>5, <1>6, <2>1, <2>2 DEF At
<1>10. CASE HandleIEND
  <2> DEFINE p == [png EXCEPT !.step = "done"]
  <2>1. At(p, "done", png.at, png.row_number)
    BY PngUpdates DEF Steps
  <2>2. \/ RetryLost(png) \/ CrcFinish(png)
        \/ png.step = "end" /\ CrcFinish(p)
    BY <1>10 DEF HandleIEND
  <2>3. CASE png.step = "end" /\ CrcFinish(p)
    <3>1. PngHeld(p) /\ p.at \in DOMAIN file.chunks /\ p.step = "done"
      BY <1>2, <2>1 DEF PngHeld, At
    <3>2. p.row_number = file.height
      BY <1>3, <2>1, <2>3 DEF At
    <3>. QED
      BY <2>1, <2>3, <3>1, <3>2, PngCrcFinished DEF At
  <2>. QED
    BY <1>4, <1>6, <2>2, <2>3 DEF At
<1>11. CASE InfoIDAT
  <2> DEFINE p == [png EXCEPT !.mode = @ \cup {"IDAT"}]
             q == [png EXCEPT !.mode = @ \cup {"IDAT"}, !.step = "start"]
  <2>1. At(p, png.step, png.at, png.row_number)
    BY PngUpdates
  <2>2. At([p EXCEPT !.step = "start"], "start", png.at, png.row_number)
    <3>1. p \in PngRecord /\ p.at = png.at /\ p.row_number = png.row_number
      BY <2>1 DEF At
    <3> HIDE DEF p
    <3>2. At([p EXCEPT !.step = "start"], "start", p.at, p.row_number)
      BY <3>1, PngUpdates DEF Steps
    <3>. QED
      BY <3>1, <3>2
  <2>3. q = [p EXCEPT !.step = "start"]
    OBVIOUS
  <2>4. Here.name = "IDAT" /\ (RetryLost(png) \/ png' = q)
    BY <1>11 DEF InfoIDAT, ReadChunk
  <2>5. CASE png' = q
    BY <1>2, <2>2, <2>3, <2>4, <2>5 DEF PngGood, PngHeld, At, Here
  <2>. QED
    BY <1>4, <1>6, <2>4, <2>5 DEF At
<1>12. CASE EndIDAT
  BY <1>4, <1>6, <1>12 DEF EndIDAT, At
<1>. QED
  BY <1>7, <1>8, <1>9, <1>10, <1>11, <1>12

(* The lines of the image.                                                 *)
LEMMA PngNextIDAT ==
    ASSUME file \in PngFiles, png \in PngRecord, PngGood(png), UNCHANGED file,
           png.step \in {"start", "rows", "finish", "tail"},
           NEW step \in {"rows", "tail"}, NextIDAT(step), Here.fault # "zlib",
           step = "tail" => png.row_number = file.height
    PROVE  PngGood(png)'
<1> DEFINE n == [png EXCEPT !.at = @ + 1]
           q == [n EXCEPT !.taken = 0]
<1>1. /\ Len(file.chunks) \in Nat /\ DOMAIN file.chunks = 1 .. Len(file.chunks)
      /\ png.at \in Nat \ {0}
  BY PngFileTyped DEF PngRecord
<1>2. PngHeld(png) /\ png.at \in DOMAIN file.chunks /\ Here.name = "IDAT"
  BY DEF PngGood, Here
<1>10. At(n, png.step, png.at + 1, png.row_number)
  BY PngUpdates
<1>3. At(q, png.step, png.at + 1, png.row_number)
  BY <1>10, PngUpdates DEF At
<1>4. PngHeld(q)
  <2>1. q.at \in 1 .. Len(file.chunks) + 1
    BY <1>1, <1>2, <1>3 DEF At
  <2>. QED
    BY <1>2, <1>3, <2>1 DEF PngHeld, At
<1>5. q = [png EXCEPT !.at = @ + 1, !.taken = 0]
  OBVIOUS
<1>6. At([q EXCEPT !.step = step], step, png.at + 1, png.row_number)
  <2>1. q \in PngRecord /\ q.at = png.at + 1 /\ q.row_number = png.row_number
    BY <1>3 DEF At
  <2>2. At([q EXCEPT !.step = step], step, q.at, q.row_number)
    BY <2>1, PngUpdates DEF Steps
  <2>. QED
    BY <2>1, <2>2
<1>7. CASE Here.fault # "none" /\ CrcFinish(png)
  <2>1. Here.fault \in FaultsOf("IDAT")
    BY <1>2, PngFilesAssumption DEF Here
  <2>2. Here.fault \in {"crc", "cut"}
    BY <1>7, <2>1 DEF FaultsOf
  <2>3. png.step \in {"end", "done"} => png.row_number = file.height
    OBVIOUS
  <2>. QED
    BY <1>2, <1>7, <2>2, <2>3, PngCrcFinished
<1>8. CASE /\ png.at < Len(file.chunks) /\ file.chunks[png.at + 1].name = "IDAT"
           /\ png' = [q EXCEPT !.step = step]
  <2>1. png.at + 1 \in DOMAIN file.chunks
    BY <1>1, <1>8
  <2>. QED
    BY <1>2, <1>4, <1>3, <1>6, <1>8, <2>1 DEF PngGood, PngHeld, At
<1>9. CASE RetryLost(q)
  BY <1>3, <1>4, <1>9, PngRetried DEF At
<1>. QED
  BY <1>5, <1>7, <1>8, <1>9 DEF NextIDAT

LEMMA PngImage ==
    ASSUME file \in PngFiles, png \in PngRecord, PngGood(png), UNCHANGED file,
           StartImage \/ ReadRow \/ ReadMore \/ LastRow \/ FinishIDAT \/ TailIDAT
    PROVE  PngGood(png)'
<1>1. /\ Len(file.chunks) \in Nat /\ DOMAIN file.chunks = 1 .. Len(file.chunks)
      /\ file.height \in 0 .. MaxHeight
      /\ png.at \in Nat \ {0} /\ png.row_number \in 0 .. MaxHeight
  BY PngFileTyped DEF PngRecord
<1>2. PngHeld(png) /\ png.step \in {"start", "rows", "finish", "tail"}
  BY DEF PngGood, StartImage, ReadRow, ReadMore, LastRow, FinishIDAT, TailIDAT
<1>3. png.at \in DOMAIN file.chunks /\ file.chunks[png.at].name = "IDAT"
  BY <1>2 DEF PngGood
<1>4. png.step \in {"finish", "tail"} => png.row_number = file.height
  BY DEF PngGood
<1>5. CASE StartImage
  <2> DEFINE p == [png EXCEPT !.rowInit = TRUE]
             q == [png EXCEPT !.rowInit = TRUE, !.step = "rows"]
  <2>1. At(p, png.step, png.at, png.row_number)
    BY PngUpdates
  <2>2. At([p EXCEPT !.step = "rows"], "rows", png.at, png.row_number)
    BY <2>1, PngUpdates DEF At, Steps
  <2>3. q = [p EXCEPT !.step = "rows"]
    OBVIOUS
  <2>4. PngHeld(p)
    BY <1>2, <2>1 DEF PngHeld, At
  <2>5. RetryLost(png) \/ RetryLost(p) \/ png' = q
    BY <1>5 DEF StartImage
  <2>6. CASE png' = q
    BY <1>2, <1>3, <2>2, <2>3, <2>6 DEF PngGood, PngHeld, At
  <2>. QED
    BY <1>2, <2>1, <2>4, <2>5, <2>6, PngRetried DEF At
<1>6. CASE ReadRow
  <2> DEFINE row == png.row_number + 1
             p == [png EXCEPT !.row_number = row]
             q == [png EXCEPT !.row_number = @ + 1, !.taken = @ + 1]
  <2>1. row \in 0 .. MaxHeight /\ row <= file.height
    BY <1>1, <1>6 DEF ReadRow, RowsLeft
  <2>2. At(p, png.step, png.at, row)
    BY <2>1, PngUpdates
  <2>3. At([p EXCEPT !.taken = @ + 1], png.step, png.at, row)
    BY <2>2, PngUpdates DEF At
  <2>4. q = [p EXCEPT !.taken = @ + 1]
    OBVIOUS
  <2>5. png' = q /\ png.step = "rows"
    BY <1>6 DEF ReadRow
  <2>. QED
    BY <1>2, <1>3, <2>1, <2>3, <2>4, <2>5 DEF PngGood, PngHeld, At
<1>7. CASE ReadMore
  BY <1>2, <1>7, PngRetried, PngNextIDAT DEF ReadMore
<1>8. CASE LastRow
  <2>1. png.row_number = file.height
    BY <1>1, <1>2, <1>8 DEF LastRow, RowsLeft, PngHeld
  <2>2. At([png EXCEPT !.step = "finish"], "finish", png.at, png.row_number)
    BY PngUpdates DEF Steps
  <2>. QED
    BY <1>2, <1>3, <1>8, <2>1, <2>2 DEF LastRow, PngGood, PngHeld, At
<1>9. CASE FinishIDAT
  <2>1. At([png EXCEPT !.step = "tail"], "tail", png.at, png.row_number)
    BY PngUpdates DEF Steps
  <2>2. png.row_number = file.height
    BY <1>4, <1>9 DEF FinishIDAT
  <2>3. \/ png' = [png EXCEPT !.step = "tail"]
        \/ NextIDAT("tail") /\ Here.fault # "zlib"
    BY <1>9 DEF FinishIDAT
  <2>4. CASE png' = [png EXCEPT !.step = "tail"]
    BY <1>2, <1>3, <2>1, <2>2, <2>4 DEF PngGood, PngHeld, At
  <2>. QED
    BY <1>2, <2>2, <2>3, <2>4, PngNextIDAT
<1>10. CASE TailIDAT
  <2> DEFINE p == [png EXCEPT !.step = "end"]
  <2>1. At(p, "end", png.at, png.row_number)
    BY PngUpdates DEF Steps
  <2>2. PngHeld(p) /\ p.at \in DOMAIN file.chunks /\ p.row_number = file.height
    BY <1>2, <1>3, <1>4, <1>10, <2>1 DEF TailIDAT, PngHeld, At
  <2>3. CrcFinish(p)
    BY <1>10 DEF TailIDAT
  <2>. QED
    BY <2>1, <2>2, <2>3, PngCrcFinished DEF At
<1>. QED
  BY <1>5, <1>6, <1>7, <1>8, <1>9, <1>10

LEMMA PngKept ==
    ASSUME file \in PngFiles, png \in PngRecord, PngGood(png), UNCHANGED file, PngStep
    PROVE  PngGood(png)'
<1>1. PngHeld(png)
  BY DEF PngGood
<1>2. CASE ReadSig
  <2> DEFINE p == [png EXCEPT !.sig_bytes = 8]
             q == [png EXCEPT !.sig_bytes = 8, !.step = "info"]
  <2>1. At(p, png.step, png.at, png.row_number)
    BY PngUpdates
  <2>2. At([p EXCEPT !.step = "info"], "info", png.at, png.row_number)
    <3>1. p \in PngRecord /\ p.at = png.at /\ p.row_number = png.row_number
      BY <2>1 DEF At
    <3> HIDE DEF p
    <3>2. At([p EXCEPT !.step = "info"], "info", p.at, p.row_number)
      BY <3>1, PngUpdates DEF Steps
    <3>. QED
      BY <3>1, <3>2
  <2>3. q = [p EXCEPT !.step = "info"]
    OBVIOUS
  <2>4. PngHeld(p)
    BY <1>1, <2>1 DEF PngHeld, At
  <2>5. RetryLost(png) \/ Retry(p) \/ png' = q
    BY <1>2 DEF ReadSig
  <2>6. CASE png' = q
    BY <1>1, <2>2, <2>3, <2>6 DEF PngGood, PngHeld, At
  <2>. QED
    BY <1>1, <2>1, <2>4, <2>5, <2>6, PngRetried DEF At
<1>3. CASE NoMoreChunks
  BY <1>1, <1>3, PngRetried DEF NoMoreChunks
<1>. QED
  BY <1>2, <1>3, PngChunk, PngImage DEF PngStep

-----------------------------------------------------------------------------
(* The JPEG reader.  Before the scan no SOS was read; in it the reader     *)
(* stands behind the data of d lines, and has given out line by line, the  *)
(* first d of them with their data.                                        *)
FirstSos(sos) ==
    /\ sos \in DOMAIN file.items /\ file.items[sos] = "SOS"
    /\ \A i \in 1 .. sos - 1 : file.items[i] # "SOS"

Given(sos, d) ==
    \A i \in sos + 1 .. sos + d : i \in DOMAIN file.items /\ file.items[i] = "ROW"

InScan(at, line) ==
    \E sos \in DOMAIN file.items, d \in 0 .. line :
       /\ FirstSos(sos) /\ Given(sos, d)
       /\ at = sos + d + 1
       /\ d < line => ~(at \in DOMAIN file.items /\ file.items[at] = "ROW")

(* The lines given out are in their rows, from the bottom up.              *)
Decoded(line) ==
    SizeFits =>
       /\ mem.rows \in Rows(file.height)
       /\ \A n \in 1 .. line :
             mem.rows[file.height + 1 - n] =
                IF LinesGiven(file, n) THEN Line(n) ELSE Filler(n)

HasSize ==
    /\ file.width # 0 /\ file.height # 0
    /\ mem.width = file.width /\ mem.height = file.height /\ mem.form = file.comps

JpegGood ==
    /\ jds.at \in 1 .. Len(file.items) + 1
    /\ "SOF" \in jds.saw => file.width # 0 /\ file.height # 0
    /\ jds.global_state \in {"DSTATE_START", "DSTATE_INHEADER"} =>
          /\ jds.output_scanline = 0
          /\ \A i \in 1 .. jds.at - 1 : file.items[i] # "SOS"
    /\ jds.global_state = "DSTATE_READY" =>
          /\ jds.output_scanline = 0 /\ "SOF" \in jds.saw
          /\ InScan(jds.at, 0)
    /\ jds.global_state = "DSTATE_SCANNING" =>
          /\ jds.output_scanline <= file.height /\ HasSize
          /\ InScan(jds.at, jds.output_scanline) /\ Decoded(jds.output_scanline)
    /\ jds.global_state = "DSTATE_STOPPING" => HasSize /\ Decoded(file.height)

JpegInv ==
    /\ jds \in JdsRecord
    /\ call = "none" => jds = NewDecompress
    /\ call = "jpeg" => JpegGood

LEMMA JpegFileTyped ==
    ASSUME file \in JpegFiles
    PROVE  /\ file.items \in Seq(ItemNames) /\ file.comps \in 1 .. 4
           /\ file.height \in 0 .. MaxHeight /\ file.width \in 0 .. MaxWidth
           /\ Len(file.items) \in Nat /\ DOMAIN file.items = 1 .. Len(file.items)
<1>1. /\ file.items \in Seq(ItemNames) /\ file.comps \in 1 .. 4
      /\ file.height \in 0 .. MaxHeight /\ file.width \in 0 .. MaxWidth
  BY JpegFilesAssumption DEF ItemNames
<1>. QED
  BY <1>1

(* In the scan, the next line has its data exactly if the reader is there. *)
LEMMA NextLine ==
    ASSUME file \in JpegFiles, NEW line \in Nat, NEW at \in Nat, InScan(at, line)
    PROVE  /\ file.items[at] = "ROW" /\ at \in DOMAIN file.items =>
                 LinesGiven(file, line + 1) /\ InScan(at + 1, line + 1)
           /\ ~(file.items[at] = "ROW" /\ at \in DOMAIN file.items) =>
                 ~LinesGiven(file, line + 1) /\ InScan(at, line + 1)
<1>1. Len(file.items) \in Nat /\ DOMAIN file.items = 1 .. Len(file.items)
  BY JpegFileTyped
<1>2. PICK sos \in DOMAIN file.items, d \in 0 .. line :
         /\ FirstSos(sos) /\ Given(sos, d)
         /\ at = sos + d + 1
         /\ d < line => ~(at \in DOMAIN file.items /\ file.items[at] = "ROW")
  BY DEF InScan
<1>3. CASE file.items[at] = "ROW" /\ at \in DOMAIN file.items
  <2>1. d = line
    BY <1>2, <1>3
  <2>2. Given(sos, line + 1)
    <3> SUFFICES ASSUME NEW i \in sos + 1 .. sos + (line + 1)
                 PROVE  i \in DOMAIN file.items /\ file.items[i] = "ROW"
      BY DEF Given
    <3>1. i \in sos + 1 .. sos + line \/ i = at
      BY <1>1, <1>2, <2>1
    <3>. QED
      BY <1>2, <1>3, <2>1, <3>1 DEF Given
  <2>3. LinesGiven(file, line + 1)
    BY <1>2, <2>2 DEF LinesGiven, FirstSos, Given
  <2>4. line + 1 \in 0 .. line + 1 /\ at + 1 = sos + (line + 1) + 1
    BY <1>1, <1>2, <2>1
  <2>5. InScan(at + 1, line + 1)
    BY <1>2, <2>2, <2>4 DEF InScan
  <2>. QED
    BY <1>3, <2>3, <2>5
<1>4. CASE ~(file.items[at] = "ROW" /\ at \in DOMAIN file.items)
  <2>1. d \in 0 .. line + 1
    OBVIOUS
  <2>2. InScan(at, line + 1)
    BY <1>2, <1>4, <2>1 DEF InScan
  <2>3. ASSUME LinesGiven(file, line + 1) PROVE FALSE
    <3>1. PICK first \in DOMAIN file.items :
             /\ FirstSos(first) /\ Given(first, line + 1)
      BY <2>3 DEF LinesGiven, FirstSos, Given
    <3>2. first = sos
      <4>1. first \in Nat \ {0} /\ sos \in Nat \ {0}
        BY <1>1
      <4>2. ASSUME first < sos PROVE FALSE
        <5>1. first \in 1 .. sos - 1
          BY <4>1, <4>2
        <5>. QED
          BY <1>2, <3>1, <5>1 DEF FirstSos
      <4>3. ASSUME sos < first PROVE FALSE
        <5>1. sos \in 1 .. first - 1
          BY <4>1, <4>3
        <5>. QED
          BY <1>2, <3>1, <5>1 DEF FirstSos
      <4>. QED
        BY <4>1, <4>2, <4>3
    <3>3. at \in sos + 1 .. sos + (line + 1)
      BY <1>1, <1>2
    <3>. QED
      BY <1>4, <3>1, <3>2, <3>3 DEF Given
  <2>. QED
    BY <1>4, <2>2, <2>3
<1>. QED
  BY <1>3, <1>4

(* The decompress struct under each update.                                *)
Jds(j, state, at, line) ==
    /\ j \in JdsRecord /\ j.global_state = state
    /\ j.at = at /\ j.output_scanline = line

LEMMA JdsUpdates ==
    ASSUME NEW j \in JdsRecord
    PROVE  /\ \A state \in DStates :
                 LET k == [j EXCEPT !.global_state = state]
                 IN  Jds(k, state, j.at, j.output_scanline) /\ k.saw = j.saw
           /\ LET k == [j EXCEPT !.at = @ + 1]
              IN  Jds(k, j.global_state, j.at + 1, j.output_scanline) /\ k.saw = j.saw
           /\ \A saw \in SUBSET Markers :
                 LET k == [j EXCEPT !.saw = saw]
                 IN  Jds(k, j.global_state, j.at, j.output_scanline) /\ k.saw = saw
           /\ \A b \in BOOLEAN :
                 LET k == [j EXCEPT !.eoi_reached = b]
                 IN  Jds(k, j.global_state, j.at, j.output_scanline) /\ k.saw = j.saw
           /\ \A line \in 0 .. MaxHeight :
                 LET k == [j EXCEPT !.output_scanline = line]
                 IN  Jds(k, j.global_state, j.at, line) /\ k.saw = j.saw
<1>1. \A state \in DStates :
         LET k == [j EXCEPT !.global_state = state]
         IN  Jds(k, state, j.at, j.output_scanline) /\ k.saw = j.saw
  BY DEF Jds, JdsRecord
<1>2. LET k == [j EXCEPT !.at = @ + 1]
      IN  Jds(k, j.global_state, j.at + 1, j.output_scanline) /\ k.saw = j.saw
  BY DEF Jds, JdsRecord
<1>3. \A saw \in SUBSET Markers :
         LET k == [j EXCEPT !.saw = saw]
         IN  Jds(k, j.global_state, j.at, j.output_scanline) /\ k.saw = saw
  BY DEF Jds, JdsRecord
<1>4. \A b \in BOOLEAN :
         LET k == [j EXCEPT !.eoi_reached = b]
         IN  Jds(k, j.global_state, j.at, j.output_scanline) /\ k.saw = j.saw
  BY DEF Jds, JdsRecord
<1>5. \A line \in 0 .. MaxHeight :
         LET k == [j EXCEPT !.output_scanline = line]
         IN  Jds(k, j.global_state, j.at, line) /\ k.saw = j.saw
  BY DEF Jds, JdsRecord
<1>. QED
  BY <1>1, <1>2, <1>3, <1>4, <1>5

(* Bitmaps.                                                                *)
LEMMA RowsTyped ==
    /\ Blank \in Row \cup {Blank}
    /\ \A i \in 1 .. MaxHeight : Line(i) \in Row /\ Filler(i) \in Row
  BY DEF Row, Blank, Line, Filler

LEMMA BitmapTyped ==
    ASSUME NEW form \in 0 .. 4, NEW width \in 0 .. MaxWidth, NEW height \in 0 .. MaxHeight,
           NEW rows, rows = << >> \/ rows \in Rows(height)
    PROVE  [form |-> form, width |-> width, height |-> height, rows |-> rows] \in Bitmap
<1>1. 0 \in 0 .. MaxHeight /\ 1 .. 0 = {}
  OBVIOUS
<1>2. << >> \in [1 .. 0 -> Row \cup {Blank}]
  BY <1>1
<1>3. rows \in UNION {[1 .. n -> Row \cup {Blank}] : n \in 0 .. MaxHeight}
  BY <1>1, <1>2 DEF Rows
<1>. QED
  BY <1>3 DEF Bitmap

LEMMA RowStored ==
    ASSUME MemInv, mem.rows # << >>, NEW i \in 1 .. mem.height, NEW row \in Row
    PROVE  LET new == [mem EXCEPT !.rows[i] = row]
           IN  /\ new \in Bitmap /\ new.rows \in Rows(mem.height)
               /\ new.rows = [mem.rows EXCEPT ![i] = row]
               /\ new.width = mem.width /\ new.height = mem.height /\ new.form = mem.form
<1> DEFINE new == [mem EXCEPT !.rows[i] = row]
           rows == [mem.rows EXCEPT ![i] = row]
<1>1. mem.rows \in Rows(mem.height) /\ mem \in Bitmap
  BY DEF MemInv
<1>2. rows \in Rows(mem.height)
  BY <1>1 DEF Rows
<1>3. mem.form \in 0 .. 4 /\ mem.width \in 0 .. MaxWidth /\ mem.height \in 0 .. MaxHeight
  BY <1>1 DEF Bitmap
<1>4. new = [form |-> mem.form, width |-> mem.width, height |-> mem.height, rows |-> rows]
  <2> DEFINE S == UNION {[1 .. n -> Row \cup {Blank}] : n \in 0 .. MaxHeight}
  <2>1. mem \in [form : 0 .. 4, width : 0 .. MaxWidth, height : 0 .. MaxHeight, rows : S]
    BY <1>1 DEF Bitmap
  <2> HIDE DEF S
  <2>. QED
    BY <2>1
<1>5. new \in Bitmap
  BY <1>2, <1>3, <1>4, BitmapTyped
<1>. QED
  BY <1>2, <1>4, <1>5

(* A size that fits is asked for in full.                                  *)
LEMMA Fitting ==
    ASSUME NEW width \in Nat, NEW height \in Nat, NEW form \in Nat,
           Bytes(width, height, form) < Word
    PROVE  /\ BlockSize(width, height, form) = Bytes(width, height, form)
           /\ ~Overruns(width, height, form)
<1> DEFINE size == width * height * form
<1>1. size \in Nat
  OBVIOUS
<1>2. \A x \in Nat : x < Word => x % Word = x
  OBVIOUS
<1>3. size % Word = size
  BY <1>1, <1>2 DEF Bytes
<1>. QED
  BY <1>1, <1>3 DEF BlockSize, Bytes, Overruns

(* The marks of a reader before and in the scan do not hang on its call.   *)
LEMMA JpegHeader ==
    ASSUME file \in JpegFiles, IsJpeg, jds \in JdsRecord, JpegGood,
           ReadHeader, UNCHANGED <<file, inputImageType>>, call' = "jpeg", call = "jpeg"
    PROVE  jds' \in JdsRecord /\ JpegGood' /\ UNCHANGED mem
<1> DEFINE state == IF Item = "SOS" THEN "DSTATE_READY" ELSE "DSTATE_INHEADER"
           saw == jds.saw \cup ({Item} \cap Markers)
           k == [jds EXCEPT !.global_state = state]
           l == [k EXCEPT !.at = @ + 1]
           m == [l EXCEPT !.saw = saw]
<1>1. /\ Len(file.items) \in Nat /\ DOMAIN file.items = 1 .. Len(file.items)
      /\ jds.at \in Nat \ {0} /\ jds.saw \in SUBSET Markers
  BY JpegFileTyped DEF JdsRecord
<1>2. /\ Item # "EOI"
      /\ Item \in Markers => MarkerAccepted(Item)
      /\ jds' = [jds EXCEPT !.global_state = state, !.at = @ + 1,
                            !.saw = @ \cup ({Item} \cap Markers)]
      /\ UNCHANGED mem
      /\ jds.global_state \in {"DSTATE_START", "DSTATE_INHEADER"}
  BY DEF ReadHeader, ErrorExit, Decompress, fileVars
<1>3. jds.at \in DOMAIN file.items /\ Item = file.items[jds.at]
  BY <1>1, <1>2 DEF Item, JpegGood
<1>4. Jds(k, state, jds.at, jds.output_scanline) /\ k.saw = jds.saw
  BY JdsUpdates DEF DStates
<1>5. Jds(l, state, jds.at + 1, jds.output_scanline) /\ l.saw = jds.saw
  <2>1. k \in JdsRecord /\ k.at = jds.at
    BY <1>4 DEF Jds
  <2>2. Jds(l, k.global_state, k.at + 1, k.output_scanline) /\ l.saw = k.saw
    BY <2>1, JdsUpdates
  <2>. QED
    BY <1>4, <2>2 DEF Jds
<1>6. Jds(m, state, jds.at + 1, jds.output_scanline) /\ m.saw = saw
  <2>1. saw \in SUBSET Markers
    BY <1>1
  <2>2. l \in JdsRecord /\ l.global_state = state /\ l.at = jds.at + 1
        /\ l.output_scanline = jds.output_scanline
    BY <1>5 DEF Jds
  <2> HIDE DEF l, saw
  <2>3. Jds([l EXCEPT !.saw = saw], l.global_state, l.at, l.output_scanline)
        /\ [l EXCEPT !.saw = saw].saw = saw
    BY <2>1, <2>2, JdsUpdates
  <2>. QED
    BY <2>2, <2>3
<1>7. jds' = m
  BY <1>2
<1>8. jds.output_scanline = 0 /\ \A i \in 1 .. jds.at - 1 : file.items[i] # "SOS"
  BY <1>2 DEF JpegGood
<1>9. "SOF" \in saw => file.width # 0 /\ file.height # 0
  <2>1. CASE "SOF" \in jds.saw
    BY <2>1 DEF JpegGood
  <2>2. CASE Item = "SOF"
    <3>1. MarkerAccepted("SOF")
      BY <1>2, <2>2 DEF Markers
    <3>. QED
      BY <3>1 DEF MarkerAccepted
  <2>. QED
    BY <2>1, <2>2
<1>10. jds.at + 1 \in 1 .. Len(file.items) + 1
  BY <1>1, <1>3
<1>11. CASE Item = "SOS"
  <2>1. MarkerAccepted("SOS")
    BY <1>2, <1>11 DEF Markers
  <2>2. "SOF" \in saw
    BY <2>1 DEF MarkerAccepted, Saw
  <2>3. FirstSos(jds.at)
    BY <1>3, <1>8, <1>11 DEF FirstSos
  <2>4. 0 \in 0 .. 0 /\ jds.at + 1 = jds.at + 0 + 1 /\ jds.at + 1 .. jds.at + 0 = {}
    BY <1>1
  <2>5. Given(jds.at, 0)
    BY <2>4 DEF Given
  <2>6. InScan(jds.at + 1, 0)
    BY <1>3, <2>3, <2>4, <2>5 DEF InScan
  <2>. QED
    BY <1>2, <1>6, <1>7, <1>8, <1>9, <1>10, <1>11, <2>2, <2>6
       DEF JpegGood, Jds, InScan, FirstSos, Given
<1>12. CASE Item # "SOS"
  <2>1. \A i \in 1 .. (jds.at + 1) - 1 : file.items[i] # "SOS"
    BY <1>1, <1>3, <1>8, <1>12
  <2>. QED
    BY <1>2, <1>6, <1>7, <1>8, <1>9, <1>10, <1>12, <2>1 DEF JpegGood, Jds
<1>. QED
  BY <1>11, <1>12

LEMMA JpegStart ==
    ASSUME file \in JpegFiles, IsJpeg, jds \in JdsRecord, JpegGood, MemInv,
           StartDecompress, UNCHANGED <<file, inputImageType>>, call = "jpeg"
    PROVE  jds' \in JdsRecord /\ MemInv' /\ (call' = "jpeg" => JpegGood')
<1>1. /\ file.comps \in 1 .. 4 /\ file.height \in 0 .. MaxHeight
      /\ file.width \in 0 .. MaxWidth
  BY JpegFileTyped
<1>2. JpegBitmap.rows \in Rows(file.height)
  BY <1>1 DEF JpegBitmap, Rows
<1>3. /\ JpegBitmap \in Bitmap
      /\ [JpegBitmap EXCEPT !.rows = << >>] \in Bitmap
      /\ NoBitmap \in Bitmap
  <2>1. [JpegBitmap EXCEPT !.rows = << >>]
           = [form |-> file.comps, width |-> file.width, height |-> file.height,
              rows |-> << >>]
    BY DEF JpegBitmap
  <2>2. JpegBitmap = [form |-> file.comps, width |-> file.width, height |-> file.height,
                      rows |-> JpegBitmap.rows]
    BY DEF JpegBitmap
  <2>3. file.comps \in 0 .. 4 /\ 0 \in 0 .. 4 /\ 0 \in 0 .. MaxWidth /\ 0 \in 0 .. MaxHeight
    BY <1>1
  <2>4. JpegBitmap \in Bitmap
    BY <1>1, <1>2, <2>2, <2>3, BitmapTyped
  <2>5. [JpegBitmap EXCEPT !.rows = << >>] \in Bitmap
    BY <1>1, <2>1, <2>3, BitmapTyped
  <2>6. NoBitmap \in Bitmap
    BY <2>3, BitmapTyped DEF NoBitmap
  <2>. QED
    BY <2>4, <2>5, <2>6
<1>4. CASE ErrorExit
  BY <1>4 DEF ErrorExit, MemInv
<1>5. CASE ~ErrorExit
  <2> DEFINE j == [jds EXCEPT !.global_state = "DSTATE_SCANNING"]
  <2>1. jds' = j /\ jds.global_state = "DSTATE_READY"
    BY <1>5 DEF StartDecompress
  <2>2. /\ Jds(j, "DSTATE_SCANNING", jds.at, jds.output_scanline)
        /\ j.saw = jds.saw
    BY JdsUpdates DEF DStates
  <2>3. /\ jds.output_scanline = 0 /\ InScan(jds.at, 0)
        /\ file.width # 0 /\ file.height # 0
    BY <2>1 DEF JpegGood
  <2>4. \/ mem' = JpegBitmap
        \/ mem' = [JpegBitmap EXCEPT !.rows = << >>] /\ Overruns(file.width, file.height, file.comps)
        \/ mem' = NoBitmap /\ call' = "exited"
        \/ mem' = mem /\ call' = "exited"
    BY <1>5 DEF StartDecompress, Corrupt
  <2> DEFINE overwritten == [JpegBitmap EXCEPT !.rows = << >>]
  <2>9. /\ JpegBitmap.width = file.width /\ JpegBitmap.height = file.height
        /\ JpegBitmap.form = file.comps
        /\ overwritten.width = file.width /\ overwritten.height = file.height
        /\ overwritten.form = file.comps /\ overwritten.rows = << >>
        /\ NoBitmap.rows = << >>
    BY DEF JpegBitmap, NoBitmap
  <2> HIDE DEF overwritten
  <2>5. MemInv'
    <3>1. CASE mem' = JpegBitmap
      BY <1>2, <1>3, <2>9, <3>1 DEF MemInv
    <3>2. CASE mem' = overwritten
      BY <1>3, <2>9, <3>2 DEF MemInv, overwritten
    <3>3. CASE mem' = NoBitmap
      BY <1>3, <2>9, <3>3 DEF MemInv
    <3>4. CASE mem' = mem
      BY <3>4 DEF MemInv
    <3>. QED
      BY <2>4, <3>1, <3>2, <3>3, <3>4 DEF overwritten
  <2>6. ASSUME call' = "jpeg"
        PROVE  /\ mem'.width = file.width /\ mem'.height = file.height
               /\ mem'.form = file.comps
               /\ SizeFits => mem'.rows \in Rows(file.height)
    <3>1. \/ mem' = JpegBitmap
          \/ mem' = [JpegBitmap EXCEPT !.rows = << >>] /\ Overruns(file.width, file.height, file.comps)
      BY <2>4, <2>6
    <3>2. SizeFits => ~Overruns(file.width, file.height, file.comps)
      <4>1. file.width \in Nat /\ file.height \in Nat /\ file.comps \in Nat
        BY <1>1
      <4>. QED
        BY <4>1, Fitting DEF SizeFits, FormOfFile
    <3>3. CASE mem' = JpegBitmap
      BY <1>2, <2>9, <3>3
    <3>4. CASE mem' = overwritten /\ Overruns(file.width, file.height, file.comps)
      BY <2>9, <3>2, <3>4
    <3>. QED
      BY <3>1, <3>3, <3>4 DEF overwritten
  <2>7. \A n \in 1 .. 0 : FALSE
    OBVIOUS
  <2>8. ASSUME call' = "jpeg" PROVE JpegGood'
    BY <1>1, <2>1, <2>2, <2>3, <2>6, <2>7, <2>8
       DEF JpegGood, Jds, HasSize, Decoded, InScan, FirstSos, Given, SizeFits, FormOfFile,
           IsJpeg
  <2>. QED
    BY <2>1, <2>2, <2>5, <2>8 DEF Jds
<1>. QED
  BY <1>4, <1>5

LEMMA JpegScanline ==
    ASSUME file \in JpegFiles, IsJpeg, jds \in JdsRecord, JpegGood, MemInv,
           ReadScanline, UNCHANGED <<file, inputImageType>>, call = "jpeg"
    PROVE  jds' \in JdsRecord /\ MemInv' /\ JpegGood' /\ call' = "jpeg"
<1> DEFINE at == jds.at
           line == jds.output_scanline
           next == IF Item = "ROW" THEN at + 1 ELSE at
           row == IF Item = "ROW" THEN Line(line + 1) ELSE Filler(line + 1)
           k == [jds EXCEPT !.output_scanline = line + 1]
           given == at \in DOMAIN file.items /\ file.items[at] = "ROW"
<1>1. /\ Len(file.items) \in Nat /\ DOMAIN file.items = 1 .. Len(file.items)
      /\ file.height \in 0 .. MaxHeight /\ at \in Nat \ {0} /\ line \in 0 .. MaxHeight
      /\ jds.saw \in SUBSET Markers /\ MaxHeight \in Nat
  BY JpegFileTyped, BoundsAssumption DEF JdsRecord
<1>2. /\ jds.global_state = "DSTATE_SCANNING"
      /\ line < file.height
      /\ mem' = IF mem.rows = << >> THEN mem ELSE [mem EXCEPT !.rows[RowOf(line)] = row]
      /\ jds' = [jds EXCEPT !.output_scanline = line + 1, !.at = next]
      /\ call' = call
  BY DEF ReadScanline, LinesLeft
<1>3. /\ HasSize /\ InScan(at, line) /\ Decoded(line)
      /\ at \in 1 .. Len(file.items) + 1
      /\ "SOF" \in jds.saw => file.width # 0 /\ file.height # 0
  BY <1>2 DEF JpegGood
<1>4. Item = "ROW" <=> given
  BY <1>1, <1>3 DEF Item
<1>5. /\ InScan(next, line + 1)
      /\ LinesGiven(file, line + 1) <=> given
      /\ next \in 1 .. Len(file.items) + 1
  <2>1. line \in Nat /\ at \in Nat
    BY <1>1
  <2>2. /\ given => LinesGiven(file, line + 1) /\ InScan(at + 1, line + 1)
        /\ ~given => ~LinesGiven(file, line + 1) /\ InScan(at, line + 1)
    BY <1>3, <2>1, NextLine
  <2>3. CASE given
    <3>1. next = at + 1 /\ at + 1 \in 1 .. Len(file.items) + 1
      BY <1>1, <1>4, <2>3
    <3>. QED
      BY <2>2, <2>3, <3>1
  <2>4. CASE ~given
    BY <1>3, <1>4, <2>2, <2>4
  <2>. QED
    BY <2>3, <2>4
<1>6. line + 1 \in 0 .. MaxHeight /\ line + 1 \in 1 .. MaxHeight
  BY <1>1, <1>2
<1>7. /\ jds' \in JdsRecord /\ jds'.global_state = "DSTATE_SCANNING"
      /\ jds'.at = next /\ jds'.output_scanline = line + 1 /\ jds'.saw = jds.saw
  <2>1. Jds(k, "DSTATE_SCANNING", at, line + 1) /\ k.saw = jds.saw
    BY <1>2, <1>6, JdsUpdates
  <2>2. k \in JdsRecord /\ k.at = at
    BY <2>1 DEF Jds
  <2>3. Jds([k EXCEPT !.at = @ + 1], k.global_state, k.at + 1, k.output_scanline)
        /\ [k EXCEPT !.at = @ + 1].saw = k.saw
    BY <2>2, JdsUpdates
  <2>4. jds' = k \/ jds' = [k EXCEPT !.at = @ + 1]
    <3>1. CASE Item = "ROW"
      <4>1. jds' = [jds EXCEPT !.output_scanline = line + 1, !.at = at + 1]
        BY <1>2, <3>1
      <4>2. [k EXCEPT !.at = @ + 1]
               = [jds EXCEPT !.output_scanline = line + 1, !.at = at + 1]
        OBVIOUS
      <4>. QED
        BY <4>1, <4>2
    <3>2. CASE Item # "ROW"
      <4>1. jds' = [jds EXCEPT !.output_scanline = line + 1, !.at = at]
        BY <1>2, <3>2
      <4>2. jds' = k
        BY <4>1 DEF JdsRecord
      <4>. QED
        BY <4>2
    <3>. QED
      BY <3>1, <3>2
  <2>5. jds'.at = next
    <3>1. CASE Item = "ROW"
      <4>1. jds' = [jds EXCEPT !.output_scanline = line + 1, !.at = at + 1]
        BY <1>2, <3>1
      <4>. QED
        BY <4>1, <3>1 DEF JdsRecord
    <3>2. CASE Item # "ROW"
      <4>1. jds' = [jds EXCEPT !.output_scanline = line + 1, !.at = at]
        BY <1>2, <3>2
      <4>. QED
        BY <4>1, <3>2 DEF JdsRecord
    <3>. QED
      BY <3>1, <3>2
  <2>6. CASE jds' = k
    BY <2>1, <2>5, <2>6 DEF Jds
  <2>7. CASE jds' = [k EXCEPT !.at = @ + 1]
    BY <2>1, <2>3, <2>5, <2>7 DEF Jds
  <2>. QED
    BY <2>4, <2>6, <2>7
<1>8. row \in Row
  BY <1>6, RowsTyped
<1>9. /\ MemInv'
      /\ mem'.width = mem.width /\ mem'.height = mem.height /\ mem'.form = mem.form
      /\ mem.rows # << >> => mem'.rows = [mem.rows EXCEPT ![file.height - line] = row]
  <2>1. CASE mem.rows = << >>
    BY <1>2, <2>1 DEF MemInv
  <2>2. CASE mem.rows # << >>
    <3>1. file.height - line \in 1 .. mem.height
      BY <1>1, <1>2, <1>3 DEF HasSize
    <3>2. mem' = [mem EXCEPT !.rows[file.height - line] = row]
      BY <1>2, <2>2 DEF RowOf
    <3> HIDE DEF row
    <3>3. /\ mem' \in Bitmap /\ mem'.rows \in Rows(mem.height)
          /\ mem'.rows = [mem.rows EXCEPT ![file.height - line] = row]
          /\ mem'.width = mem.width /\ mem'.height = mem.height /\ mem'.form = mem.form
      BY <1>8, <2>2, <3>1, <3>2, RowStored
    <3>. QED
      BY <3>3 DEF MemInv
  <2>. QED
    BY <2>1, <2>2
<1>10. ASSUME SizeFits
       PROVE  /\ mem'.rows \in Rows(file.height)
              /\ \A n \in 1 .. line + 1 :
                    mem'.rows[file.height + 1 - n] =
                       IF LinesGiven(file, n) THEN Line(n) ELSE Filler(n)
  <2>1. /\ mem.rows \in Rows(file.height)
        /\ \A n \in 1 .. line :
              mem.rows[file.height + 1 - n] =
                 IF LinesGiven(file, n) THEN Line(n) ELSE Filler(n)
    BY <1>3, <1>10 DEF Decoded
  <2>2. mem.rows # << >>
    <3>1. 1 \in 1 .. file.height
      BY <1>1, <1>3 DEF HasSize
    <3>2. 1 \in DOMAIN mem.rows
      BY <2>1, <3>1 DEF Rows
    <3>. QED
      BY <3>2
  <2>3. mem'.rows = [mem.rows EXCEPT ![file.height - line] = row]
    BY <1>9, <2>2
  <2>4. mem'.rows \in Rows(file.height)
    <3>1. row \in Row \cup {Blank}
      BY <1>8
    <3> HIDE DEF row
    <3>. QED
      BY <2>1, <2>3, <3>1 DEF Rows
  <2>5. ASSUME NEW n \in 1 .. line + 1
        PROVE  mem'.rows[file.height + 1 - n] =
                  IF LinesGiven(file, n) THEN Line(n) ELSE Filler(n)
    <3>1. CASE n = line + 1
      <4>1. file.height + 1 - n = file.height - line /\ file.height - line \in 1 .. file.height
        BY <1>1, <1>2, <3>1
      <4>2. mem'.rows[file.height - line] = row
        BY <2>1, <2>3, <4>1 DEF Rows
      <4>3. row = IF LinesGiven(file, n) THEN Line(n) ELSE Filler(n)
        BY <1>4, <1>5, <3>1
      <4>. QED
        BY <4>1, <4>2, <4>3
    <3>2. CASE n \in 1 .. line
      <4>1. /\ file.height + 1 - n \in 1 .. file.height
            /\ file.height + 1 - n # file.height - line
        BY <1>1, <1>2, <3>2
      <4>2. mem'.rows[file.height + 1 - n] = mem.rows[file.height + 1 - n]
        <5> HIDE DEF row
        <5>. QED
          BY <2>1, <2>3, <4>1 DEF Rows
      <4>. QED
        BY <2>1, <3>2, <4>2
    <3>. QED
      BY <1>1, <3>1, <3>2
  <2>. QED
    BY <2>4, <2>5
<1>11. \A n \in Nat : LinesGiven(file, n)' <=> LinesGiven(file, n)
  BY DEF LinesGiven
<1>12. (SizeFits =>
          /\ mem.rows \in Rows(file.height)
          /\ \A n \in 1 .. jds.output_scanline :
                mem.rows[file.height + 1 - n] =
                   IF LinesGiven(file, n) THEN Line(n) ELSE Filler(n))'
  <2>1. SizeFits' <=> SizeFits
    BY DEF SizeFits, FormOfFile, IsJpeg
  <2>2. \A n \in 1 .. line + 1 : n \in Nat
    BY <1>1
  <2>. QED
    BY <1>7, <1>10, <1>11, <2>1, <2>2 DEF Line, Filler, Rows, Row, Blank
<1>13. Decoded(jds.output_scanline)'
  BY <1>12 DEF Decoded
<1>14. InScan(jds.at, jds.output_scanline)'
  BY <1>5, <1>7 DEF InScan, FirstSos, Given
<1>15. HasSize'
  BY <1>3, <1>9 DEF HasSize
<1>. QED
  BY <1>1, <1>2, <1>3, <1>5, <1>7, <1>9, <1>13, <1>14, <1>15 DEF JpegGood

(* The decoded lines stay while nothing else is touched.                   *)
LEMMA JpegSame ==
    ASSUME UNCHANGED <<file, mem, inputImageType>>, file \in JpegFiles
    PROVE  /\ Decoded(file.height) => Decoded(file.height)'
           /\ HasSize => HasSize'
<1> DEFINE height == file.height
<1>1. \A n \in Nat : LinesGiven(file, n)' <=> LinesGiven(file, n)
  BY DEF LinesGiven
<1>2. SizeFits' <=> SizeFits
  BY DEF SizeFits, FormOfFile, IsJpeg, PngForm
<1>3. \A n \in 1 .. height : n \in Nat
  BY JpegFileTyped, BoundsAssumption
<1>4. Decoded(height) => Decoded(height)'
  BY <1>1, <1>2, <1>3 DEF Decoded, Line, Filler, Rows, Row, Blank
<1>. QED
  BY <1>4 DEF HasSize

LEMMA JpegTrailer ==
    ASSUME file \in JpegFiles, IsJpeg, jds \in JdsRecord, JpegGood,
           FinishDecompress \/ ReadTrailer, call' = "jpeg", call = "jpeg",
           UNCHANGED <<file, inputImageType>>
    PROVE  jds' \in JdsRecord /\ JpegGood' /\ UNCHANGED mem
<1>1. /\ Len(file.items) \in Nat /\ DOMAIN file.items = 1 .. Len(file.items)
      /\ file.height \in Nat /\ jds.at \in Nat \ {0}
      /\ jds.output_scanline \in 0 .. MaxHeight
  BY JpegFileTyped, BoundsAssumption DEF JdsRecord
<1>2. CASE FinishDecompress
  <2> DEFINE k == [jds EXCEPT !.global_state = "DSTATE_STOPPING"]
  <2>1. jds' = k /\ UNCHANGED mem /\ jds.global_state = "DSTATE_SCANNING"
        /\ ~(jds.output_scanline < file.height)
    BY <1>2 DEF FinishDecompress, Decompress, fileVars, LinesLeft
  <2>2. /\ Jds(k, "DSTATE_STOPPING", jds.at, jds.output_scanline)
        /\ k.saw = jds.saw
    BY JdsUpdates DEF DStates
  <2>3. jds.output_scanline = file.height
    BY <1>1, <2>1 DEF JpegGood
  <2>4. HasSize /\ Decoded(file.height)
    BY <2>1, <2>3 DEF JpegGood
  <2>5. Decoded(file.height)' /\ HasSize'
    BY <2>1, <2>4, JpegSame
  <2>. QED
    BY <2>1, <2>2, <2>5 DEF JpegGood, Jds
<1>3. CASE ReadTrailer
  <2> DEFINE ended == Item = "EOI"
             k == [jds EXCEPT !.eoi_reached = ended]
             next == IF ended THEN jds.at ELSE jds.at + 1
  <2>1. /\ jds' = [jds EXCEPT !.eoi_reached = ended, !.at = next]
        /\ UNCHANGED mem /\ jds.global_state = "DSTATE_STOPPING"
    BY <1>3 DEF ReadTrailer, ErrorExit, Decompress, fileVars
  <2>2. /\ Jds(k, "DSTATE_STOPPING", jds.at, jds.output_scanline) /\ k.saw = jds.saw
    BY <2>1, JdsUpdates
  <2>3. k \in JdsRecord /\ k.at = jds.at
    BY <2>2 DEF Jds
  <2>4. Jds([k EXCEPT !.at = @ + 1], k.global_state, k.at + 1, k.output_scanline)
        /\ [k EXCEPT !.at = @ + 1].saw = k.saw
    BY <2>3, JdsUpdates
  <2>5. next \in 1 .. Len(file.items) + 1
    BY <1>1 DEF JpegGood, Item
  <2>6. HasSize /\ Decoded(file.height)
    BY <2>1 DEF JpegGood
  <2>7. Decoded(file.height)' /\ HasSize'
    BY <2>1, <2>6, JpegSame
  <2>8. /\ jds' \in JdsRecord /\ jds'.global_state = "DSTATE_STOPPING"
        /\ jds'.at = next /\ jds'.saw = jds.saw
    <3>1. CASE ended
      <4>1. jds' = [jds EXCEPT !.eoi_reached = ended, !.at = jds.at] /\ next = jds.at
        BY <2>1, <3>1
      <4>2. jds' = k
        BY <4>1 DEF JdsRecord
      <4>. QED
        BY <2>2, <4>1, <4>2 DEF Jds
    <3>2. CASE ~ended
      <4>1. jds' = [jds EXCEPT !.eoi_reached = ended, !.at = jds.at + 1]
            /\ next = jds.at + 1
        BY <2>1, <3>2
      <4>2. [k EXCEPT !.at = @ + 1] = [jds EXCEPT !.eoi_reached = ended, !.at = jds.at + 1]
        OBVIOUS
      <4>. QED
        BY <2>2, <2>4, <4>1, <4>2 DEF Jds
    <3>. QED
      BY <3>1, <3>2
  <2>9. "SOF" \in jds.saw => file.width # 0 /\ file.height # 0
    BY DEF JpegGood
  <2>. QED
    BY <2>1, <2>5, <2>7, <2>8, <2>9 DEF JpegGood
<1>. QED
  BY <1>2, <1>3

-----------------------------------------------------------------------------
(* What loadImage leaves when it returns.                                  *)
TopDown == [i \in 1 .. file.height |-> Line(i)]

LoadedInv ==
    call = "loaded" =>
       /\ mem.width = file.width /\ mem.height = file.height /\ mem.form = FormOfFile
       /\ IsJpeg => Decoded(file.height)
       /\ ~IsJpeg /\ SizeFits /\ ~file.deep /\ PngForm # 0 => mem.rows = TopDown

(* Saving: the rows written so far are those of the memory.                *)
SavedRow == [line : 0 .. MaxHeight, whole : BOOLEAN]

SaveInv ==
    /\ jcs \in JcsRecord
    /\ call # "toJpeg" => jcs = NewCompress
    /\ jcs.global_state = "CSTATE_START" => jcs = NewCompress
    /\ jcs.global_state = "CSTATE_SCANNING" =>
          /\ jcs.next_scanline <= mem.height
          /\ out \in Seq(SavedRow) /\ Len(out) = jcs.next_scanline
          /\ \A i \in 1 .. jcs.next_scanline : out[i] = AsRead(RowAt(i))
    /\ call = "toJpeg" => postfix = "jpg"
    /\ call = "toPng" => postfix = "png"

CodecInv ==
    /\ FileInv /\ MemInv /\ PngInv /\ JpegInv
    /\ LoadedInv /\ SaveInv
    /\ ReadBackInPlace /\ SavedIsMemory

LEMMA CodecStart == CodecInit => CodecInv
<1> SUFFICES ASSUME CodecInit PROVE CodecInv
  OBVIOUS
<1> USE DEF CodecInit
<1>1. FileInv
  BY DEF FileInv, Calls, Postfixes
<1>2. MemInv
  <2>1. 0 \in 0 .. 4 /\ 0 \in 0 .. MaxWidth /\ 0 \in 0 .. MaxHeight
    OBVIOUS
  <2>2. NoBitmap \in Bitmap
    BY <2>1, BitmapTyped DEF NoBitmap
  <2>. QED
    BY <2>2 DEF MemInv, NoBitmap
<1>3. PngInv
  BY DEF PngInv, PngRecord, NewReader, Steps
<1>4. JpegInv
  BY DEF JpegInv, JdsRecord, NewDecompress, DStates
<1>5. SaveInv
  BY DEF SaveInv, JcsRecord, NewCompress, CStates
<1>. QED
  BY <1>1, <1>2, <1>3, <1>4, <1>5 DEF CodecInv, LoadedInv, ReadBackInPlace, SavedIsMemory

(* loadImage starts with a reader of either kind, or refuses.              *)
LEMMA CodecLoads ==
    ASSUME CodecInv, LoadJpeg \/ LoadPng \/ LoadRefused
    PROVE  CodecInv'
<1>1. call = "none" /\ UNCHANGED <<mem, starved, png, jds, jcs, out>>
  BY DEF LoadJpeg, LoadPng, LoadRefused
<1>2. /\ call' \in {"jpeg", "png", "refused"}
      /\ call' = "jpeg" => file' \in JpegFiles /\ inputImageType' = "IMAGE_JPG"
      /\ call' = "png" => file' \in PngFiles /\ inputImageType' = "IMAGE_PNG"
      /\ call' = "refused" => UNCHANGED <<file, inputImageType>>
      /\ postfix' \in Postfixes
  BY DEF LoadJpeg, LoadPng, LoadRefused, Postfixes
<1>3. FileInv'
  BY <1>1, <1>2 DEF CodecInv, FileInv, Calls
<1>4. MemInv'
  BY <1>1 DEF CodecInv, MemInv, Rows, Row, Blank, Bitmap
<1>5. PngInv'
  <2>1. png = NewReader /\ png \in PngRecord
    BY <1>1 DEF CodecInv, PngInv
  <2>2. ASSUME call' = "png" PROVE PngGood(png)'
    <3>1. file' \in PngFiles
      BY <1>2, <2>2
    <3>2. Len(file.chunks)' \in Nat /\ file.height' \in Nat
      BY <3>1, PngFilesAssumption, BoundsAssumption
    <3>3. 1 \in 1 .. Len(file.chunks)' + 1
      BY <3>2
    <3>4. png'.at = 1 /\ png'.row_number = 0 /\ png'.step = "sig" /\ png' \in PngRecord
      BY <1>1, <2>1 DEF NewReader
    <3>. QED
      BY <3>2, <3>3, <3>4 DEF PngGood, PngHeld
  <2>. QED
    BY <1>1, <1>2, <2>1, <2>2 DEF PngInv
<1>6. JpegInv'
  <2>1. jds = NewDecompress /\ jds \in JdsRecord
    BY <1>1 DEF CodecInv, JpegInv
  <2>2. ASSUME call' = "jpeg" PROVE JpegGood'
    <3>1. file' \in JpegFiles
      BY <1>2, <2>2
    <3>2. Len(file.items)' \in Nat
      BY <3>1, JpegFilesAssumption
    <3>3. 1 \in 1 .. Len(file.items)' + 1
      BY <3>2
    <3>4. /\ jds'.at = 1 /\ jds'.output_scanline = 0 /\ jds'.global_state = "DSTATE_START"
          /\ jds'.saw = {}
      BY <1>1, <2>1 DEF NewDecompress
    <3>. QED
      BY <3>3, <3>4 DEF JpegGood
  <2>. QED
    BY <1>1, <1>2, <2>1, <2>2 DEF JpegInv
<1>7. SaveInv'
  <2>1. jcs' = NewCompress /\ jcs' \in JcsRecord
    BY <1>1 DEF CodecInv, SaveInv
  <2>. QED
    BY <1>2, <2>1 DEF SaveInv, NewCompress
<1>. QED
  BY <1>2, <1>3, <1>4, <1>5, <1>6, <1>7 DEF CodecInv, LoadedInv, ReadBackInPlace, SavedIsMemory

(* The png_struct, while read_png runs and afterwards.                     *)
LEMMA PngBitmapTyped ==
    ASSUME file \in PngFiles, PngGood(png)
    PROVE  /\ PngForm \in 0 .. 4
           /\ PngBitmap = [form |-> PngForm, width |-> file.width,
                           height |-> file.height, rows |-> PngBitmap.rows]
           /\ PngBitmap.rows = << >> \/ PngBitmap.rows \in Rows(file.height)
           /\ PngBitmap \in Bitmap
           /\ [PngBitmap EXCEPT !.rows = << >>] \in Bitmap
<1>1. /\ file.height \in 0 .. MaxHeight /\ file.width \in 0 .. MaxWidth
      /\ file.color \in Colors
  BY PngFileTyped
<1>2. PngForm \in 0 .. 4
  BY <1>1 DEF PngForm, Colors
<1>3. PngBitmap = [form |-> PngForm, width |-> file.width,
                   height |-> file.height, rows |-> PngBitmap.rows]
  BY DEF PngBitmap
<1>4. PngBitmap.rows = << >> \/ PngBitmap.rows \in Rows(file.height)
  <2> DEFINE row(i) == IF i > png.row_number THEN Blank
                       ELSE IF file.deep THEN Filler(i) ELSE Line(i)
  <2>1. ASSUME NEW i \in 1 .. file.height PROVE row(i) \in Row \cup {Blank}
    BY <1>1, <2>1, RowsTyped
  <2>2. PngBitmap.rows = IF PngForm = 0 THEN << >> ELSE [i \in 1 .. file.height |-> row(i)]
    BY DEF PngBitmap
  <2> HIDE DEF row
  <2>. QED
    BY <2>1, <2>2 DEF Rows
<1>5. PngBitmap \in Bitmap
  BY <1>1, <1>2, <1>3, <1>4, BitmapTyped
<1>6. [PngBitmap EXCEPT !.rows = << >>]
         = [form |-> PngForm, width |-> file.width, height |-> file.height, rows |-> << >>]
  <2> DEFINE rows == PngBitmap.rows
  <2>1. PngBitmap = [form |-> PngForm, width |-> file.width, height |-> file.height,
                     rows |-> rows]
    BY <1>3
  <2> HIDE DEF rows
  <2>. QED
    BY <2>1
<1>7. [PngBitmap EXCEPT !.rows = << >>] \in Bitmap
  BY <1>1, <1>2, <1>6, BitmapTyped
<1>. QED
  BY <1>2, <1>3, <1>4, <1>5, <1>7

LEMMA PngCopied ==
    ASSUME file \in PngFiles, inputImageType = "IMAGE_PNG", PngGood(png), MemInv,
           CopyRows, UNCHANGED inputImageType
    PROVE  MemInv' /\ LoadedInv' /\ call' \in {"loaded", "exited"}
<1> DEFINE overwritten == [PngBitmap EXCEPT !.rows = << >>]
<1>1. /\ png.step = "done" /\ png.row_number = file.height
      /\ UNCHANGED <<file, png>>
  BY DEF CopyRows, PngGood
<1>2. /\ file.height \in 0 .. MaxHeight /\ file.width \in 0 .. MaxWidth
      /\ PngForm \in 0 .. 4
  BY PngFileTyped, PngBitmapTyped
<1>3. /\ PngBitmap.width = file.width /\ PngBitmap.height = file.height
      /\ PngBitmap.form = PngForm
      /\ overwritten.width = file.width /\ overwritten.height = file.height
      /\ overwritten.form = PngForm /\ overwritten.rows = << >>
      /\ NoBitmap.rows = << >>
  BY DEF PngBitmap, NoBitmap
<1>4. ~file.deep /\ PngForm # 0 => PngBitmap.rows = TopDown
  <2>1. ASSUME ~file.deep, PngForm # 0
        PROVE  PngBitmap.rows
                  = [i \in 1 .. file.height |-> IF i > png.row_number THEN Blank ELSE Line(i)]
    BY <2>1 DEF PngBitmap
  <2>2. \A i \in 1 .. file.height : ~(i > png.row_number)
    BY <1>1, <1>2
  <2>. QED
    BY <2>1, <2>2 DEF TopDown
<1>5. SizeFits => ~Overruns(file.width, file.height, PngForm)
  <2>1. file.width \in Nat /\ file.height \in Nat /\ PngForm \in Nat
    BY <1>2
  <2>. QED
    BY <2>1, Fitting DEF SizeFits, FormOfFile, IsJpeg
<1>6. NoBitmap \in Bitmap
  <2>1. 0 \in 0 .. 4 /\ 0 \in 0 .. MaxWidth /\ 0 \in 0 .. MaxHeight
    OBVIOUS
  <2>. QED
    BY <2>1, BitmapTyped DEF NoBitmap
<1>7. /\ PngBitmap.rows = << >> \/ PngBitmap.rows \in Rows(file.height)
      /\ PngBitmap \in Bitmap /\ overwritten \in Bitmap
  BY PngBitmapTyped
<1>8. \/ mem' = PngBitmap /\ call' = "loaded"
      \/ mem' = overwritten /\ call' \in {"loaded", "exited"}
         /\ Overruns(file.width, file.height, PngForm)
      \/ mem' = NoBitmap /\ call' = "exited"
      \/ mem' = mem /\ call' = "exited"
  BY DEF CopyRows, Corrupt
<1>9. /\ TopDown' = TopDown /\ (SizeFits' <=> SizeFits) /\ file' = file
      /\ FormOfFile' = PngForm /\ ~IsJpeg' /\ PngForm' = PngForm
  BY <1>1 DEF TopDown, SizeFits, FormOfFile, IsJpeg, PngForm
<1> HIDE DEF overwritten
<1>10. CASE mem' = PngBitmap /\ call' = "loaded"
  BY <1>3, <1>4, <1>7, <1>9, <1>10 DEF MemInv, LoadedInv
<1>11. CASE mem' = overwritten /\ call' \in {"loaded", "exited"}
            /\ Overruns(file.width, file.height, PngForm)
  BY <1>3, <1>5, <1>7, <1>9, <1>11 DEF MemInv, LoadedInv
<1>12. CASE mem' = NoBitmap /\ call' = "exited"
  BY <1>3, <1>6, <1>12 DEF MemInv, LoadedInv
<1>13. CASE mem' = mem /\ call' = "exited"
  BY <1>13 DEF MemInv, LoadedInv
<1>. QED
  BY <1>8, <1>10, <1>11, <1>12, <1>13

LEMMA PngReads ==
    ASSUME CodecInv, ReadPng, UNCHANGED <<jds, jcs, out, postfix, inputImageType>>
    PROVE  CodecInv'
<1>1. /\ call = "png" /\ inputImageType = "IMAGE_PNG" /\ file \in PngFiles
      /\ png \in PngRecord /\ PngGood(png) /\ file' = file
      /\ MemInv /\ FileInv /\ JpegInv /\ SaveInv
  BY DEF CodecInv, FileInv, PngInv, ReadPng, CopyRows, OutOfMemory, fileVars
<1>2. PngGood(png)'
  <2>1. CASE PngStep
    BY <1>1, <2>1, PngKept
  <2>2. CASE OutOfMemory
    <3>1. PICK b \in BOOLEAN : RetryLost([png EXCEPT !.rowInit = b])
      BY <2>2 DEF OutOfMemory
    <3>2. At([png EXCEPT !.rowInit = b], png.step, png.at, png.row_number)
      BY <1>1, PngUpdates
    <3>3. PngHeld([png EXCEPT !.rowInit = b])
      BY <1>1, <3>2 DEF PngGood, PngHeld, At
    <3>. QED
      BY <1>1, <3>1, <3>3, PngRetried DEF PngHeld
  <2>3. CASE CopyRows
    BY <1>1, <2>3 DEF CopyRows, PngGood, PngHeld
  <2>. QED
    BY <2>1, <2>2, <2>3 DEF ReadPng
<1>3. /\ MemInv' /\ LoadedInv'
      /\ call' \in {"png", "loaded", "exited"} /\ starved' \in BOOLEAN
  <2>1. CASE CopyRows
    BY <1>1, <2>1, PngCopied DEF FileInv, CopyRows
  <2>2. CASE UNCHANGED <<mem, call>> /\ starved' \in BOOLEAN
    BY <1>1, <2>2 DEF MemInv, LoadedInv
  <2>. QED
    BY <1>1, <2>1, <2>2 DEF ReadPng, OutOfMemory, FileInv, fileVars
<1>4. FileInv'
  BY <1>1, <1>3 DEF FileInv, Calls
<1>5. PngInv'
  BY <1>2, <1>3 DEF PngInv, PngGood, PngHeld
<1>6. JpegInv'
  BY <1>1, <1>3 DEF JpegInv
<1>7. SaveInv'
  <2>1. jcs' = NewCompress /\ jcs' \in JcsRecord
    BY <1>1 DEF SaveInv
  <2>. QED
    BY <1>3, <2>1 DEF SaveInv, NewCompress
<1>. QED
  BY <1>3, <1>4, <1>5, <1>6, <1>7 DEF CodecInv, ReadBackInPlace, SavedIsMemory

LEMMA JpegReads ==
    ASSUME CodecInv, ReadJpeg, UNCHANGED <<png, postfix, inputImageType>>
    PROVE  CodecInv'
<1>1. /\ call = "jpeg" /\ inputImageType = "IMAGE_JPG" /\ IsJpeg /\ file \in JpegFiles
      /\ jds \in JdsRecord /\ JpegGood
      /\ MemInv /\ FileInv /\ PngInv /\ SaveInv
  BY DEF CodecInv, FileInv, JpegInv, ReadJpeg, IsJpeg
<1>2. /\ file' = file /\ UNCHANGED <<jcs, out>>
      /\ call' \in {"jpeg", "loaded", "exited"} /\ starved' \in BOOLEAN
  BY <1>1 DEF ReadJpeg, ReadHeader, StartDecompress, ReadScanline, FinishDecompress,
              ReadTrailer, Loaded, ErrorExit, Decompress, Corrupt, fileVars, FileInv
<1>3. MemInv' /\ jds' \in JdsRecord /\ (call' = "jpeg" => JpegGood') /\ LoadedInv'
  <2>1. CASE ErrorExit
    BY <1>1, <2>1 DEF ErrorExit, MemInv, LoadedInv
  <2>2. CASE Loaded
    <3>1. UNCHANGED <<file, mem, jds>> /\ jds.global_state = "DSTATE_STOPPING"
      BY <2>2 DEF Loaded
    <3>2. HasSize /\ Decoded(file.height)
      BY <1>1, <3>1 DEF JpegGood
    <3>3. HasSize' /\ Decoded(file.height)'
      BY <1>1, <3>1, <3>2, JpegSame
    <3>4. IsJpeg'
      BY <1>1 DEF IsJpeg
    <3>5. LoadedInv'
      BY <3>3, <3>4 DEF LoadedInv, HasSize, FormOfFile
    <3>. QED
      BY <1>1, <2>2, <3>1, <3>5 DEF MemInv, Loaded
  <2>3. CASE ReadHeader /\ ~ErrorExit
    <3>1. call' = "jpeg"
      BY <1>1, <2>3 DEF ReadHeader, Decompress, fileVars
    <3>. QED
      BY <1>1, <1>2, <2>3, <3>1, JpegHeader DEF MemInv, LoadedInv
  <2>4. CASE StartDecompress /\ ~ErrorExit
    <3>1. call' # "loaded"
      BY <1>1, <2>4 DEF StartDecompress, Corrupt
    <3>. QED
      BY <1>1, <1>2, <2>4, <3>1, JpegStart DEF LoadedInv
  <2>5. CASE ReadScanline
    BY <1>1, <1>2, <2>5, JpegScanline DEF LoadedInv
  <2>6. CASE (FinishDecompress \/ ReadTrailer) /\ ~ErrorExit
    <3>1. call' = "jpeg"
      BY <1>1, <2>6 DEF FinishDecompress, ReadTrailer, Decompress, fileVars
    <3>. QED
      BY <1>1, <1>2, <2>6, <3>1, JpegTrailer DEF MemInv, LoadedInv
  <2>. QED
    BY <2>1, <2>2, <2>3, <2>4, <2>5, <2>6 DEF ReadJpeg
<1>4. FileInv'
  BY <1>1, <1>2 DEF FileInv, Calls
<1>5. PngInv'
  BY <1>1, <1>2 DEF PngInv
<1>6. JpegInv'
  BY <1>2, <1>3 DEF JpegInv
<1>7. SaveInv'
  <2>1. jcs' = NewCompress /\ jcs' \in JcsRecord
    BY <1>1, <1>2 DEF SaveInv
  <2>. QED
    BY <1>2, <2>1 DEF SaveInv, NewCompress
<1>. QED
  BY <1>2, <1>3, <1>4, <1>5, <1>6, <1>7 DEF CodecInv, ReadBackInPlace, SavedIsMemory

-----------------------------------------------------------------------------
(* Reading the drawn picture back.                                         *)
LEMMA Packed ==
    ASSUME NEW width \in Nat, NEW height \in Nat, NEW form \in {3, 4},
           form = 4 \/ width % 4 = 0
    PROVE  /\ RoundUp(form * width, 4) = width * form
           /\ (height - 1) * (width * form) + form * width = Bytes(width, height, form)
<1>1. RoundUp(form * width, 4) = width * form
  <2>1. CASE form = 4
    <3>1. (4 * width + 4 - 1) \div 4 = width
      OBVIOUS
    <3>. QED
      BY <2>1, <3>1 DEF RoundUp
  <2>2. CASE form = 3 /\ width % 4 = 0
    <3> DEFINE q == width \div 4
    <3>1. q \in Nat /\ width = 4 * q
      BY <2>2
    <3> HIDE DEF q
    <3>2. (3 * (4 * q) + 4 - 1) \div 4 = 3 * q
      BY <3>1
    <3>. QED
      BY <2>2, <3>1, <3>2 DEF RoundUp
  <2>. QED
    BY <2>1, <2>2
<1>2. (height - 1) * (width * form) + form * width = Bytes(width, height, form)
  <2>1. CASE form = 3
    <3>1. (height - 1) * (3 * width) + 3 * width = width * height * 3
      OBVIOUS
    <3>. QED
      BY <2>1, <3>1 DEF Bytes
  <2>2. CASE form = 4
    <3>1. (height - 1) * (4 * width) + 4 * width = width * height * 4
      OBVIOUS
    <3>. QED
      BY <2>2, <3>1 DEF Bytes
  <2>. QED
    BY <2>1, <2>2
<1>. QED
  BY <1>1, <1>2

(* What an intact JPEG has at each place.                                  *)
LEMMA IntactItems ==
    ASSUME file \in JpegFiles, IntactJpeg(file)
    PROVE  /\ file.height \in Nat \ {0} /\ file.width # 0
           /\ Len(file.items) = 5 + file.height
           /\ file.items[1] = "SOI" /\ file.items[2] = "TABLES"
           /\ file.items[3] = "SOF" /\ file.items[4] = "SOS"
           /\ \A i \in 1 .. file.height : file.items[4 + i] = "ROW"
           /\ file.items[5 + file.height] = "EOI"
<1> DEFINE head == <<"SOI", "TABLES", "SOF", "SOS">>
           rows == [i \in 1 .. file.height |-> "ROW"]
           tail == <<"EOI">>
           front == head \o rows
<1>1. file.height \in Nat \ {0} /\ file.width # 0
  BY JpegFileTyped, BoundsAssumption DEF IntactJpeg
<1>2. /\ head \in Seq(ItemNames) /\ Len(head) = 4
      /\ rows \in Seq(ItemNames) /\ Len(rows) = file.height
      /\ tail \in Seq(ItemNames) /\ Len(tail) = 1
  BY <1>1 DEF ItemNames, Markers
<1>3. file.items = front \o tail
  BY DEF IntactJpeg
<1>4. /\ head[1] = "SOI" /\ head[2] = "TABLES" /\ head[3] = "SOF" /\ head[4] = "SOS"
      /\ tail[1] = "EOI" /\ \A i \in 1 .. file.height : rows[i] = "ROW"
  OBVIOUS
<1> HIDE DEF head, rows, tail
<1>5. /\ front \in Seq(ItemNames) /\ Len(front) = 4 + file.height
      /\ \A i \in 1 .. 4 + file.height :
            front[i] = IF i <= 4 THEN head[i] ELSE rows[i - 4]
  <2>1. /\ front \in Seq(ItemNames) /\ Len(front) = Len(head) + Len(rows)
        /\ \A i \in 1 .. Len(head) + Len(rows) :
              front[i] = IF i <= Len(head) THEN head[i] ELSE rows[i - Len(head)]
    <3>1. head \in Seq(ItemNames) /\ rows \in Seq(ItemNames)
      BY <1>2
    <3>. QED
      BY <3>1, ConcatProperties
  <2> HIDE DEF front
  <2>. QED
    BY <1>2, <2>1
<1> HIDE DEF front
<1>6. /\ Len(front \o tail) = 5 + file.height
      /\ \A i \in 1 .. 5 + file.height :
            (front \o tail)[i] = IF i <= 4 + file.height THEN front[i]
                                 ELSE tail[i - (4 + file.height)]
  <2>1. /\ Len(front \o tail) = Len(front) + Len(tail)
        /\ \A i \in 1 .. Len(front) + Len(tail) :
              (front \o tail)[i] = IF i <= Len(front) THEN front[i] ELSE tail[i - Len(front)]
    BY <1>2, <1>5, ConcatProperties
  <2>2. Len(front) + Len(tail) = 5 + file.height
    BY <1>1, <1>2, <1>5
  <2>. QED
    BY <1>5, <2>1, <2>2
<1>7. ASSUME NEW i \in 1 .. 4 PROVE file.items[i] = head[i]
  <2>1. /\ i \in 1 .. 4 + file.height /\ i \in 1 .. 5 + file.height /\ i <= 4
        /\ i <= 4 + file.height
    BY <1>1
  <2>. QED
    BY <1>3, <1>5, <1>6, <2>1
<1>8. ASSUME NEW i \in 1 .. file.height PROVE file.items[4 + i] = "ROW"
  <2>1. \A h \in Nat : \A n \in 1 .. h :
           /\ 4 + n \in 1 .. 4 + h /\ 4 + n \in 1 .. 5 + h
           /\ ~(4 + n <= 4) /\ 4 + n <= 4 + h /\ (4 + n) - 4 = n
    OBVIOUS
  <2>2. /\ 4 + i \in 1 .. 4 + file.height /\ 4 + i \in 1 .. 5 + file.height
        /\ ~(4 + i <= 4) /\ 4 + i <= 4 + file.height /\ (4 + i) - 4 = i
    BY <1>1, <2>1, Zenon
  <2>3. front[4 + i] = "ROW"
    BY <1>4, <1>5, <2>2
  <2>. QED
    BY <1>3, <1>6, <2>2, <2>3
<1>9. file.items[5 + file.height] = "EOI"
  <2>1. /\ 5 + file.height \in 1 .. 5 + file.height
        /\ ~(5 + file.height <= 4 + file.height)
        /\ (5 + file.height) - (4 + file.height) = 1
    BY <1>1
  <2>. QED
    BY <1>3, <1>4, <1>6, <2>1
<1>10. Len(file.items) = 5 + file.height
  BY <1>3, <1>6
<1>11. 1 \in 1 .. 4 /\ 2 \in 1 .. 4 /\ 3 \in 1 .. 4 /\ 4 \in 1 .. 4
  OBVIOUS
<1>. QED
  BY <1>1, <1>4, <1>7, <1>8, <1>9, <1>10, <1>11

(* An intact JPEG has the data of all of its lines.                        *)
LEMMA IntactLines ==
    ASSUME file \in JpegFiles, IntactJpeg(file), NEW n \in 1 .. file.height
    PROVE  LinesGiven(file, n)
<1>1. /\ file.height \in Nat /\ DOMAIN file.items = 1 .. 5 + file.height
      /\ file.items[1] = "SOI" /\ file.items[2] = "TABLES"
      /\ file.items[3] = "SOF" /\ file.items[4] = "SOS"
      /\ \A i \in 1 .. file.height : file.items[4 + i] = "ROW"
  BY IntactItems, JpegFileTyped
<1>2. 4 \in DOMAIN file.items /\ \A i \in 1 .. 4 - 1 : file.items[i] # "SOS"
  BY <1>1
<1>3. ASSUME NEW i \in 4 + 1 .. 4 + n
      PROVE  i \in DOMAIN file.items /\ file.items[i] = "ROW"
  <2>1. \A h \in Nat : \A k \in 1 .. h : \A j \in 4 + 1 .. 4 + k :
           j - 4 \in 1 .. h /\ j = 4 + (j - 4) /\ j \in 1 .. 5 + h
    OBVIOUS
  <2>2. i - 4 \in 1 .. file.height /\ i = 4 + (i - 4) /\ i \in 1 .. 5 + file.height
    BY <1>1, <2>1, Zenon
  <2>. QED
    BY <1>1, <2>2
<1>. QED
  BY <1>1, <1>2, <1>3 DEF LinesGiven

(* What was loaded from an intact file is its picture.                     *)
LEMMA LoadedPicture ==
    ASSUME FileInv, LoadedInv, call = "loaded", SizeFits, mem.form = BytesOfPixel,
           IF IsJpeg THEN IntactJpeg(file) ELSE ~file.deep
    PROVE  mem.rows = Picture
<1>1. inputImageType \in {"IMAGE_JPG", "IMAGE_PNG"}
  BY DEF FileInv
<1>2. CASE IsJpeg
  <2>1. file \in JpegFiles /\ IntactJpeg(file)
    BY <1>2 DEF FileInv, IsJpeg
  <2>2. file.height \in Nat
    BY <2>1, JpegFileTyped, BoundsAssumption
  <2>3. mem.rows \in Rows(file.height)
        /\ \A n \in 1 .. file.height : mem.rows[file.height + 1 - n] = Line(n)
    BY <1>2, <2>1, IntactLines DEF LoadedInv, Decoded
  <2>4. \A i \in 1 .. file.height : mem.rows[i] = Line(file.height + 1 - i)
    <3>1. ASSUME NEW i \in 1 .. file.height
          PROVE  mem.rows[i] = Line(file.height + 1 - i)
      <4>1. file.height + 1 - i \in 1 .. file.height
            /\ file.height + 1 - (file.height + 1 - i) = i
        BY <2>2
      <4>. QED
        BY <2>3, <4>1
    <3>. QED
      BY <3>1
  <2>5. Picture = [i \in 1 .. file.height |-> Line(file.height + 1 - i)]
    BY <1>2 DEF Picture
  <2>6. mem.rows = [i \in 1 .. file.height |-> mem.rows[i]]
    BY <2>3 DEF Rows
  <2>. QED
    BY <2>4, <2>5, <2>6
<1>3. CASE ~IsJpeg
  <2>1. PngForm = 4
    BY <1>3 DEF LoadedInv, FormOfFile, BytesOfPixel, IsJpeg
  <2>2. Picture = TopDown
    BY <1>3 DEF Picture, TopDown
  <2>. QED
    BY <1>3, <2>1, <2>2 DEF LoadedInv
<1>. QED
  BY <1>2, <1>3

LEMMA CodecReadsBack ==
    ASSUME CodecInv, ReadBack
    PROVE  CodecInv'
<1> DEFINE overwritten == [mem EXCEPT !.rows = << >>]
           emptied == [mem EXCEPT !.rows = [i \in DOMAIN @ |-> Blank]]
<1>1. /\ call = "loaded" /\ call' \in {"readBack", "exited"}
      /\ UNCHANGED <<file, starved, png, jds, jcs, out, postfix, inputImageType>>
  BY DEF ReadBack, Corrupt
<1>2. \/ mem' = overwritten
         /\ PackedBytes > BlockSize(mem.width, mem.height, mem.form)
      \/ mem' = NoBitmap /\ call' = "exited"
      \/ mem' = mem
      \/ mem' = emptied /\ PackStride # Stride
  BY DEF ReadBack, Corrupt
<1>3. FileInv'
  BY <1>1 DEF CodecInv, FileInv, Calls
<1>4. mem.form \in 0 .. 4 /\ mem.width \in 0 .. MaxWidth /\ mem.height \in 0 .. MaxHeight
      /\ mem = [form |-> mem.form, width |-> mem.width, height |-> mem.height,
                rows |-> mem.rows]
  <2> DEFINE S == UNION {[1 .. n -> Row \cup {Blank}] : n \in 0 .. MaxHeight}
  <2>1. mem \in [form : 0 .. 4, width : 0 .. MaxWidth, height : 0 .. MaxHeight, rows : S]
    BY DEF CodecInv, MemInv, Bitmap
  <2> HIDE DEF S
  <2>. QED
    BY <2>1
<1>5. MemInv'
  <2>1. CASE mem' = overwritten
    <3>1. mem' = [form |-> mem.form, width |-> mem.width, height |-> mem.height,
                  rows |-> << >>]
      BY <1>4, <2>1
    <3>. QED
      BY <1>4, <3>1, BitmapTyped DEF MemInv
  <2>2. CASE mem' = NoBitmap
    <3>1. 0 \in 0 .. 4 /\ 0 \in 0 .. MaxWidth /\ 0 \in 0 .. MaxHeight
      OBVIOUS
    <3>. QED
      BY <2>2, <3>1, BitmapTyped DEF MemInv, NoBitmap
  <2>3. CASE mem' = mem
    BY <2>3 DEF CodecInv, MemInv
  <2>4. CASE mem' = emptied
    <3> DEFINE rows == [i \in DOMAIN mem.rows |-> Blank]
    <3>1. mem' = [form |-> mem.form, width |-> mem.width, height |-> mem.height,
                  rows |-> rows]
      BY <1>4, <2>4
    <3>2. rows = << >> \/ rows \in Rows(mem.height)
      <4>1. CASE mem.rows = << >>
        <5>1. DOMAIN mem.rows = {}
          BY <4>1
        <5>. QED
          BY <5>1
      <4>2. CASE mem.rows \in Rows(mem.height)
        BY <4>2 DEF Rows
      <4>. QED
        BY <4>1, <4>2 DEF CodecInv, MemInv
    <3> HIDE DEF rows
    <3>3. mem' \in Bitmap
      BY <1>4, <3>1, <3>2, BitmapTyped
    <3>4. mem'.rows = rows /\ mem'.height = mem.height
      BY <3>1
    <3>. QED
      BY <3>2, <3>3, <3>4 DEF MemInv
  <2>. QED
    BY <1>2, <2>1, <2>2, <2>3, <2>4
<1>6. PngInv' /\ JpegInv'
  BY <1>1 DEF CodecInv, PngInv, JpegInv
<1>7. SaveInv'
  <2>1. jcs' = NewCompress /\ jcs' \in JcsRecord
    BY <1>1 DEF CodecInv, SaveInv
  <2>. QED
    BY <1>1, <2>1 DEF SaveInv, NewCompress
<1>8. ReadBackInPlace'
  <2>1. /\ mem'.width = mem.width \/ call' = "exited"
        /\ mem'.form = mem.form \/ call' = "exited"
    <3>1. overwritten.width = mem.width /\ overwritten.form = mem.form
          /\ emptied.width = mem.width /\ emptied.form = mem.form
      BY <1>4
    <3> HIDE DEF overwritten, emptied
    <3>. QED
      BY <1>2, <3>1
  <2>2. /\ IntactJpeg(file)' <=> IntactJpeg(file)
        /\ SizeFits' <=> SizeFits
        /\ IsJpeg' <=> IsJpeg
        /\ BytesOfPixel' = BytesOfPixel /\ file' = file
    <3>1. IntactJpeg(file)' <=> IntactJpeg(file)
      BY <1>1 DEF IntactJpeg
    <3>2. SizeFits' <=> SizeFits
      BY <1>1 DEF SizeFits, FormOfFile, PngForm, IsJpeg
    <3>. QED
      BY <1>1, <3>1, <3>2 DEF BytesOfPixel, IsJpeg
  <2>3. Picture' = Picture
    BY <1>1 DEF Picture, IsJpeg, Line
  <2>4. SUFFICES ASSUME call' = "readBack", SizeFits, mem.form = BytesOfPixel,
                        IF IsJpeg THEN IntactJpeg(file) ELSE ~file.deep,
                        mem.form = 4 \/ mem.width % 4 = 0
                 PROVE  mem'.rows = Picture
    <3>1. ASSUME call' = "readBack"
          PROVE  mem'.width = mem.width /\ mem'.form = mem.form
      BY <2>1, <3>1
    <3>. QED
      BY <2>2, <2>3, <3>1 DEF ReadBackInPlace
  <2>5. mem.rows = Picture
    BY <1>1, <2>4, LoadedPicture DEF CodecInv
  <2>6. mem.form \in {3, 4} /\ mem.width \in Nat /\ mem.height \in Nat
    BY <1>4, <2>4 DEF BytesOfPixel
  <2>7. PackStride = Stride
    BY <2>4, <2>6, Packed DEF PackStride, PackAlignment, Stride
  <2>8. PackedBytes = Bytes(mem.width, mem.height, mem.form)
    <3>1. PackStride = mem.width * mem.form
      BY <2>7 DEF Stride
    <3>. QED
      BY <2>4, <2>6, <3>1, Packed DEF PackedBytes
  <2>9. BlockSize(mem.width, mem.height, mem.form) = Bytes(mem.width, mem.height, mem.form)
    <3>1. Bytes(mem.width, mem.height, mem.form) < Word
      BY <1>1, <2>4 DEF CodecInv, LoadedInv, SizeFits
    <3>2. mem.form \in Nat
      BY <2>6
    <3>. QED
      BY <2>6, <3>1, <3>2, Fitting
  <2>10. ~(PackedBytes > BlockSize(mem.width, mem.height, mem.form))
    <3>1. Bytes(mem.width, mem.height, mem.form) \in Nat
      BY <2>6 DEF Bytes
    <3>. QED
      BY <2>8, <2>9, <3>1
  <2>11. mem' = mem
    BY <2>7, <2>10, <2>4 DEF ReadBack
  <2>. QED
    BY <2>5, <2>11
<1>. QED
  BY <1>1, <1>3, <1>5, <1>6, <1>7, <1>8 DEF CodecInv, LoadedInv, SavedIsMemory

-----------------------------------------------------------------------------
(* Saving.                                                                 *)
LEMMA SavedRowTyped ==
    ASSUME MemInv, NEW i
    PROVE  /\ RowAt(i) \in SavedRow /\ AsRead(RowAt(i)) \in SavedRow
           /\ mem.form \in {1, 3} => AsRead(RowAt(i)) = RowAt(i)
           /\ mem.form \in {3, 4} => AsWritten(RowAt(i)) = RowAt(i)
<1>1. RowAt(i) \in SavedRow
  <2>1. Blank \in SavedRow
    BY DEF Blank, SavedRow
  <2>2. ASSUME i \in DOMAIN mem.rows PROVE mem.rows[i] \in SavedRow
    <3>1. mem.rows # << >>
      BY <2>2
    <3>2. mem.rows \in [1 .. mem.height -> Row \cup {Blank}]
      BY <3>1 DEF MemInv, Rows
    <3>3. mem.rows[i] \in Row \cup {Blank}
      BY <2>2, <3>2
    <3>. QED
      BY <2>1, <3>3 DEF Row, SavedRow
  <2>. QED
    BY <2>1, <2>2 DEF RowAt
<1> DEFINE row == RowAt(i)
<1>2. /\ row.line \in 0 .. MaxHeight /\ row.whole \in BOOLEAN
      /\ row = [line |-> row.line, whole |-> row.whole]
  BY <1>1 DEF SavedRow
<1> HIDE DEF row
<1>3. AsRead(row) = [line |-> row.line, whole |-> row.whole /\ mem.form = InputComponents]
  BY <1>2 DEF AsRead
<1>4. AsWritten(row)
         = [line |-> row.line, whole |-> row.whole /\ Depth = 8 /\ mem.form \in {3, 4}]
  BY <1>2 DEF AsWritten
<1>5. AsRead(row) \in SavedRow
  <2>1. (row.whole /\ mem.form = InputComponents) \in BOOLEAN
    OBVIOUS
  <2>. QED
    BY <1>2, <1>3, <2>1 DEF SavedRow
<1>6. ASSUME mem.form \in {1, 3} PROVE AsRead(row) = row
  <2>1. mem.form = InputComponents
    BY <1>6 DEF InputComponents
  <2>2. (row.whole /\ mem.form = InputComponents) = row.whole
    BY <1>2, <2>1
  <2>. QED
    BY <1>2, <1>3, <2>2
<1>7. ASSUME mem.form \in {3, 4} PROVE AsWritten(row) = row
  <2>1. Depth = 8
    BY <1>7 DEF Depth
  <2>2. (row.whole /\ Depth = 8 /\ mem.form \in {3, 4}) = row.whole
    BY <1>2, <1>7, <2>1
  <2>. QED
    BY <1>2, <1>4, <2>2
<1>. QED
  BY <1>1, <1>5, <1>6, <1>7 DEF row

LEMMA JpegWrites ==
    ASSUME CodecInv, WriteJpeg, UNCHANGED <<png, postfix, inputImageType>>
    PROVE  CodecInv'
<1>1. /\ call = "toJpeg" /\ postfix = "jpg" /\ call' \in {"toJpeg", "saved", "exited"}
      /\ UNCHANGED <<file, mem, starved, jds>>
      /\ jcs \in JcsRecord /\ MemInv
      /\ mem.height \in Nat
  <2>1. mem.height \in 0 .. MaxHeight
    BY DEF CodecInv, MemInv, Bitmap
  <2>. QED
    BY <2>1, BoundsAssumption
       DEF CodecInv, SaveInv, WriteJpeg, StartCompress, WriteScanline, FinishCompress,
           ErrorExit, fileVars
<1>2. FileInv'
  BY <1>1 DEF CodecInv, FileInv, Calls
<1>3. MemInv' /\ PngInv' /\ JpegInv'
  BY <1>1 DEF CodecInv, MemInv, Rows, Row, Blank, Bitmap, PngInv, JpegInv
<1>4. SaveInv' /\ SavedIsMemory'
  <2>1. CASE StartCompress
    <3>1. CASE ErrorExit
      <4>1. jcs = NewCompress
        BY <2>1 DEF StartCompress, CodecInv, SaveInv
      <4>. QED
        BY <1>1, <3>1, <4>1 DEF ErrorExit, SaveInv, SavedIsMemory, NewCompress
    <3>2. CASE ~ErrorExit
      <4>1. /\ jcs' = [global_state |-> "CSTATE_SCANNING", next_scanline |-> 0]
            /\ out' = << >> /\ call' = "toJpeg"
        BY <1>1, <2>1, <3>2 DEF StartCompress, fileVars
      <4>2. jcs' \in JcsRecord /\ 0 <= mem'.height
        BY <1>1, <4>1 DEF JcsRecord, CStates
      <4>3. out' \in Seq(SavedRow) /\ Len(out') = 0 /\ \A i \in 1 .. 0 : FALSE
        BY <4>1
      <4>. QED
        BY <1>1, <4>1, <4>2, <4>3 DEF SaveInv, SavedIsMemory
    <3>. QED
      BY <3>1, <3>2
  <2>2. CASE WriteScanline
    <3> DEFINE next == jcs.next_scanline
               row == AsRead(RowAt(next + 1))
    <3>1. /\ jcs.global_state = "CSTATE_SCANNING" /\ next < mem.height
          /\ out' = Append(out, row)
          /\ jcs' = [jcs EXCEPT !.next_scanline = next + 1]
          /\ call' = "toJpeg"
      BY <1>1, <2>2 DEF WriteScanline, fileVars
    <3>2. /\ out \in Seq(SavedRow) /\ Len(out) = next /\ next \in Nat
          /\ \A i \in 1 .. next : out[i] = AsRead(RowAt(i))
      BY <1>1, <3>1 DEF CodecInv, SaveInv, JcsRecord
    <3>3. /\ jcs' \in JcsRecord /\ jcs'.next_scanline = next + 1
          /\ jcs'.global_state = "CSTATE_SCANNING"
      BY <1>1, <3>1, <3>2 DEF JcsRecord
    <3>4. row \in SavedRow
      BY <1>1, SavedRowTyped
    <3> HIDE DEF row
    <3>5. /\ out' \in Seq(SavedRow) /\ Len(out') = next + 1
          /\ \A i \in 1 .. next : out'[i] = out[i]
          /\ out'[next + 1] = row
      <4>1. /\ Append(out, row) \in Seq(SavedRow) /\ Len(Append(out, row)) = Len(out) + 1
            /\ \A i \in 1 .. Len(out) : Append(out, row)[i] = out[i]
            /\ Append(out, row)[Len(out) + 1] = row
        BY <3>2, <3>4, AppendProperties
      <4>. QED
        BY <3>1, <3>2, <4>1
    <3>6. ASSUME NEW i \in 1 .. next + 1 PROVE out'[i] = AsRead(RowAt(i))
      <4>1. i \in 1 .. next \/ i = next + 1
        BY <3>2
      <4>. QED
        BY <3>2, <3>5, <4>1 DEF row
    <3>7. \A i \in 1 .. next + 1 : AsRead(RowAt(i))' = AsRead(RowAt(i))
      BY <1>1 DEF AsRead, RowAt, InputComponents, Blank
    <3>8. next + 1 <= mem'.height
      BY <1>1, <3>1, <3>2
    <3>. QED
      BY <1>1, <3>1, <3>3, <3>5, <3>6, <3>7, <3>8 DEF SaveInv, SavedIsMemory
  <2>3. CASE FinishCompress
    <3>1. /\ jcs.global_state = "CSTATE_SCANNING" /\ jcs.next_scanline = mem.height
          /\ jcs' = NewCompress /\ call' = "saved" /\ out' = out
      BY <2>3 DEF FinishCompress
    <3>2. jcs' \in JcsRecord
      BY <3>1 DEF JcsRecord, NewCompress, CStates
    <3>3. /\ out \in Seq(SavedRow) /\ Len(out) = mem.height
          /\ \A i \in 1 .. mem.height : out[i] = AsRead(RowAt(i))
      BY <3>1 DEF CodecInv, SaveInv
    <3>4. ASSUME mem.rows # << >>, mem.form \in {1, 3} PROVE out = mem.rows
      <4>1. mem.rows \in Rows(mem.height)
        BY <1>1, <3>4 DEF MemInv
      <4>2. \A i \in 1 .. mem.height : out[i] = mem.rows[i]
        <5>1. ASSUME NEW i \in 1 .. mem.height PROVE out[i] = mem.rows[i]
          <6>1. i \in DOMAIN mem.rows
            BY <4>1 DEF Rows
          <6>2. RowAt(i) = mem.rows[i]
            BY <6>1 DEF RowAt
          <6>. QED
            BY <1>1, <3>3, <3>4, <6>2, SavedRowTyped
        <5>. QED
          BY <5>1
      <4>3. out = [i \in 1 .. mem.height |-> out[i]]
        BY <3>3
      <4>4. mem.rows = [i \in 1 .. mem.height |-> mem.rows[i]]
        BY <4>1 DEF Rows
      <4>. QED
        BY <4>2, <4>3, <4>4
    <3>5. SavedIsMemory'
      BY <1>1, <3>1, <3>4 DEF SavedIsMemory
    <3>. QED
      BY <1>1, <3>1, <3>2, <3>5 DEF SaveInv, NewCompress
  <2>. QED
    BY <2>1, <2>2, <2>3 DEF WriteJpeg
<1>. QED
  BY <1>1, <1>2, <1>3, <1>4 DEF CodecInv, LoadedInv, ReadBackInPlace

LEMMA CodecSaves ==
    ASSUME CodecInv, SaveImage \/ WritePng
    PROVE  CodecInv'
<1>1. /\ call \in {"loaded", "readBack", "toPng"}
      /\ call' \in {"toJpeg", "toPng", "refused", "saved"}
      /\ UNCHANGED <<file, mem, starved, png, jds, jcs, inputImageType>>
      /\ postfix' \in Postfixes
      /\ call' = "toJpeg" => postfix' = "jpg"
      /\ call' = "toPng" => postfix' = "png"
      /\ MemInv
  BY DEF SaveImage, WritePng, CodecInv, FileInv, Postfixes
<1>2. FileInv'
  BY <1>1 DEF CodecInv, FileInv, Calls
<1>3. MemInv' /\ PngInv' /\ JpegInv'
  BY <1>1 DEF CodecInv, MemInv, Rows, Row, Blank, Bitmap, PngInv, JpegInv
<1>4. SaveInv'
  <2>1. jcs' = NewCompress /\ jcs' \in JcsRecord
    BY <1>1 DEF CodecInv, SaveInv
  <2>. QED
    BY <1>1, <2>1 DEF SaveInv, NewCompress
<1>5. SavedIsMemory'
  <2>1. CASE SaveImage
    BY <2>1 DEF SaveImage, SavedIsMemory
  <2>2. CASE WritePng
    <3>1. /\ postfix' = "png" /\ UNCHANGED mem
          /\ out' = [k \in 1 .. mem.height |-> AsWritten(RowAt(k))]
      BY <2>2 DEF WritePng, CodecInv, SaveInv
    <3>2. ASSUME mem.rows # << >>, mem.form \in {3, 4} PROVE out' = mem.rows
      <4>1. mem.rows \in Rows(mem.height)
        BY <1>1, <3>2 DEF MemInv
      <4>2. \A i \in 1 .. mem.height : AsWritten(RowAt(i)) = mem.rows[i]
        <5>1. ASSUME NEW i \in 1 .. mem.height PROVE AsWritten(RowAt(i)) = mem.rows[i]
          <6>1. i \in DOMAIN mem.rows
            BY <4>1 DEF Rows
          <6>2. RowAt(i) = mem.rows[i]
            BY <6>1 DEF RowAt
          <6>. QED
            BY <1>1, <3>2, <6>2, SavedRowTyped
        <5>. QED
          BY <5>1
      <4>3. mem.rows = [i \in 1 .. mem.height |-> mem.rows[i]]
        BY <4>1 DEF Rows
      <4>. QED
        BY <3>1, <4>2, <4>3
    <3>. QED
      BY <3>1, <3>2 DEF SavedIsMemory
  <2>. QED
    BY <2>1, <2>2
<1>. QED
  BY <1>1, <1>2, <1>3, <1>4, <1>5 DEF CodecInv, LoadedInv, ReadBackInPlace

-----------------------------------------------------------------------------
(* Every step of the codecs keeps the invariant.                           *)
LEMMA CodecStep == CodecInv /\ [CodecNext]_codecVars => CodecInv'
<1> SUFFICES ASSUME CodecInv, [CodecNext]_codecVars PROVE CodecInv'
  OBVIOUS
<1>1. CASE LoadJpeg \/ LoadPng \/ LoadRefused
  BY <1>1, CodecLoads
<1>2. CASE Reading
  <2>1. CASE ReadPng /\ UNCHANGED <<jds, jcs, out>>
    BY <1>2, <2>1, PngReads DEF Reading
  <2>2. CASE ReadJpeg /\ UNCHANGED png
    BY <1>2, <2>2, JpegReads DEF Reading
  <2>. QED
    BY <1>2, <2>1, <2>2 DEF Reading
<1>3. CASE ReadBack
  BY <1>3, CodecReadsBack
<1>4. CASE SaveImage \/ WritePng
  BY <1>4, CodecSaves
<1>5. CASE WriteJpeg /\ UNCHANGED <<png, postfix, inputImageType>>
  BY <1>5, JpegWrites
<1>6. CASE UNCHANGED codecVars
  <2>1. UNCHANGED <<file, mem, call, starved, png, jds, jcs, out, postfix, inputImageType>>
    BY <1>6 DEF codecVars, pngVars, fileVars
  <2>2. FileInv'
    BY <2>1 DEF CodecInv, FileInv
  <2>3. MemInv'
    BY <2>1 DEF CodecInv, MemInv, Rows, Row, Blank, Bitmap
  <2>4. PngInv'
    BY <2>1 DEF CodecInv, PngInv, PngGood, PngHeld
  <2>5. /\ \A n \in Nat : LinesGiven(file, n)' <=> LinesGiven(file, n)
        /\ SizeFits' <=> SizeFits
        /\ IsJpeg' <=> IsJpeg
        /\ PngForm' = PngForm /\ FormOfFile' = FormOfFile
        /\ IntactJpeg(file)' <=> IntactJpeg(file)
        /\ TopDown' = TopDown /\ Picture' = Picture /\ BytesOfPixel' = BytesOfPixel
    <3>1. \A n \in Nat : LinesGiven(file, n)' <=> LinesGiven(file, n)
      BY <2>1 DEF LinesGiven
    <3>2. IntactJpeg(file)' <=> IntactJpeg(file)
      BY <2>1 DEF IntactJpeg
    <3>3. /\ PngForm' = PngForm /\ FormOfFile' = FormOfFile /\ BytesOfPixel' = BytesOfPixel
          /\ IsJpeg' <=> IsJpeg
          /\ SizeFits' <=> SizeFits
      BY <2>1 DEF PngForm, FormOfFile, BytesOfPixel, IsJpeg, SizeFits
    <3>4. TopDown' = TopDown /\ Picture' = Picture
      BY <2>1 DEF TopDown, Picture, IsJpeg, Line
    <3>. QED
      BY <3>1, <3>2, <3>3, <3>4
  <2>6. ASSUME file \in JpegFiles PROVE Decoded(file.height) => Decoded(file.height)'
    BY <2>1, <2>6, JpegSame
  <2>7. JpegInv'
    <3>1. ASSUME call = "jpeg" PROVE JpegGood'
      <4>1. JpegGood /\ file \in JpegFiles /\ jds \in JdsRecord
        BY <3>1 DEF CodecInv, JpegInv, FileInv
      <4>2. HasSize' <=> HasSize
        BY <2>1 DEF HasSize
      <4>3. Decoded(jds.output_scanline)' <=> Decoded(jds.output_scanline)
        <5>1. \A n \in 1 .. jds.output_scanline : n \in Nat
          BY <4>1 DEF JdsRecord
        <5>. QED
          BY <2>1, <2>5, <5>1 DEF Decoded, Line, Filler, Rows, Row, Blank
      <4>4. InScan(jds.at, jds.output_scanline)' <=> InScan(jds.at, jds.output_scanline)
        BY <2>1 DEF InScan, FirstSos, Given
      <4>5. InScan(jds.at, 0)' <=> InScan(jds.at, 0)
        BY <2>1 DEF InScan, FirstSos, Given
      <4>. QED
        BY <2>1, <2>6, <4>1, <4>2, <4>3, <4>4, <4>5 DEF JpegGood
    <3>. QED
      BY <2>1, <3>1 DEF CodecInv, JpegInv
  <2>8. LoadedInv'
    <3>1. call = "loaded" /\ IsJpeg => file \in JpegFiles
      BY DEF CodecInv, FileInv, IsJpeg
    <3>. QED
      BY <2>1, <2>5, <2>6, <3>1 DEF CodecInv, LoadedInv
  <2>9. SaveInv'
    <3>1. \A i \in 1 .. jcs.next_scanline : AsRead(RowAt(i))' = AsRead(RowAt(i))
      BY <2>1 DEF AsRead, RowAt, InputComponents, Blank
    <3>. QED
      BY <2>1, <3>1 DEF CodecInv, SaveInv
  <2>10. ReadBackInPlace' /\ SavedIsMemory'
    BY <2>1, <2>5 DEF CodecInv, ReadBackInPlace, SavedIsMemory
  <2>. QED
    BY <2>2, <2>3, <2>4, <2>7, <2>8, <2>9, <2>10 DEF CodecInv
<1>. QED
  BY <1>1, <1>2, <1>3, <1>4, <1>5, <1>6 DEF CodecNext, Writing

LEMMA CodecAlways == CodecSpec => []CodecInv
<1>. QED
  BY CodecStart, CodecStep, PTL DEF CodecSpec

(* The variables have their types, for any files: libpng and libjpeg never *)
(* stand behind the end of a file, and no row number leaves the picture.   *)
THEOREM CodecTypeCorrect == CodecSpec => []CodecTypeOK
<1>1. CodecInv => CodecTypeOK
  <2> SUFFICES ASSUME CodecInv PROVE CodecTypeOK
    OBVIOUS
  <2>1. file = NoFile <=> inputImageType = "none"
    BY NoFileAssumption DEF CodecInv, FileInv
  <2>2. mem \in Bitmap /\ call \in Calls /\ starved \in BOOLEAN /\ postfix \in Postfixes
        /\ inputImageType \in {"none", "IMAGE_JPG", "IMAGE_PNG"}
    BY DEF CodecInv, FileInv, MemInv
  <2>3. /\ png.step \in Steps /\ png.mode \subseteq {"IHDR", "PLTE", "IDAT"}
        /\ png.row_number \in 0 .. MaxHeight
        /\ call = "png" => png.at \in 1 .. Len(file.chunks) + 1
    BY DEF CodecInv, PngInv, PngRecord, PngGood, PngHeld
  <2>4. /\ jds.global_state \in DStates /\ jds.output_scanline \in 0 .. MaxHeight
        /\ call = "jpeg" => jds.at \in 1 .. Len(file.items) + 1
    BY DEF CodecInv, JpegInv, JdsRecord, JpegGood
  <2>5. jcs.global_state \in CStates /\ jcs.next_scanline \in 0 .. mem.height
    <3>1. mem.height \in 0 .. MaxHeight
      BY DEF CodecInv, MemInv, Bitmap
    <3>2. jcs \in JcsRecord
      BY DEF CodecInv, SaveInv
    <3>3. CASE jcs.global_state = "CSTATE_START"
      <4>1. jcs.next_scanline = 0
        BY <3>3 DEF CodecInv, SaveInv, NewCompress
      <4>. QED
        BY <3>1, <3>2, <4>1 DEF JcsRecord
    <3>4. CASE jcs.global_state = "CSTATE_SCANNING"
      BY <3>1, <3>2, <3>4 DEF CodecInv, SaveInv, JcsRecord
    <3>. QED
      BY <3>2, <3>3, <3>4 DEF JcsRecord, CStates
  <2>. QED
    BY <2>1, <2>2, <2>3, <2>4, <2>5 DEF CodecTypeOK
<1>. QED
  BY <1>1, CodecAlways, PTL

(* What loadImage returns is the whole picture, each line in its row,      *)
(* whatever went wrong in the readers before they came to their end.       *)
THEOREM AlwaysWhole == CodecSpec => []LoadedIsWhole
<1>1. CodecInv => LoadedIsWhole
  <2> SUFFICES ASSUME CodecInv, call = "loaded", SizeFits PROVE LoadedIsWhole
    BY DEF LoadedIsWhole
  <2>1. mem.width = file.width /\ mem.height = file.height
    BY DEF CodecInv, LoadedInv
  <2>2. ASSUME ~IsJpeg, ~file.deep, PngForm # 0 PROVE mem.rows = Picture
    <3>1. Picture = TopDown
      BY <2>2 DEF Picture, TopDown
    <3>. QED
      BY <2>2, <3>1 DEF CodecInv, LoadedInv
  <2>3. ASSUME IsJpeg, NEW i \in 1 .. file.height
        PROVE  /\ mem.rows[i].line = Picture[i].line
               /\ mem.rows[i].whole <=> LinesGiven(file, Picture[i].line)
    <3>1. file \in JpegFiles
      BY <2>3 DEF CodecInv, FileInv, IsJpeg
    <3>2. file.height \in Nat
      BY <3>1, JpegFileTyped, BoundsAssumption
    <3> DEFINE n == file.height + 1 - i
    <3>3. n \in 1 .. file.height /\ file.height + 1 - n = i
      BY <3>2
    <3>4. mem.rows[i] = IF LinesGiven(file, n) THEN Line(n) ELSE Filler(n)
      BY <2>3, <3>3 DEF CodecInv, LoadedInv, Decoded
    <3>5. Picture[i].line = n
      BY <2>3 DEF Picture, Line
    <3> HIDE DEF n
    <3>6. /\ Line(n).line = n /\ Line(n).whole = TRUE
          /\ Filler(n).line = n /\ Filler(n).whole = FALSE
      BY DEF Line, Filler
    <3>7. CASE LinesGiven(file, n)
      BY <3>4, <3>5, <3>6, <3>7
    <3>8. CASE ~LinesGiven(file, n)
      BY <3>4, <3>5, <3>6, <3>8
    <3>. QED
      BY <3>7, <3>8
  <2>. QED
    BY <2>1, <2>2, <2>3 DEF LoadedIsWhole
<1>. QED
  BY <1>1, CodecAlways, PTL

(* main's glReadPixels leaves every row where it was, when the bytes of a  *)
(* pixel agree and the rows need no padding.                               *)
THEOREM AlwaysInPlace == CodecSpec => []ReadBackInPlace
<1>1. CodecInv => ReadBackInPlace
  BY DEF CodecInv
<1>. QED
  BY <1>1, CodecAlways, PTL

(* saveImage writes the rows of the memory, whole and in their order.      *)
THEOREM SavedAlwaysMemory == CodecSpec => []SavedIsMemory
<1>1. CodecInv => SavedIsMemory
  BY DEF CodecInv
<1>. QED
  BY <1>1, CodecAlways, PTL

-----------------------------------------------------------------------------
(* Intact files.                                                           *)
(* Where the chunks of an intact PNG lie.                                  *)
Laid(f, first, last, given) ==
    LET ch == f.chunks IN
    /\ first \in 2 .. last /\ last \in 2 .. Len(ch) - 1
    /\ \A i \in 1 .. Len(ch) :
          /\ ch[i].name = "IHDR" <=> i = 1
          /\ ch[i].name = "IDAT" <=> i \in first .. last
          /\ ch[i].name = "IEND" <=> i = Len(ch)
          /\ ch[i].name = "PLTE" => i < first
          /\ ch[i].fault # "none" => ch[i].name = "gAMA" /\ ch[i].fault = "crc"
    /\ \A i, k \in 1 .. Len(ch) : ch[i].name = "PLTE" /\ ch[k].name = "PLTE" => i = k
    /\ f.color = "palette" => \E i \in 1 .. Len(ch) : ch[i].name = "PLTE"
    /\ f.sig = "good" /\ f.width # 0 /\ f.height # 0
    /\ \A i \in first .. last : ch[i].ends <=> i = last
    /\ given \in [first - 1 .. last -> 0 .. f.height]
    /\ given[first - 1] = 0 /\ given[last] = f.height
    /\ \A i \in first .. last : given[i] = given[i - 1] + ch[i].lines

(* Before the image the marks of a reader are those of the chunks behind   *)
(* it.                                                                     *)
HeadRead(p) ==
    /\ "IHDR" \in p.mode <=> p.at > 1
    /\ p.dims <=> p.at > 1
    /\ "PLTE" \in p.mode <=> \E i \in 1 .. p.at - 1 : file.chunks[i].name = "PLTE"
    /\ p.palette <=> "PLTE" \in p.mode
    /\ ~p.rowInit /\ p.row_number = 0 /\ p.taken = 0

(* A reader that has had no error.                                         *)
OnCourse(p, first, last, given) ==
    /\ ~p.lost
    /\ p.step = "sig" => p = NewReader
    /\ p.step \in {"info", "start"} => p.at \in 1 .. first /\ HeadRead(p)
    /\ p.step = "info" => "IDAT" \notin p.mode
    /\ p.step = "start" => p.at = first
    /\ p.step \notin {"sig", "info"} => {"IHDR", "IDAT"} \subseteq p.mode
    /\ p.step \in {"rows", "finish", "tail"} => p.at \in first .. last
    /\ p.step \in {"rows", "finish"} =>
          /\ p.taken <= file.chunks[p.at].lines
          /\ p.row_number = given[p.at - 1] + p.taken
    /\ p.step = "finish" => p.row_number = file.height
    /\ p.step = "end" => p.at \in first + 1 .. Len(file.chunks)

Running(p) == p.step # "sig"

LEMMA IntactLaid ==
    ASSUME NEW f \in PngFiles, IntactPng(f)
    PROVE  \E first, last \in DOMAIN f.chunks :
              \E given \in [first - 1 .. last -> 0 .. f.height] :
                 Laid(f, first, last, given)
<1>1. Len(f.chunks) \in Nat /\ DOMAIN f.chunks = 1 .. Len(f.chunks)
  BY PngFilesAssumption
<1>2. PICK first \in Places(f, "IDAT"), last \in Places(f, "IDAT") :
         /\ DataOfLines(f, first, last)
         /\ \A p, q \in Places(f, "PLTE") : p = q /\ p < first
  BY DEF IntactPng
<1>3. PICK given \in [first - 1 .. last -> 0 .. f.height] :
         /\ given[first - 1] = 0 /\ given[last] = f.height
         /\ \A i \in first .. last : given[i] = given[i - 1] + f.chunks[i].lines
  BY <1>2 DEF DataOfLines
<1>4. /\ Places(f, "IDAT") = first .. last
      /\ \A i \in first .. last : f.chunks[i].ends <=> i = last
  BY <1>2 DEF DataOfLines
<1>5. first \in 1 .. Len(f.chunks) /\ last \in 1 .. Len(f.chunks)
  BY <1>1, <1>2 DEF Places
<1>6. /\ Places(f, "IHDR") = {1} /\ Places(f, "IEND") = {Len(f.chunks)}
  BY DEF IntactPng
<1>7. /\ first # 1 /\ last # Len(f.chunks)
  BY <1>2, <1>6 DEF Places
<1>8. first <= last
  BY <1>2, <1>4, <1>5
<1>9. ASSUME NEW i \in 1 .. Len(f.chunks)
      PROVE  /\ f.chunks[i].name = "IHDR" <=> i = 1
             /\ f.chunks[i].name = "IDAT" <=> i \in first .. last
             /\ f.chunks[i].name = "IEND" <=> i = Len(f.chunks)
             /\ f.chunks[i].name = "PLTE" => i < first
             /\ f.chunks[i].fault # "none" =>
                f.chunks[i].name = "gAMA" /\ f.chunks[i].fault = "crc"
  <2>1. \A name : i \in Places(f, name) <=> f.chunks[i].name = name
    BY <1>1 DEF Places
  <2>2. f.chunks[i].name = "PLTE" => i < first
    BY <1>2, <2>1
  <2>3. f.chunks[i].fault # "none" =>
                f.chunks[i].name = "gAMA" /\ f.chunks[i].fault = "crc"
    BY <1>1 DEF IntactPng
  <2>. QED
    BY <1>4, <1>6, <2>1, <2>2, <2>3
<1>10. \A i, k \in 1 .. Len(f.chunks) :
          f.chunks[i].name = "PLTE" /\ f.chunks[k].name = "PLTE" => i = k
  BY <1>1, <1>2 DEF Places
<1>11. f.color = "palette" => \E i \in 1 .. Len(f.chunks) : f.chunks[i].name = "PLTE"
  BY <1>1 DEF IntactPng, Places
<1>12. f.sig = "good" /\ f.width # 0 /\ f.height # 0
  BY DEF IntactPng
<1>13. first \in 2 .. last /\ last \in 2 .. Len(f.chunks) - 1
  BY <1>1, <1>5, <1>7, <1>8
<1>14. Laid(f, first, last, given)
  BY <1>3, <1>4, <1>9, <1>10, <1>11, <1>12, <1>13 DEF Laid
<1>. QED
  BY <1>1, <1>3, <1>5, <1>14

(* The numbers in a file and in its reader.                                *)
LEMMA CourseNumbers ==
    ASSUME file \in PngFiles, png \in PngRecord, NEW first, NEW last, NEW given,
           Laid(file, first, last, given)
    PROVE  /\ Len(file.chunks) \in Nat /\ DOMAIN file.chunks = 1 .. Len(file.chunks)
           /\ first \in Nat /\ first > 1 /\ last \in Nat /\ first <= last
           /\ last < Len(file.chunks)
           /\ png.at \in Nat \ {0} /\ png.row_number \in Nat /\ png.taken \in Nat
           /\ file.height \in Nat
<1>1. /\ file.chunks \in Seq(ChunkRecord) /\ file.height \in 0 .. MaxHeight
  BY PngFileTyped
<1>2. Len(file.chunks) \in Nat /\ DOMAIN file.chunks = 1 .. Len(file.chunks)
  BY <1>1
<1>3. first \in 2 .. last /\ last \in 2 .. Len(file.chunks) - 1
  BY DEF Laid
<1>4. /\ first \in Nat /\ first > 1 /\ last \in Nat /\ first <= last
      /\ last < Len(file.chunks)
  BY <1>2, <1>3
<1>5. png.at \in Nat \ {0} /\ png.row_number \in 0 .. MaxHeight /\ png.taken \in Nat
  BY DEF PngRecord
<1>. QED
  BY <1>1, <1>2, <1>4, <1>5, BoundsAssumption

(* The reader of a PNG, step by step.                                      *)
LEMMA OnCourseSig ==
    ASSUME file \in PngFiles, png \in PngRecord, NEW first, NEW last, NEW given,
           Laid(file, first, last, given), OnCourse(png, first, last, given),
           UNCHANGED file, ReadSig
    PROVE  Running(png') /\ OnCourse(png', first, last, given)
<1>1. png = NewReader /\ file.sig = "good"
  BY DEF OnCourse, ReadSig, Laid
<1>2. png' = [NewReader EXCEPT !.sig_bytes = 8, !.step = "info"]
  BY <1>1 DEF ReadSig
<1>3. first \in Nat /\ 1 \in 1 .. first /\ first > 1
  BY PngFileTyped DEF Laid
<1>. QED
  BY <1>1, <1>2, <1>3 DEF Running, OnCourse, HeadRead, NewReader

LEMMA OnCourseIHDR ==
    ASSUME file \in PngFiles, png \in PngRecord, NEW first, NEW last, NEW given,
           Laid(file, first, last, given), OnCourse(png, first, last, given), PngGood(png),
           UNCHANGED file, HandleIHDR
    PROVE  Running(png') /\ OnCourse(png', first, last, given)
<1>0. /\ Len(file.chunks) \in Nat /\ DOMAIN file.chunks = 1 .. Len(file.chunks)
  BY PngFileTyped
<1>1. png.at \in 1 .. Len(file.chunks) /\ Here.name = "IHDR"
      /\ png.step \in {"info", "end"}
  BY <1>0 DEF HandleIHDR, ReadChunk, AtEof, PngGood, PngHeld
<1>2. png.at = 1 /\ Here.fault = "none" /\ file.width # 0 /\ file.height # 0
  BY <1>1 DEF Laid, Here
<1>3. first \in Nat /\ first > 1
  BY <1>0 DEF Laid
<1>4. png.step = "info" /\ HeadRead(png)
  BY <1>1, <1>2, <1>3 DEF OnCourse
<1>5. ~Have("IHDR")
  BY <1>2, <1>4 DEF Have, HeadRead
<1>6. png' = [png EXCEPT !.mode = @ \cup {"IHDR"}, !.dims = TRUE, !.at = @ + 1]
  BY <1>2, <1>5, <1>1 DEF HandleIHDR
<1>7. /\ png'.mode = png.mode \cup {"IHDR"} /\ png'.dims = TRUE /\ png'.at = 2
      /\ png'.lost = png.lost /\ png'.step = "info"
      /\ png'.palette = png.palette /\ png'.rowInit = png.rowInit
      /\ png'.row_number = png.row_number /\ png'.taken = png.taken
  BY <1>2, <1>4, <1>6 DEF PngRecord
<1>8. \A i \in 1 .. png'.at - 1 : file.chunks[i].name # "PLTE"
  <2>1. png'.at - 1 = 1 /\ file.chunks[1].name = "IHDR"
    BY <1>1, <1>2, <1>7 DEF Here
  <2>. QED
    BY <2>1
<1>9. /\ ~("PLTE" \in png.mode) /\ ~png.palette
      /\ ~png.rowInit /\ png.row_number = 0 /\ png.taken = 0 /\ ~png.lost
      /\ "IDAT" \notin png.mode
  BY <1>2, <1>4 DEF OnCourse, HeadRead
<1>10. HeadRead(png')
  BY <1>7, <1>8, <1>9 DEF HeadRead
<1>. QED
  BY <1>3, <1>7, <1>9, <1>10 DEF Running, OnCourse

LEMMA OnCoursePLTE ==
    ASSUME file \in PngFiles, png \in PngRecord, NEW first, NEW last, NEW given,
           Laid(file, first, last, given), OnCourse(png, first, last, given), PngGood(png),
           UNCHANGED file, HandlePLTE
    PROVE  Running(png') /\ OnCourse(png', first, last, given)
<1>0. /\ Len(file.chunks) \in Nat /\ DOMAIN file.chunks = 1 .. Len(file.chunks)
      /\ first \in Nat /\ first > 1 /\ last \in Nat /\ first <= last /\ last < Len(file.chunks)
      /\ png.at \in Nat \ {0} /\ png.row_number \in Nat /\ png.taken \in Nat
      /\ file.height \in Nat
  BY CourseNumbers
<1>1. png.at \in 1 .. Len(file.chunks) /\ Here.name = "PLTE"
      /\ png.step \in {"info", "end"}
  BY <1>0 DEF HandlePLTE, ReadChunk, AtEof, PngGood, PngHeld
<1>2. png.at < first /\ png.at # 1 /\ Here.fault = "none"
  BY <1>0, <1>1 DEF Laid, Here
<1>3. png.step = "info" /\ HeadRead(png) /\ ~Have("IDAT")
  BY <1>0, <1>1, <1>2 DEF OnCourse, Have
<1>4. Have("IHDR") /\ ~Have("PLTE")
  <2>1. ASSUME NEW i \in 1 .. png.at - 1, file.chunks[i].name = "PLTE" PROVE FALSE
    <3>1. i \in 1 .. Len(file.chunks) /\ i # png.at
      BY <1>0, <1>1
    <3>. QED
      BY <1>1, <2>1, <3>1 DEF Laid, Here
  <2>. QED
    BY <1>0, <1>2, <1>3, <2>1 DEF Have, HeadRead
<1>5. png' = [[png EXCEPT !.mode = @ \cup {"PLTE"}, !.palette = TRUE]
                 EXCEPT !.at = @ + 1, !.taken = 0]
  BY <1>2, <1>3, <1>4, <1>1 DEF HandlePLTE, CrcFinish
<1>6. /\ png'.mode = png.mode \cup {"PLTE"} /\ png'.palette = TRUE /\ png'.at = png.at + 1
      /\ png'.lost = png.lost /\ png'.step = "info" /\ png'.dims = png.dims
      /\ png'.rowInit = png.rowInit /\ png'.row_number = png.row_number /\ png'.taken = 0
  BY <1>3, <1>5 DEF PngRecord
<1>7. \E i \in 1 .. png'.at - 1 : file.chunks[i].name = "PLTE"
  BY <1>0, <1>1, <1>6 DEF Here
<1>8. /\ "IHDR" \in png.mode /\ png.dims /\ png.at > 1
      /\ ~png.rowInit /\ png.row_number = 0 /\ ~png.lost /\ "IDAT" \notin png.mode
  BY <1>0, <1>2, <1>3, <1>4 DEF OnCourse, HeadRead, Have
<1>9. HeadRead(png')
  BY <1>0, <1>6, <1>7, <1>8 DEF HeadRead
<1>10. png'.at \in 1 .. first
  BY <1>0, <1>2, <1>6
<1>. QED
  BY <1>6, <1>8, <1>9, <1>10 DEF Running, OnCourse

LEMMA OnCourseAncillary ==
    ASSUME file \in PngFiles, png \in PngRecord, NEW first, NEW last, NEW given,
           Laid(file, first, last, given), OnCourse(png, first, last, given), PngGood(png),
           UNCHANGED file, HandleAncillary
    PROVE  Running(png') /\ OnCourse(png', first, last, given)
<1>0. /\ Len(file.chunks) \in Nat /\ DOMAIN file.chunks = 1 .. Len(file.chunks)
      /\ first \in Nat /\ first > 1 /\ last \in Nat /\ first <= last /\ last < Len(file.chunks)
      /\ png.at \in Nat \ {0} /\ png.row_number \in Nat /\ png.taken \in Nat
      /\ file.height \in Nat
  BY CourseNumbers
<1>1. png.at \in 1 .. Len(file.chunks) /\ Here.name = "gAMA"
      /\ png.step \in {"info", "end"}
  BY <1>0 DEF HandleAncillary, ReadChunk, AtEof, PngGood, PngHeld
<1>2. /\ png.at # 1 /\ png.at # first /\ png.at # Len(file.chunks) /\ Here.fault # "cut"
  <2>1. /\ Here.name = "IHDR" <=> png.at = 1
        /\ Here.name = "IDAT" <=> png.at \in first .. last
        /\ Here.name = "IEND" <=> png.at = Len(file.chunks)
        /\ Here.fault # "none" => Here.name = "gAMA" /\ Here.fault = "crc"
    BY <1>1 DEF Laid, Here
  <2>. QED
    BY <1>0, <1>1, <2>1
<1>3. Have("IHDR")
  BY <1>0, <1>1, <1>2 DEF OnCourse, HeadRead, Have
<1>4. png' = [png EXCEPT !.at = @ + 1]
  BY <1>2, <1>3 DEF HandleAncillary, SkipAncillary
<1>5. /\ png'.mode = png.mode /\ png'.palette = png.palette /\ png'.at = png.at + 1
      /\ png'.lost = png.lost /\ png'.step = png.step /\ png'.dims = png.dims
      /\ png'.rowInit = png.rowInit /\ png'.row_number = png.row_number
      /\ png'.taken = png.taken
  BY <1>4 DEF PngRecord
<1>6. (\E i \in 1 .. png'.at - 1 : file.chunks[i].name = "PLTE")
         <=> (\E i \in 1 .. png.at - 1 : file.chunks[i].name = "PLTE")
  <2>1. png.at \in Nat /\ png'.at - 1 = png.at /\ file.chunks[png.at].name # "PLTE"
    BY <1>0, <1>1, <1>5 DEF Here
  <2>2. \A i : i \in 1 .. png'.at - 1 <=> i \in 1 .. png.at - 1 \/ i = png.at
    BY <1>0, <2>1
  <2>. QED
    BY <2>1, <2>2
<1>7. CASE png.step = "info"
  BY <1>0, <1>2, <1>5, <1>6, <1>7 DEF Running, OnCourse, HeadRead
<1>8. CASE png.step = "end"
  BY <1>0, <1>2, <1>5, <1>8 DEF Running, OnCourse
<1>. QED
  BY <1>1, <1>7, <1>8

LEMMA OnCourseIEND ==
    ASSUME file \in PngFiles, png \in PngRecord, NEW first, NEW last, NEW given,
           Laid(file, first, last, given), OnCourse(png, first, last, given), PngGood(png),
           UNCHANGED file, HandleIEND
    PROVE  Running(png') /\ OnCourse(png', first, last, given)
<1>0. /\ Len(file.chunks) \in Nat /\ DOMAIN file.chunks = 1 .. Len(file.chunks)
      /\ first \in Nat /\ first > 1 /\ last \in Nat /\ first <= last /\ last < Len(file.chunks)
      /\ png.at \in Nat \ {0} /\ png.row_number \in Nat /\ png.taken \in Nat
      /\ file.height \in Nat
  BY CourseNumbers
<1>1. png.at \in 1 .. Len(file.chunks) /\ Here.name = "IEND"
      /\ png.step \in {"info", "end"}
  BY <1>0 DEF HandleIEND, ReadChunk, AtEof, PngGood, PngHeld
<1>2. png.at = Len(file.chunks) /\ Here.fault = "none"
  BY <1>0, <1>1 DEF Laid, Here
<1>3. png.step = "end" /\ {"IHDR", "IDAT"} \subseteq png.mode
  BY <1>0, <1>1, <1>2 DEF OnCourse
<1>4. png' = [[png EXCEPT !.step = "done"] EXCEPT !.at = @ + 1, !.taken = 0]
  BY <1>2, <1>3 DEF HandleIEND, CrcFinish
<1>5. png'.step = "done" /\ png'.lost = png.lost /\ png'.mode = png.mode
  BY <1>4 DEF PngRecord
<1>. QED
  BY <1>3, <1>5 DEF Running, OnCourse

LEMMA OnCourseInfoIDAT ==
    ASSUME file \in PngFiles, png \in PngRecord, NEW first, NEW last, NEW given,
           Laid(file, first, last, given), OnCourse(png, first, last, given), PngGood(png),
           UNCHANGED file, InfoIDAT
    PROVE  Running(png') /\ OnCourse(png', first, last, given)
<1>0. /\ Len(file.chunks) \in Nat /\ DOMAIN file.chunks = 1 .. Len(file.chunks)
      /\ first \in Nat /\ first > 1 /\ last \in Nat /\ first <= last /\ last < Len(file.chunks)
      /\ png.at \in Nat \ {0} /\ png.row_number \in Nat /\ png.taken \in Nat
      /\ file.height \in Nat
  BY CourseNumbers
<1>1. png.at \in 1 .. Len(file.chunks) /\ Here.name = "IDAT"
      /\ png.step \in {"info", "end"}
  BY <1>0 DEF InfoIDAT, ReadChunk, AtEof, PngGood, PngHeld
<1>2. png.at \in first .. last /\ png.step = "info"
  BY <1>1 DEF Laid, Here, InfoIDAT
<1>3. png.at = first /\ HeadRead(png)
  BY <1>0, <1>2 DEF OnCourse
<1>4. Have("IHDR") /\ (file.color = "palette" => Have("PLTE"))
  <2>1. ASSUME NEW i \in 1 .. Len(file.chunks), file.chunks[i].name = "PLTE"
        PROVE  i \in 1 .. png.at - 1
    BY <1>0, <1>3, <2>1 DEF Laid
  <2>2. file.color = "palette" => \E i \in 1 .. Len(file.chunks) : file.chunks[i].name = "PLTE"
    BY DEF Laid
  <2>. QED
    BY <1>0, <1>3, <2>1, <2>2 DEF HeadRead, Have
<1>5. png' = [png EXCEPT !.mode = @ \cup {"IDAT"}, !.step = "start"]
  BY <1>4 DEF InfoIDAT
<1>6. /\ png'.mode = png.mode \cup {"IDAT"} /\ png'.step = "start"
      /\ png'.palette = png.palette /\ png'.at = png.at
      /\ png'.lost = png.lost /\ png'.dims = png.dims
      /\ png'.rowInit = png.rowInit /\ png'.row_number = png.row_number
      /\ png'.taken = png.taken
  BY <1>5 DEF PngRecord
<1>. QED
  BY <1>0, <1>2, <1>3, <1>4, <1>6 DEF Running, OnCourse, HeadRead, Have

LEMMA OnCourseEndIDAT ==
    ASSUME file \in PngFiles, png \in PngRecord, NEW first, NEW last, NEW given,
           Laid(file, first, last, given), OnCourse(png, first, last, given), PngGood(png),
           UNCHANGED file, EndIDAT
    PROVE  Running(png') /\ OnCourse(png', first, last, given)
<1>0. /\ Len(file.chunks) \in Nat /\ DOMAIN file.chunks = 1 .. Len(file.chunks)
      /\ first \in Nat /\ first > 1 /\ last \in Nat /\ first <= last /\ last < Len(file.chunks)
      /\ png.at \in Nat \ {0} /\ png.row_number \in Nat /\ png.taken \in Nat
      /\ file.height \in Nat
  BY CourseNumbers
<1>1. png.at \in 1 .. Len(file.chunks) /\ Here.name = "IDAT"
      /\ png.step \in {"info", "end"}
  BY <1>0 DEF EndIDAT, ReadChunk, AtEof, PngGood, PngHeld
<1>2. /\ png.step = "end" /\ png.at # Len(file.chunks) /\ Here.fault = "none"
  BY <1>0, <1>1 DEF Laid, Here, EndIDAT
<1>3. png' = [png EXCEPT !.at = @ + 1, !.taken = 0]
  BY <1>2 DEF EndIDAT, CrcFinish
<1>4. png'.step = "end" /\ png'.at = png.at + 1 /\ png'.lost = png.lost /\ png'.mode = png.mode
  BY <1>2, <1>3 DEF PngRecord
<1>. QED
  BY <1>0, <1>2, <1>4 DEF Running, OnCourse

LEMMA OnCourseStart ==
    ASSUME file \in PngFiles, png \in PngRecord, NEW first, NEW last, NEW given,
           Laid(file, first, last, given), OnCourse(png, first, last, given), PngGood(png),
           UNCHANGED file, StartImage
    PROVE  Running(png') /\ OnCourse(png', first, last, given)
<1>0. /\ Len(file.chunks) \in Nat /\ DOMAIN file.chunks = 1 .. Len(file.chunks)
      /\ first \in Nat /\ first > 1 /\ last \in Nat /\ first <= last /\ last < Len(file.chunks)
      /\ png.at \in Nat \ {0} /\ png.row_number \in Nat /\ png.taken \in Nat
      /\ file.height \in Nat
  BY CourseNumbers
<1>1. /\ png.step = "start" /\ png.at = first /\ HeadRead(png)
      /\ {"IHDR", "IDAT"} \subseteq png.mode
  BY DEF StartImage, OnCourse
<1>2. png.dims /\ ~png.rowInit /\ png.row_number = 0 /\ png.taken = 0
  BY <1>0, <1>1 DEF HeadRead
<1>3. file.color = "palette" => png.palette
  <2>1. ASSUME NEW i \in 1 .. Len(file.chunks), file.chunks[i].name = "PLTE"
        PROVE  i \in 1 .. png.at - 1
    BY <1>0, <1>1, <2>1 DEF Laid
  <2>2. file.color = "palette" => \E i \in 1 .. Len(file.chunks) : file.chunks[i].name = "PLTE"
    BY DEF Laid
  <2>. QED
    BY <1>1, <2>1, <2>2 DEF HeadRead
<1>4. file.width # 0 /\ file.height # 0
  BY DEF Laid
<1>5. png' = [png EXCEPT !.rowInit = TRUE, !.step = "rows"]
  BY <1>2, <1>3, <1>4 DEF StartImage
<1>6. /\ png'.step = "rows" /\ png'.at = first /\ png'.lost = png.lost
      /\ png'.mode = png.mode /\ png'.row_number = 0 /\ png'.taken = 0
  BY <1>1, <1>2, <1>5 DEF PngRecord
<1>7. first \in first .. last /\ given[first - 1] = 0
  BY <1>0 DEF Laid
<1>8. file.chunks[first].lines \in Nat
  <2>1. first \in 1 .. Len(file.chunks) /\ file.chunks \in Seq(ChunkRecord)
    BY <1>0, PngFileTyped
  <2>2. file.chunks[first] \in ChunkRecord
    BY <2>1
  <2>. QED
    BY <2>2 DEF ChunkRecord
<1>. QED
  BY <1>0, <1>1, <1>6, <1>7, <1>8 DEF Running, OnCourse

(* The IDAT that a reader is in.                                           *)
LEMMA DataHere ==
    ASSUME file \in PngFiles, NEW first, NEW last, NEW given, Laid(file, first, last, given),
           png.at \in first .. last
    PROVE  /\ png.at \in Nat /\ first \in Nat /\ last \in Nat /\ last < Len(file.chunks)
           /\ Len(file.chunks) \in Nat
           /\ Here.fault = "none"
           /\ Here.lines \in Nat
           /\ Here.ends <=> png.at = last
           /\ given[png.at - 1] \in 0 .. file.height
           /\ given[png.at] \in 0 .. file.height
           /\ given[png.at] = given[png.at - 1] + Here.lines
           /\ png.at < last => file.chunks[png.at + 1].name = "IDAT"
           /\ png.at = last => given[png.at] = file.height
<1>1. /\ Len(file.chunks) \in Nat /\ DOMAIN file.chunks = 1 .. Len(file.chunks)
      /\ first \in Nat /\ first > 1 /\ last \in Nat /\ last < Len(file.chunks)
      /\ file.chunks \in Seq(ChunkRecord)
  <2>1. first \in 2 .. last /\ last \in 2 .. Len(file.chunks) - 1
    BY DEF Laid
  <2>. QED
    BY <2>1, PngFileTyped
<1>2. png.at \in 1 .. Len(file.chunks) /\ png.at \in Nat
  BY <1>1
<1>3. Here \in ChunkRecord
  BY <1>1, <1>2 DEF Here
<1>4. Here.lines \in Nat
  BY <1>3 DEF ChunkRecord
<1>5. Here.name = "IDAT" /\ Here.fault = "none"
  BY <1>2 DEF Laid, Here
<1>6. /\ Here.ends <=> png.at = last
      /\ given[png.at] = given[png.at - 1] + Here.lines
      /\ given \in [first - 1 .. last -> 0 .. file.height]
      /\ given[last] = file.height
  BY DEF Laid, Here
<1>7. png.at \in first - 1 .. last /\ png.at - 1 \in first - 1 .. last
  BY <1>1
<1>8. ASSUME png.at < last PROVE file.chunks[png.at + 1].name = "IDAT"
  <2>1. png.at + 1 \in 1 .. Len(file.chunks) /\ png.at + 1 \in first .. last
    BY <1>1, <1>8
  <2>. QED
    BY <2>1 DEF Laid
<1>. QED
  BY <1>1, <1>2, <1>4, <1>5, <1>6, <1>7, <1>8

LEMMA OnCourseRow ==
    ASSUME file \in PngFiles, png \in PngRecord, NEW first, NEW last, NEW given,
           Laid(file, first, last, given), OnCourse(png, first, last, given), PngGood(png),
           UNCHANGED file, ReadRow
    PROVE  Running(png') /\ OnCourse(png', first, last, given)
<1>0. /\ Len(file.chunks) \in Nat /\ DOMAIN file.chunks = 1 .. Len(file.chunks)
      /\ first \in Nat /\ first > 1 /\ last \in Nat /\ first <= last /\ last < Len(file.chunks)
      /\ png.at \in Nat \ {0} /\ png.row_number \in Nat /\ png.taken \in Nat
      /\ file.height \in Nat
  BY CourseNumbers
<1>1. /\ png.step = "rows" /\ png.at \in first .. last /\ png.taken < Here.lines
      /\ png.row_number = given[png.at - 1] + png.taken
      /\ {"IHDR", "IDAT"} \subseteq png.mode
  BY DEF ReadRow, OnCourse
<1>2. png' = [png EXCEPT !.row_number = @ + 1, !.taken = @ + 1]
  BY DEF ReadRow
<1>3. /\ png'.step = "rows" /\ png'.at = png.at /\ png'.lost = png.lost
      /\ png'.mode = png.mode /\ png'.row_number = png.row_number + 1
      /\ png'.taken = png.taken + 1
  BY <1>1, <1>2 DEF PngRecord
<1>4. Here.lines \in Nat /\ given[png.at - 1] \in Nat
  BY <1>0, <1>1, DataHere
<1>5. png'.taken <= file.chunks[png'.at].lines
  <2>1. png.taken + 1 <= Here.lines
    BY <1>0, <1>1, <1>4
  <2>2. file.chunks[png'.at] = Here
    BY <1>3 DEF Here
  <2>. QED
    BY <1>3, <2>1, <2>2
<1>6. png'.row_number = given[png'.at - 1] + png'.taken
  BY <1>0, <1>1, <1>3, <1>4
<1>. QED
  BY <1>1, <1>3, <1>5, <1>6 DEF Running, OnCourse

LEMMA OnCourseLastRow ==
    ASSUME file \in PngFiles, png \in PngRecord, NEW first, NEW last, NEW given,
           Laid(file, first, last, given), OnCourse(png, first, last, given), PngGood(png),
           UNCHANGED file, LastRow
    PROVE  Running(png') /\ OnCourse(png', first, last, given)
<1>0. /\ Len(file.chunks) \in Nat /\ DOMAIN file.chunks = 1 .. Len(file.chunks)
      /\ first \in Nat /\ first > 1 /\ last \in Nat /\ first <= last /\ last < Len(file.chunks)
      /\ png.at \in Nat \ {0} /\ png.row_number \in Nat /\ png.taken \in Nat
      /\ file.height \in Nat
  BY CourseNumbers
<1>1. /\ png.step = "rows" /\ png.row_number >= file.height
      /\ png.row_number <= file.height
  BY <1>0 DEF LastRow, RowsLeft, PngGood, PngHeld
<1>2. png' = [png EXCEPT !.step = "finish"]
  BY DEF LastRow
<1>3. /\ png'.step = "finish" /\ png'.at = png.at /\ png'.lost = png.lost
      /\ png'.mode = png.mode /\ png'.row_number = png.row_number
      /\ png'.taken = png.taken
  BY <1>2 DEF PngRecord
<1>. QED
  BY <1>0, <1>1, <1>3 DEF Running, OnCourse

(* The stream goes on in the next IDAT.                                    *)
LEMMA OnCourseNextIDAT ==
    ASSUME file \in PngFiles, png \in PngRecord, NEW first, NEW last, NEW given,
           Laid(file, first, last, given), OnCourse(png, first, last, given),
           png.step \in {"rows", "finish"}, png.taken = Here.lines, png.at # last,
           UNCHANGED file, NEW step \in {"rows", "tail"}, NextIDAT(step)
    PROVE  Running(png') /\ OnCourse(png', first, last, given)
<1>1. /\ png.at \in first .. last /\ {"IHDR", "IDAT"} \subseteq png.mode
      /\ png.row_number = given[png.at - 1] + png.taken
  BY DEF OnCourse
<1>2. /\ png.at \in Nat /\ last \in Nat /\ first \in Nat /\ png.at < last
      /\ last < Len(file.chunks) /\ Len(file.chunks) \in Nat
      /\ Here.fault = "none" /\ file.chunks[png.at + 1].name = "IDAT"
      /\ given[png.at] = given[png.at - 1] + Here.lines
      /\ given[png.at] \in 0 .. file.height
  BY <1>1, DataHere
<1>3. png' = [[png EXCEPT !.at = @ + 1, !.taken = 0] EXCEPT !.step = step]
  BY <1>2 DEF NextIDAT
<1>4. /\ png'.step = step /\ png'.at = png.at + 1 /\ png'.lost = png.lost
      /\ png'.mode = png.mode /\ png'.row_number = png.row_number
      /\ png'.taken = 0
  BY <1>3 DEF PngRecord
<1>5. png'.at \in first .. last /\ png'.at - 1 = png.at
  BY <1>1, <1>2, <1>4
<1>6. file.chunks[png'.at].lines \in Nat
  <2>1. png'.at \in 1 .. Len(file.chunks) /\ file.chunks \in Seq(ChunkRecord)
    BY <1>2, <1>4, PngFileTyped
  <2>2. file.chunks[png'.at] \in ChunkRecord
    BY <2>1
  <2>. QED
    BY <2>2 DEF ChunkRecord
<1>7. png'.row_number = given[png'.at - 1] + png'.taken
  <2>1. file.height \in Nat
    BY PngFileTyped, BoundsAssumption
  <2>2. given[png.at] \in Nat
    BY <1>2, <2>1
  <2>. QED
    BY <1>1, <1>2, <1>4, <1>5, <2>2
<1>. QED
  BY <1>1, <1>4, <1>5, <1>6, <1>7 DEF Running, OnCourse

LEMMA OnCourseMore ==
    ASSUME file \in PngFiles, png \in PngRecord, NEW first, NEW last, NEW given,
           Laid(file, first, last, given), OnCourse(png, first, last, given), PngGood(png),
           UNCHANGED file, ReadMore
    PROVE  Running(png') /\ OnCourse(png', first, last, given)
<1>0. /\ Len(file.chunks) \in Nat /\ DOMAIN file.chunks = 1 .. Len(file.chunks)
      /\ first \in Nat /\ first > 1 /\ last \in Nat /\ first <= last /\ last < Len(file.chunks)
      /\ png.at \in Nat \ {0} /\ png.row_number \in Nat /\ png.taken \in Nat
      /\ file.height \in Nat
  BY CourseNumbers
<1>1. /\ png.step = "rows" /\ png.at \in first .. last /\ png.taken = Here.lines
      /\ png.row_number = given[png.at - 1] + png.taken
      /\ png.row_number < file.height
  BY DEF ReadMore, RowsLeft, OnCourse
<1>2. /\ Here.fault = "none" /\ (Here.ends <=> png.at = last)
      /\ given[png.at] = given[png.at - 1] + Here.lines
      /\ png.at = last => given[png.at] = file.height
  BY <1>1, DataHere
<1>3. png.at # last
  BY <1>0, <1>1, <1>2
<1>4. NextIDAT("rows")
  BY <1>2, <1>3 DEF ReadMore
<1>. QED
  BY <1>1, <1>3, <1>4, OnCourseNextIDAT

LEMMA OnCourseFinish ==
    ASSUME file \in PngFiles, png \in PngRecord, NEW first, NEW last, NEW given,
           Laid(file, first, last, given), OnCourse(png, first, last, given), PngGood(png),
           UNCHANGED file, FinishIDAT
    PROVE  Running(png') /\ OnCourse(png', first, last, given)
<1>0. /\ Len(file.chunks) \in Nat /\ DOMAIN file.chunks = 1 .. Len(file.chunks)
      /\ first \in Nat /\ first > 1 /\ last \in Nat /\ first <= last /\ last < Len(file.chunks)
      /\ png.at \in Nat \ {0} /\ png.row_number \in Nat /\ png.taken \in Nat
      /\ file.height \in Nat
  BY CourseNumbers
<1>1. /\ png.step = "finish" /\ png.at \in first .. last /\ png.taken <= Here.lines
      /\ png.row_number = given[png.at - 1] + png.taken
      /\ png.row_number = file.height /\ {"IHDR", "IDAT"} \subseteq png.mode
  BY DEF FinishIDAT, OnCourse, Here
<1>2. /\ Here.fault = "none" /\ (Here.ends <=> png.at = last)
      /\ given[png.at] = given[png.at - 1] + Here.lines
      /\ given[png.at] \in 0 .. file.height /\ given[png.at - 1] \in 0 .. file.height
      /\ Here.lines \in Nat
  BY <1>1, DataHere
<1>3. png.taken = Here.lines
  BY <1>0, <1>1, <1>2
<1>4. CASE png.at = last
  <2>1. png' = [png EXCEPT !.step = "tail"]
    BY <1>2, <1>4 DEF FinishIDAT
  <2>2. /\ png'.step = "tail" /\ png'.at = png.at /\ png'.lost = png.lost
        /\ png'.mode = png.mode
    BY <2>1 DEF PngRecord
  <2>. QED
    BY <1>1, <2>2 DEF Running, OnCourse
<1>5. CASE png.at # last
  <2>1. NextIDAT("tail")
    BY <1>0, <1>2, <1>3, <1>5 DEF FinishIDAT
  <2>. QED
    BY <1>1, <1>3, <1>5, <2>1, OnCourseNextIDAT
<1>. QED
  BY <1>4, <1>5

LEMMA OnCourseTail ==
    ASSUME file \in PngFiles, png \in PngRecord, NEW first, NEW last, NEW given,
           Laid(file, first, last, given), OnCourse(png, first, last, given), PngGood(png),
           UNCHANGED file, TailIDAT
    PROVE  Running(png') /\ OnCourse(png', first, last, given)
<1>0. /\ Len(file.chunks) \in Nat /\ DOMAIN file.chunks = 1 .. Len(file.chunks)
      /\ first \in Nat /\ first > 1 /\ last \in Nat /\ first <= last /\ last < Len(file.chunks)
      /\ png.at \in Nat \ {0} /\ png.row_number \in Nat /\ png.taken \in Nat
      /\ file.height \in Nat
  BY CourseNumbers
<1>1. png.at \in first .. last /\ {"IHDR", "IDAT"} \subseteq png.mode
  BY DEF TailIDAT, OnCourse
<1>2. Here.fault = "none"
  BY <1>1, DataHere
<1>3. png' = [[png EXCEPT !.step = "end"] EXCEPT !.at = @ + 1, !.taken = 0]
  BY <1>2 DEF TailIDAT, CrcFinish
<1>4. /\ png'.step = "end" /\ png'.at = png.at + 1 /\ png'.lost = png.lost
      /\ png'.mode = png.mode
  BY <1>3 DEF PngRecord
<1>5. png'.at \in first + 1 .. Len(file.chunks)
  BY <1>0, <1>1, <1>4
<1>. QED
  BY <1>1, <1>4, <1>5 DEF Running, OnCourse

LEMMA OnCourseKept ==
    ASSUME file \in PngFiles, png \in PngRecord, NEW first, NEW last, NEW given,
           Laid(file, first, last, given), OnCourse(png, first, last, given), PngGood(png),
           UNCHANGED file, PngStep
    PROVE  Running(png') /\ OnCourse(png', first, last, given)
<1>0. /\ Len(file.chunks) \in Nat /\ DOMAIN file.chunks = 1 .. Len(file.chunks)
      /\ first \in Nat /\ first > 1 /\ last \in Nat /\ first <= last /\ last < Len(file.chunks)
      /\ png.at \in Nat \ {0} /\ png.row_number \in Nat /\ png.taken \in Nat
      /\ file.height \in Nat
  BY CourseNumbers
<1>1. CASE ReadSig
  BY <1>1, OnCourseSig
<1>2. CASE NoMoreChunks
  <2>1. png.step \in {"info", "end"} /\ png.at > Len(file.chunks)
    BY <1>2 DEF NoMoreChunks, AtEof
  <2>. QED
    BY <1>0, <2>1 DEF OnCourse
<1>3. CASE HandleIHDR
  BY <1>3, OnCourseIHDR
<1>4. CASE HandlePLTE
  BY <1>4, OnCoursePLTE
<1>5. CASE HandleAncillary
  BY <1>5, OnCourseAncillary
<1>6. CASE HandleIEND
  BY <1>6, OnCourseIEND
<1>7. CASE InfoIDAT
  BY <1>7, OnCourseInfoIDAT
<1>8. CASE EndIDAT
  BY <1>8, OnCourseEndIDAT
<1>9. CASE StartImage
  BY <1>9, OnCourseStart
<1>10. CASE ReadRow
  BY <1>10, OnCourseRow
<1>11. CASE ReadMore
  BY <1>11, OnCourseMore
<1>12. CASE LastRow
  BY <1>12, OnCourseLastRow
<1>13. CASE FinishIDAT
  BY <1>13, OnCourseFinish
<1>14. CASE TailIDAT
  BY <1>14, OnCourseTail
<1>. QED
  BY <1>1, <1>2, <1>3, <1>4, <1>5, <1>6, <1>7, <1>8, <1>9, <1>10, <1>11, <1>12, <1>13,
     <1>14 DEF PngStep

-----------------------------------------------------------------------------
(* The reader of an intact JPEG: every item is the one that it waits for.  *)
JpegOnCourse ==
    /\ jds.at \in 1 .. 5 + file.height
    /\ jds.global_state = "DSTATE_START" => jds.at = 1
    /\ jds.global_state \in {"DSTATE_START", "DSTATE_INHEADER"} =>
          /\ jds.at \in 1 .. 4
          /\ "SOI" \in jds.saw => jds.at > 1
          /\ "SOF" \in jds.saw <=> jds.at > 3
          /\ "SOS" \notin jds.saw
    /\ jds.at > 2 => "TABLES" \in jds.saw
    /\ jds.global_state \in {"DSTATE_READY", "DSTATE_SCANNING"} =>
          jds.at = 5 + jds.output_scanline
    /\ jds.global_state = "DSTATE_READY" => jds.output_scanline = 0
    /\ jds.global_state = "DSTATE_SCANNING" => jds.output_scanline <= file.height
    /\ jds.global_state = "DSTATE_STOPPING" => jds.at = 5 + file.height

LEMMA JpegCourseHeader ==
    ASSUME file \in JpegFiles, IntactJpeg(file), jds \in JdsRecord, JpegOnCourse,
           jds.output_scanline = 0, ReadHeader, UNCHANGED file
    PROVE  call' = call /\ JpegOnCourse'
<1>1. /\ file.height \in Nat \ {0} /\ file.width # 0
      /\ Len(file.items) = 5 + file.height
      /\ file.items[1] = "SOI" /\ file.items[2] = "TABLES"
      /\ file.items[3] = "SOF" /\ file.items[4] = "SOS"
  BY IntactItems
<1>2. /\ jds.at \in 1 .. 4 /\ jds.global_state \in {"DSTATE_START", "DSTATE_INHEADER"}
      /\ "SOI" \in jds.saw => jds.at > 1
      /\ "SOF" \in jds.saw <=> jds.at > 3
      /\ "SOS" \notin jds.saw
      /\ jds.at > 2 => "TABLES" \in jds.saw
  BY DEF ReadHeader, JpegOnCourse
<1>3. Item = file.items[jds.at]
  BY <1>1, <1>2 DEF Item
<1>4. \/ jds.at = 1 /\ Item = "SOI"
      \/ jds.at = 2 /\ Item = "TABLES"
      \/ jds.at = 3 /\ Item = "SOF"
      \/ jds.at = 4 /\ Item = "SOS"
  BY <1>1, <1>2, <1>3
<1>5. /\ Item \in Markers /\ Item # "EOI" /\ MarkerAccepted(Item)
      /\ jds.at = 1 => Item = "SOI"
      /\ Item = "SOS" <=> jds.at = 4
      /\ Item = "SOI" <=> jds.at = 1
      /\ Item = "TABLES" <=> jds.at = 2
      /\ Item = "SOF" <=> jds.at = 3
  <2>1. MarkerAccepted(Item)
    <3>1. CASE jds.at = 1 /\ Item = "SOI"
      BY <1>2, <3>1 DEF MarkerAccepted, Saw
    <3>2. CASE jds.at = 2 /\ Item = "TABLES"
      BY <3>2 DEF MarkerAccepted
    <3>3. CASE jds.at = 3 /\ Item = "SOF"
      BY <1>1, <1>2, <3>3 DEF MarkerAccepted, Saw
    <3>4. CASE jds.at = 4 /\ Item = "SOS"
      BY <1>2, <3>4 DEF MarkerAccepted, Saw
    <3>. QED
      BY <1>4, <3>1, <3>2, <3>3, <3>4
  <2>. QED
    BY <1>4, <2>1 DEF Markers
<1>6. file.items # << >>
  BY <1>1
<1>7. Decompress([jds EXCEPT
                    !.global_state = IF Item = "SOS" THEN "DSTATE_READY" ELSE "DSTATE_INHEADER",
                    !.at = @ + 1,
                    !.saw = @ \cup ({Item} \cap Markers)])
  BY <1>5, <1>6 DEF ReadHeader
<1>8. /\ call' = call /\ jds'.at = jds.at + 1
      /\ jds'.saw = jds.saw \cup {Item}
      /\ jds'.global_state = IF jds.at = 4 THEN "DSTATE_READY" ELSE "DSTATE_INHEADER"
      /\ jds'.output_scanline = 0
  BY <1>5, <1>7 DEF Decompress, fileVars, JdsRecord
<1>9. /\ "SOI" \in jds'.saw => jds'.at > 1
      /\ "SOF" \in jds'.saw <=> jds'.at > 3
      /\ "SOS" \in jds'.saw <=> jds'.at = 5
      /\ jds'.at > 2 => "TABLES" \in jds'.saw
  BY <1>2, <1>5, <1>8
<1>10. /\ jds'.at \in 2 .. 5 /\ jds'.at \in 1 .. 5 + file.height
       /\ jds'.at = 5 <=> jds.at = 4
  <2>1. \A k \in 1 .. 4 : /\ k + 1 \in 2 .. 5 /\ (k + 1 = 5 <=> k = 4)
                          /\ \A h \in Nat : k + 1 \in 1 .. 5 + h
    OBVIOUS
  <2>2. file.height \in Nat /\ jds.at \in 1 .. 4
    BY <1>1, <1>2
  <2>. QED
    BY <1>8, <2>1, <2>2, Zenon
<1>11. CASE jds.at = 4
  BY <1>8, <1>9, <1>10, <1>11 DEF JpegOnCourse
<1>12. CASE jds.at # 4
  <2>1. jds'.at \in 1 .. 4
    BY <1>10, <1>12
  <2>. QED
    BY <1>8, <1>9, <1>10, <1>12, <2>1 DEF JpegOnCourse
<1>. QED
  BY <1>11, <1>12

LEMMA JpegCourseStart ==
    ASSUME file \in JpegFiles, jds \in JdsRecord, JpegOnCourse,
           call = "jpeg", inputImageType = "IMAGE_JPG",
           StartDecompress, UNCHANGED file
    PROVE  /\ JpegOnCourse'
           /\ SizeFits => starved' \/ call' = call
<1>1. /\ jds.global_state = "DSTATE_READY" /\ jds.output_scanline = 0
      /\ jds.at = 5 /\ "TABLES" \in jds.saw
  BY DEF StartDecompress, JpegOnCourse
<1>2. /\ jds' = [jds EXCEPT !.global_state = "DSTATE_SCANNING"]
      /\ \/ call' = call
         \/ Overruns(file.width, file.height, file.comps)
         \/ starved' = TRUE
  BY <1>1 DEF StartDecompress, Saw
<1>3. /\ jds'.global_state = "DSTATE_SCANNING" /\ jds'.output_scanline = 0
      /\ jds'.at = 5 /\ jds'.saw = jds.saw
  BY <1>1, <1>2 DEF JdsRecord
<1>4. file.height \in Nat /\ file.width \in Nat /\ file.comps \in Nat
  BY JpegFileTyped, BoundsAssumption
<1>5. SizeFits => ~Overruns(file.width, file.height, file.comps)
  BY <1>4, Fitting DEF SizeFits, FormOfFile, IsJpeg
<1>. QED
  BY <1>1, <1>2, <1>3, <1>4, <1>5 DEF JpegOnCourse

LEMMA JpegCourseScan ==
    ASSUME file \in JpegFiles, IntactJpeg(file), jds \in JdsRecord, JpegOnCourse,
           ReadScanline \/ FinishDecompress \/ ReadTrailer, UNCHANGED file
    PROVE  call' = call /\ JpegOnCourse'
<1>1. /\ file.height \in Nat \ {0} /\ Len(file.items) = 5 + file.height
      /\ \A i \in 1 .. file.height : file.items[4 + i] = "ROW"
      /\ file.items[5 + file.height] = "EOI"
  BY IntactItems
<1>2. jds.output_scanline \in Nat /\ jds.at \in Nat
  BY BoundsAssumption DEF JdsRecord
<1>3. CASE ReadScanline
  <2> DEFINE line == jds.output_scanline + 1
  <2>1. jds.at = 4 + line /\ line \in 1 .. file.height
    <3>1. jds.global_state = "DSTATE_SCANNING" /\ jds.output_scanline < file.height
      BY <1>3 DEF ReadScanline, LinesLeft
    <3>2. jds.at = 5 + jds.output_scanline
      BY <3>1 DEF JpegOnCourse
    <3>. QED
      BY <1>1, <1>2, <3>1, <3>2
  <2>2. file.items[4 + line] = "ROW" /\ ~(4 + line > Len(file.items))
    BY <1>1, <2>1
  <2>3. Item = "ROW"
    BY <2>1, <2>2 DEF Item
  <2>4. /\ jds' = [jds EXCEPT !.output_scanline = @ + 1, !.at = @ + 1]
        /\ call' = call /\ jds.global_state = "DSTATE_SCANNING"
    BY <1>3, <2>3 DEF ReadScanline
  <2>5. /\ jds'.global_state = "DSTATE_SCANNING" /\ jds'.at = jds.at + 1
        /\ jds'.output_scanline = jds.output_scanline + 1 /\ jds'.saw = jds.saw
    BY <2>4 DEF JdsRecord
  <2>6. /\ jds'.at = 5 + jds'.output_scanline /\ jds'.at \in 1 .. 5 + file.height
        /\ jds'.output_scanline <= file.height
    <3>1. jds'.output_scanline = line
      BY <2>5
    <3> HIDE DEF line
    <3>2. line \in Nat /\ line <= file.height /\ jds'.at = 5 + line
      BY <1>1, <2>1, <2>5
    <3>. QED
      BY <1>1, <3>1, <3>2
  <2>7. "TABLES" \in jds.saw
    <3>1. jds.at > 2
      BY <1>2, <2>1
    <3>. QED
      BY <3>1 DEF JpegOnCourse
  <2>. QED
    BY <2>4, <2>5, <2>6, <2>7 DEF JpegOnCourse
<1>4. CASE FinishDecompress
  <2>1. /\ jds.at = 5 + file.height
        /\ jds' = [jds EXCEPT !.global_state = "DSTATE_STOPPING"] /\ call' = call
    BY <1>1, <1>2, <1>4
       DEF FinishDecompress, Decompress, LinesLeft, JpegOnCourse, fileVars
  <2>2. /\ jds'.global_state = "DSTATE_STOPPING" /\ jds'.at = jds.at
        /\ jds'.output_scanline = jds.output_scanline /\ jds'.saw = jds.saw
    BY <2>1 DEF JdsRecord
  <2>. QED
    BY <1>1, <2>1, <2>2 DEF JpegOnCourse
<1>5. CASE ReadTrailer
  <2>1. jds.at = 5 + file.height /\ jds.global_state = "DSTATE_STOPPING"
    BY <1>5 DEF ReadTrailer, JpegOnCourse
  <2>2. Item = "EOI"
    BY <1>1, <2>1 DEF Item
  <2>3. jds' = [jds EXCEPT !.eoi_reached = TRUE, !.at = @] /\ call' = call
    BY <1>5, <2>2 DEF ReadTrailer, MarkerAccepted, Decompress, fileVars
  <2>4. /\ jds'.global_state = "DSTATE_STOPPING" /\ jds'.at = jds.at
        /\ jds'.output_scanline = jds.output_scanline /\ jds'.saw = jds.saw
    BY <2>1, <2>3 DEF JdsRecord
  <2>. QED
    BY <1>1, <2>1, <2>3, <2>4 DEF JpegOnCourse
<1>. QED
  BY <1>3, <1>4, <1>5

-----------------------------------------------------------------------------
(* A reader of an intact file has had no error.                            *)
PngOnCourse ==
    \E first, last \in DOMAIN file.chunks :
       \E given \in [first - 1 .. last -> 0 .. file.height] :
          Laid(file, first, last, given) /\ OnCourse(png, first, last, given)

IntactInv ==
    /\ call = "png" /\ IntactPng(file) /\ ~starved => PngOnCourse
    /\ call = "jpeg" /\ IntactJpeg(file) => JpegOnCourse

ReadOn ==
    LoadingIntact =>
       \/ starved'
       \/ call' \in {call, "loaded"} /\ (png'.step = "sig" => png' = png)

LEMMA IntactReadsPng ==
    ASSUME CodecInv, IntactInv, ReadPng, UNCHANGED inputImageType
    PROVE  IntactInv' /\ ReadOn
<1>1. /\ call = "png" /\ inputImageType = "IMAGE_PNG" /\ file \in PngFiles
      /\ png \in PngRecord /\ PngGood(png) /\ starved \in BOOLEAN
  BY DEF ReadPng, CodecInv, FileInv, PngInv
<1>2. CASE PngStep /\ UNCHANGED fileVars
  <2>1. call' = call /\ file' = file /\ starved' = starved
    BY <1>2 DEF fileVars
  <2>2. ASSUME IntactPng(file), ~starved PROVE PngOnCourse' /\ png'.step # "sig"
    <3>1. PICK first \in DOMAIN file.chunks, last \in DOMAIN file.chunks :
             \E given \in [first - 1 .. last -> 0 .. file.height] :
                Laid(file, first, last, given) /\ OnCourse(png, first, last, given)
      BY <1>1, <2>2 DEF IntactInv, PngOnCourse
    <3>2. PICK given \in [first - 1 .. last -> 0 .. file.height] :
             Laid(file, first, last, given) /\ OnCourse(png, first, last, given)
      BY <3>1
    <3>3. Running(png') /\ OnCourse(png', first, last, given)
      BY <1>1, <1>2, <2>1, <3>2, OnCourseKept
    <3>4. OnCourse(png, first, last, given)' <=> OnCourse(png', first, last, given)
      BY <2>1 DEF OnCourse, HeadRead
    <3>5. Laid(file, first, last, given)' <=> Laid(file, first, last, given)
      BY <2>1
    <3>. QED
      BY <2>1, <3>2, <3>3, <3>4, <3>5 DEF PngOnCourse, Running
  <2>3. IntactPng(file)' <=> IntactPng(file)
    BY <2>1
  <2>. QED
    BY <1>1, <2>1, <2>2, <2>3 DEF IntactInv, ReadOn, LoadingIntact, Intact, IsJpeg
<1>3. CASE OutOfMemory
  <2>1. starved' /\ call' = call
    BY <1>3 DEF OutOfMemory
  <2>. QED
    BY <1>1, <2>1 DEF IntactInv, ReadOn
<1>4. CASE CopyRows
  <2>1. call' \in {"loaded", "exited"}
    BY <1>4 DEF CopyRows, Corrupt
  <2>2. SizeFits => starved' \/ call' = "loaded"
    <3>1. file.width \in Nat /\ file.height \in Nat /\ PngForm \in Nat
      BY <1>1, PngFileTyped, BoundsAssumption DEF PngForm, Colors
    <3>2. SizeFits => ~Overruns(file.width, file.height, PngForm)
      BY <1>1, <3>1, Fitting DEF SizeFits, FormOfFile, IsJpeg
    <3>. QED
      BY <1>4, <3>2 DEF CopyRows
  <2>3. png' = png
    BY <1>4 DEF CopyRows
  <2>. QED
    BY <2>1, <2>2, <2>3 DEF IntactInv, ReadOn, LoadingIntact
<1>. QED
  BY <1>2, <1>3, <1>4 DEF ReadPng

LEMMA IntactReadsJpeg ==
    ASSUME CodecInv, IntactInv, ReadJpeg, UNCHANGED <<png, inputImageType>>
    PROVE  IntactInv' /\ ReadOn
<1>1. /\ call = "jpeg" /\ inputImageType = "IMAGE_JPG" /\ file \in JpegFiles
      /\ jds \in JdsRecord /\ JpegGood
  BY DEF ReadJpeg, CodecInv, FileInv, JpegInv
<1>2. file' = file /\ png' = png
  BY DEF ReadJpeg, ReadHeader, StartDecompress, ReadScanline, FinishDecompress,
         ReadTrailer, Loaded, ErrorExit, Decompress, fileVars
<1>3. IntactJpeg(file)' <=> IntactJpeg(file)
  BY <1>2
<1>4. call' # "png"
  BY <1>1 DEF ReadJpeg, ReadHeader, StartDecompress, ReadScanline, FinishDecompress,
         ReadTrailer, Loaded, ErrorExit, Decompress, fileVars, Corrupt
<1>5. CASE IntactJpeg(file)
  <2>1. JpegOnCourse
    BY <1>1, <1>5 DEF IntactInv
  <2>2. CASE ReadHeader
    <3>1. jds.output_scanline = 0
      BY <1>1, <2>2 DEF ReadHeader, JpegGood
    <3>2. call' = call /\ JpegOnCourse'
      BY <1>1, <1>2, <1>5, <2>1, <2>2, <3>1, JpegCourseHeader
    <3>. QED
      BY <1>1, <1>2, <1>4, <3>2 DEF IntactInv, ReadOn
  <2>3. CASE StartDecompress
    <3>1. JpegOnCourse' /\ (SizeFits => starved' \/ call' = call)
      BY <1>1, <1>2, <2>1, <2>3, JpegCourseStart
    <3>. QED
      BY <1>2, <1>4, <3>1 DEF IntactInv, ReadOn, LoadingIntact
  <2>4. CASE ReadScanline \/ FinishDecompress \/ ReadTrailer
    <3>1. call' = call /\ JpegOnCourse'
      BY <1>1, <1>2, <1>5, <2>1, <2>4, JpegCourseScan
    <3>. QED
      BY <1>1, <1>2, <1>4, <3>1 DEF IntactInv, ReadOn
  <2>5. CASE Loaded
    BY <1>2, <2>5 DEF Loaded, IntactInv, ReadOn
  <2>. QED
    BY <2>2, <2>3, <2>4, <2>5 DEF ReadJpeg
<1>6. CASE ~IntactJpeg(file)
  BY <1>1, <1>3, <1>4, <1>6 DEF IntactInv, ReadOn, LoadingIntact, Intact, IsJpeg
<1>. QED
  BY <1>5, <1>6

LEMMA IntactLoads ==
    ASSUME CodecInv, IntactInv, LoadPng \/ LoadJpeg
    PROVE  IntactInv'
<1>1. CASE LoadPng
  <2>1. call' = "png" /\ file' \in PngFiles /\ png' = NewReader
    BY <1>1 DEF LoadPng, CodecInv, PngInv
  <2>2. ASSUME IntactPng(file') PROVE PngOnCourse'
    <3>1. PICK first \in DOMAIN file'.chunks, last \in DOMAIN file'.chunks :
             \E given \in [first - 1 .. last -> 0 .. file'.height] :
                Laid(file', first, last, given)
      BY <2>1, <2>2, IntactLaid
    <3>2. PICK given \in [first - 1 .. last -> 0 .. file'.height] :
             Laid(file', first, last, given)
      BY <3>1
    <3>3. OnCourse(png, first, last, given)'
      BY <2>1 DEF OnCourse, NewReader
    <3>. QED
      BY <3>2, <3>3 DEF PngOnCourse
  <2>. QED
    BY <2>1, <2>2 DEF IntactInv
<1>2. CASE LoadJpeg
  <2>1. call' = "jpeg" /\ file' \in JpegFiles /\ jds' = NewDecompress
    BY <1>2 DEF LoadJpeg, CodecInv, JpegInv
  <2>2. file'.height \in Nat
    BY <2>1, JpegFilesAssumption, BoundsAssumption
  <2>3. JpegOnCourse'
    BY <2>1, <2>2 DEF JpegOnCourse, NewDecompress
  <2>. QED
    BY <2>1, <2>3 DEF IntactInv
<1>. QED
  BY <1>1, <1>2

LEMMA IntactStep ==
    CodecInv /\ IntactInv /\ [CodecNext]_codecVars => IntactInv' /\ [ReadOn]_codecVars
<1> SUFFICES ASSUME CodecInv, IntactInv, [CodecNext]_codecVars
             PROVE  IntactInv' /\ [ReadOn]_codecVars
  OBVIOUS
<1>1. CASE LoadPng \/ LoadJpeg
  <2>1. call = "none"
    BY <1>1 DEF LoadPng, LoadJpeg
  <2>. QED
    BY <1>1, <2>1, IntactLoads DEF ReadOn, LoadingIntact
<1>2. CASE Reading
  BY <1>2, IntactReadsPng, IntactReadsJpeg DEF Reading
<1>3. CASE LoadRefused \/ ReadBack \/ SaveImage \/ Writing
  <2>1. call \notin {"png", "jpeg"} /\ call' \notin {"png", "jpeg"}
    BY <1>3 DEF LoadRefused, ReadBack, SaveImage, Writing, WriteJpeg, WritePng, Corrupt,
                StartCompress, WriteScanline, FinishCompress, ErrorExit, fileVars
  <2>. QED
    BY <2>1 DEF IntactInv, ReadOn, LoadingIntact
<1>4. CASE UNCHANGED codecVars
  <2>1. UNCHANGED <<file, call, starved, png, jds>>
    BY <1>4 DEF codecVars, pngVars, fileVars
  <2>2. PngOnCourse' <=> PngOnCourse
    BY <2>1 DEF PngOnCourse, OnCourse, HeadRead
  <2>3. JpegOnCourse' <=> JpegOnCourse
    BY <2>1 DEF JpegOnCourse
  <2>4. (IntactPng(file)' <=> IntactPng(file)) /\ (IntactJpeg(file)' <=> IntactJpeg(file))
    BY <2>1
  <2>. QED
    BY <1>4, <2>1, <2>2, <2>3, <2>4 DEF IntactInv
<1>. QED
  BY <1>1, <1>2, <1>3, <1>4 DEF CodecNext

(* An intact file of any size, its data cut into IDATs in any way, is read *)
(* in one pass as long as there is memory: read_png never comes back to    *)
(* its setjmp, and libjpeg never ends the process.                         *)
THEOREM IntactAlwaysRead == CodecSpec => IntactIsRead
<1>1. CodecInit => IntactInv
  BY DEF CodecInit, IntactInv
<1>2. CodecSpec => [][ReadOn]_codecVars
  BY <1>1, CodecAlways, IntactStep, PTL DEF CodecSpec
<1>. QED
  BY <1>2 DEF IntactIsRead, ReadOn
=============================================================================
