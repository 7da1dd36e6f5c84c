------------------------------ MODULE PngReader ------------------------------
(***************************************************************************)
(* read_png of jni/src/imgsdk.c and the sequential reader of libpng 1.6.17 *)
(* below it, chunk by chunk and line by line.                              *)
(*                                                                         *)
(* read_png calls setjmp and never looks at what it returns: every error   *)
(* of libpng starts png_read_png again, on the same png_struct and at the  *)
(* place the file is now.  What happens then depends on what the failed    *)
(* attempt left in the png_struct, so the reader's fields are the state.   *)
(*                                                                         *)
(* A file is [sig, color, deep, width, height, chunks]; a chunk is         *)
(* [name, fault, lines, ends]: `lines` are the lines an IDAT's data gives, *)
(* `ends` says that the deflate stream ends in it.  A chunk with fault     *)
(* "cut" is the last one: the file ends inside it.  "gAMA" stands for the  *)
(* ancillary chunks.  Interlaced files, whose lines come in seven passes,  *)
(* are left out, and PNG_AFTER_IDAT, which only decides about warnings.    *)
(***************************************************************************)
EXTENDS ImageFile

VARIABLE png        \* the png_struct, the info_struct and the place in the file

pngVars == <<fileVars, png>>

Steps == {"sig", "info", "start", "rows", "finish", "tail", "end", "done"}

(* png_create_read_struct and png_create_info_struct.                      *)
NewReader ==
    [step |-> "sig",        \* where png_read_png is
     at |-> 1,              \* the next chunk, or the IDAT being read
     lost |-> FALSE,        \* the file is not at the start of a chunk
     sig_bytes |-> 0,
     mode |-> {},           \* PNG_HAVE_IHDR, PNG_HAVE_PLTE, PNG_HAVE_IDAT
     dims |-> FALSE,        \* width, height, colour and depth are set
     palette |-> FALSE,
     rowInit |-> FALSE,     \* PNG_FLAG_ROW_INIT
     row_number |-> 0,
     taken |-> 0]           \* lines taken from the IDAT being read

ChunkNames == {"IHDR", "PLTE", "gAMA", "IDAT", "IEND"}

AtEof == png.at > Len(file.chunks)
Here == file.chunks[png.at]

Have(chunk) == chunk \in png.mode

-----------------------------------------------------------------------------
(* png_error and png_longjmp: back to the setjmp in read_png, and on.      *)
Retry(p) == png' = [p EXCEPT !.step = "sig"]

(* The same from within a chunk: what is read next is no chunk header, and *)
(* libpng says so until the file ends and "Read Error" from then on.       *)
(* Abstraction: data inside a chunk never look like a chunk.               *)
RetryLost(p) == png' = [p EXCEPT !.step = "sig", !.lost = TRUE]

(* png_crc_finish: a critical chunk with a wrong CRC is an error after all *)
(* of it was read, so the file stands at the next chunk.                   *)
CrcFinish(p) ==
    LET q == [p EXCEPT !.at = @ + 1, !.taken = 0]
    IN  CASE Here.fault = "crc" -> Retry(q)
          [] Here.fault = "cut" -> RetryLost(p)
          [] OTHER -> png' = q

(* Mutant: a wrong CRC of an ancillary chunk is an error too.              *)
SkipAncillaryStrict == CrcFinish(png)

(* png_handle_gAMA and the like: an ancillary chunk only warns of its CRC. *)
SkipAncillary ==
    IF Here.fault = "cut" THEN RetryLost(png)
    ELSE png' = [png EXCEPT !.at = @ + 1]

-----------------------------------------------------------------------------
(* png_read_sig: sig_bytes is set before the signature is compared, so a   *)
(* wrong one is noticed once.                                              *)
ReadSig ==
    /\ png.step = "sig"
    /\ ~png.lost
    /\ IF png.sig_bytes = 8 \/ file.sig = "good"
       THEN png' = [png EXCEPT !.sig_bytes = 8, !.step = "info"]
       ELSE IF file.sig = "short"
            THEN RetryLost(png)
            ELSE Retry([png EXCEPT !.sig_bytes = 8])

(* png_read_chunk_header at the end of the file.                           *)
NoMoreChunks ==
    /\ png.step \in {"info", "end"}
    /\ AtEof
    /\ RetryLost(png)

(* In png_read_info, and after the image in png_read_end.                  *)
ReadChunk(name) ==
    /\ png.step \in {"info", "end"}
    /\ ~AtEof
    /\ Here.name = name

(* png_handle_IHDR.  PNG_HAVE_IHDR is set before the CRC is looked at, and *)
(* png_set_IHDR stores the fields before png_check_IHDR refuses them.      *)
HandleIHDR ==
    /\ ReadChunk("IHDR")
    /\ IF Have("IHDR") \/ Here.fault = "length"
       THEN RetryLost(png)                          \* out of place, invalid
       ELSE LET p == [png EXCEPT !.mode = @ \cup {"IHDR"}]
                q == [p EXCEPT !.dims = TRUE, !.at = @ + 1]
            IN  CASE Here.fault = "method" -> Retry(q)
                  [] Here.fault = "none" ->
                        IF 0 \in {file.width, file.height}
                        THEN Retry(q) ELSE png' = q
                  [] OTHER -> CrcFinish(p)

(* png_handle_PLTE.  PNG_HAVE_PLTE too is set before the CRC.              *)
HandlePLTE ==
    /\ ReadChunk("PLTE")
    /\ IF ~Have("IHDR") \/ Have("PLTE")
       THEN RetryLost(png)                          \* missing IHDR, duplicate
       ELSE CrcFinish(
              IF Have("IDAT") THEN png              \* out of place: a warning
              ELSE [png EXCEPT !.mode = @ \cup {"PLTE"},
                               !.palette = Here.fault = "none"])

HandleAncillary ==
    /\ ReadChunk("gAMA")
    /\ IF ~Have("IHDR") THEN RetryLost(png) ELSE SkipAncillary

(* png_handle_IEND.  png_read_end stops there, png_read_info does not.     *)
HandleIEND ==
    /\ ReadChunk("IEND")
    /\ IF {"IHDR", "IDAT"} \subseteq png.mode
       THEN CrcFinish(
              IF png.step = "end" /\ Here.fault = "none"
              THEN [png EXCEPT !.step = "done"] ELSE png)
       ELSE RetryLost(png)                          \* out of place

(* png_read_info at an IDAT: only its header is read, and the loop ends.   *)
InfoIDAT ==
    /\ ReadChunk("IDAT")
    /\ png.step = "info"
    /\ IF \/ ~Have("IHDR")
          \/ png.dims /\ file.color = "palette" /\ ~Have("PLTE")
       THEN RetryLost(png)
       ELSE png' = [png EXCEPT !.mode = @ \cup {"IDAT"}, !.step = "start"]

(* png_read_end: an IDAT after the image is skipped.                       *)
EndIDAT ==
    /\ ReadChunk("IDAT")
    /\ png.step = "end"
    /\ CrcFinish(png)

(* png_read_png after png_read_info: png_read_update_info refuses to be    *)
(* called twice and sets PNG_FLAG_ROW_INIT before it misses the palette;   *)
(* an image without lines has no memory.  The file is inside the IDAT.     *)
StartImage ==
    /\ png.step = "start"
    /\ IF png.rowInit
       THEN RetryLost(png)
       ELSE IF \/ ~png.dims \/ 0 \in {file.width, file.height}
               \/ file.color = "palette" /\ ~png.palette
            THEN RetryLost([png EXCEPT !.rowInit = TRUE])
            ELSE png' = [png EXCEPT !.rowInit = TRUE, !.step = "rows"]

(* png_malloc fails, in png_read_start_row or later.                       *)
OutOfMemory ==
    /\ png.step = "start"
    /\ ~png.rowInit
    /\ \E b \in BOOLEAN : RetryLost([png EXCEPT !.rowInit = b])
    /\ starved' = TRUE
    /\ UNCHANGED <<file, mem, call>>

-----------------------------------------------------------------------------
(* png_read_IDAT_data, when the IDAT has no more data: its CRC, and the    *)
(* next chunk must be an IDAT.                                             *)
NextIDAT(step) ==
    LET q == [png EXCEPT !.at = @ + 1, !.taken = 0]
    IN  IF Here.fault # "none"
        THEN CrcFinish(png)
        ELSE IF /\ png.at < Len(file.chunks)
                /\ file.chunks[png.at + 1].name = "IDAT"
             THEN png' = [q EXCEPT !.step = step]
             ELSE RetryLost(q)                      \* Not enough image data

RowsLeft == png.row_number < file.height

(* png_read_row, from the data at hand.                                    *)
ReadRow ==
    /\ png.step = "rows"
    /\ RowsLeft
    /\ png.taken < Here.lines
    /\ png' = [png EXCEPT !.row_number = @ + 1, !.taken = @ + 1]

(* Mutant: too little image data is only a warning.                        *)
ReadMoreBenign ==
    /\ png.step = "rows"
    /\ RowsLeft
    /\ png.taken = Here.lines
    /\ IF Here.fault \in {"zlib", "cut"} THEN RetryLost(png)
       ELSE IF Here.ends THEN png' = [png EXCEPT !.step = "finish"]
       ELSE NextIDAT("rows")

(* png_read_row, when the data at hand are used up or damaged.             *)
ReadMore ==
    /\ png.step = "rows"
    /\ RowsLeft
    /\ png.taken = Here.lines
    /\ IF Here.fault \in {"zlib", "cut"} \/ Here.ends
       THEN RetryLost(png)
       ELSE NextIDAT("rows")

(* png_read_finish_row after the last row.                                 *)
LastRow ==
    /\ png.step = "rows"
    /\ ~RowsLeft
    /\ png' = [png EXCEPT !.step = "finish"]

(* Mutant: the reader wants one more IDAT, also when the stream has ended.  *)
FinishAlwaysNext ==
    /\ png.step = "finish"
    /\ IF Here.fault = "zlib" THEN png' = [png EXCEPT !.step = "tail"]
       ELSE NextIDAT("tail")

(* png_read_finish_IDAT: one more look for the end of the stream, and what *)
(* is wrong with the data after the last row is a warning; then the IDAT's *)
(* CRC.                                                                    *)
FinishIDAT ==
    /\ png.step = "finish"
    /\ IF /\ Here.fault # "cut"
          /\ Here.ends \/ Here.fault = "zlib" \/ png.taken < Here.lines
       THEN png' = [png EXCEPT !.step = "tail"]
       ELSE NextIDAT("tail")

TailIDAT ==
    /\ png.step = "tail"
    /\ CrcFinish([png EXCEPT !.step = "end"])

-----------------------------------------------------------------------------
(* The memory that read_png copies the rows to: expanded to 8 bits for the *)
(* small depths, but a row of 16-bit samples is twice as long and its      *)
(* second half stays behind.  No test of calloc: rows are copied to NULL.  *)
PngForm ==
    [gray |-> 1, rgb |-> 3, rgba |-> 4, graya |-> 0, palette |-> 3][file.color]

PngBitmap ==
    [form |-> PngForm, width |-> file.width, height |-> file.height,
     rows |-> IF PngForm = 0 THEN << >>
              ELSE [i \in 1 .. file.height |->
                       IF i > png.row_number THEN Blank
                       ELSE IF file.deep THEN Filler(i) ELSE Line(i)]]

CopyRows ==
    /\ png.step = "done"
    /\ \/ /\ ~Overruns(file.width, file.height, PngForm)
          /\ mem' = PngBitmap
          /\ call' = "loaded"
          /\ UNCHANGED starved
       \/ /\ Overruns(file.width, file.height, PngForm)
          /\ Corrupt(PngBitmap, "loaded")
          /\ UNCHANGED starved
       \/ /\ PngForm # 0
          /\ call' = "exited"
          /\ starved' = TRUE
          /\ UNCHANGED mem
    /\ UNCHANGED <<file, png>>

PngStep ==
    \/ ReadSig \/ NoMoreChunks
    \/ HandleIHDR \/ HandlePLTE \/ HandleAncillary \/ HandleIEND
    \/ InfoIDAT \/ EndIDAT
    \/ StartImage
    \/ ReadRow \/ ReadMore \/ LastRow \/ FinishIDAT \/ TailIDAT

ReadPng ==
    /\ call = "png"
    /\ \/ PngStep /\ UNCHANGED fileVars
       \/ OutOfMemory
       \/ CopyRows

(* read_png's loop: setjmp, "Read Error", longjmp, and nothing changes.    *)
Spins == call = "png" /\ png.lost /\ png.step = "sig"
=============================================================================
