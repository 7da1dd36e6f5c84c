------------------------------ MODULE JpegCodec ------------------------------
(***************************************************************************)
(* read_jpeg and write_jpeg of jni/src/imgsdk.c over the state machines of *)
(* libjpeg 9a, marker by marker and line by line.                          *)
(*                                                                         *)
(* The error manager is libjpeg's own: an error ends the process.  A file  *)
(* that ends too early is only a warning: jdatasrc.c goes on with an EOI   *)
(* that is not there.                                                      *)
(*                                                                         *)
(* A file is [width, height, comps, items]; an item is a marker, "JUNK"    *)
(* for bytes that are no marker, or "ROW", the data of one line of the     *)
(* scan.  "TABLES" stands for DQT and DHT.  Files with several scans and   *)
(* files that end inside a marker are left out.                            *)
(***************************************************************************)
EXTENDS ImageFile

VARIABLES
    jds,            \* struct jpeg_decompress_struct
    jcs,            \* struct jpeg_compress_struct
    out             \* the rows of the file written, "none" before

jpegVars == <<fileVars, jds, jcs, out>>

(* jpeg_create_decompress; the new Bitmap_t has no memory yet.             *)
NewDecompress ==
    [global_state |-> "DSTATE_START",
     at |-> 1,              \* the next item of the file
     saw |-> {},            \* the markers read so far
     eoi_reached |-> FALSE,
     output_scanline |-> 0]

NewCompress == [global_state |-> "CSTATE_START", next_scanline |-> 0]

DStates ==
    {"DSTATE_START", "DSTATE_INHEADER", "DSTATE_READY", "DSTATE_SCANNING",
     "DSTATE_STOPPING"}

CStates == {"CSTATE_START", "CSTATE_SCANNING"}

Markers == {"SOI", "TABLES", "SOF", "SOS", "EOI"}

(* fill_input_buffer at the end of the file: a fake EOI.                   *)
Item == IF jds.at > Len(file.items) THEN "EOI" ELSE file.items[jds.at]

Saw(marker) == marker \in jds.saw

(* error_exit.                                                             *)
ErrorExit ==
    /\ call' = "exited"
    /\ UNCHANGED <<file, mem, starved, jds, jcs, out>>

(* What is no error for read_markers: which marker may follow which.       *)
MarkerAccepted(marker) ==
    CASE marker = "SOI" -> ~Saw("SOI")
      [] marker = "SOF" -> ~Saw("SOF") /\ 0 \notin {file.width, file.height}
      [] marker = "SOS" -> Saw("SOF") /\ ~Saw("SOS")
      [] OTHER -> TRUE

Decompress(f) ==
    /\ jds' = f
    /\ UNCHANGED <<fileVars, jcs, out>>

(* jpeg_read_header and jpeg_consume_input: one marker of the header.      *)
ReadHeader ==
    /\ jds.global_state \in {"DSTATE_START", "DSTATE_INHEADER"}
    /\ IF \/ jds.at = 1 /\ (file.items = << >> \/ Item # "SOI")
          \/ Item = "EOI"                           \* no image in the file
          \/ Item \in Markers /\ ~MarkerAccepted(Item)
       THEN ErrorExit
       ELSE Decompress(
              [jds EXCEPT
                 !.global_state = IF Item = "SOS" THEN "DSTATE_READY"
                                  ELSE "DSTATE_INHEADER",
                 !.at = @ + 1,
                 !.saw = @ \cup ({Item} \cap Markers)])

JpegBitmap ==
    [form |-> file.comps, width |-> file.width, height |-> file.height,
     rows |-> [i \in 1 .. file.height |-> Blank]]

(* The Bitmap_t, all zero, and jpeg_start_decompress, which wants the      *)
(* tables.  A calloc that fails ends the process in assert, or in the      *)
(* first write.                                                            *)
StartDecompress ==
    /\ jds.global_state = "DSTATE_READY"
    /\ IF ~Saw("TABLES") THEN ErrorExit
       ELSE /\ \/ /\ ~Overruns(file.width, file.height, file.comps)
                  /\ mem' = JpegBitmap
                  /\ UNCHANGED <<call, starved>>
               \/ /\ Overruns(file.width, file.height, file.comps)
                  /\ Corrupt(JpegBitmap, "jpeg")
                  /\ UNCHANGED starved
               \/ /\ call' = "exited"
                  /\ starved' = TRUE
                  /\ UNCHANGED mem
            /\ jds' = [jds EXCEPT !.global_state = "DSTATE_SCANNING"]
            /\ UNCHANGED <<file, jcs, out>>

LinesLeft == jds.output_scanline < file.height

(* The first line of the file goes to the last row of the memory.          *)
RowOf(scanline) == file.height - scanline

(* jpeg_read_scanlines for one line.  Once the scan's data have run out,   *)
(* the decoder makes the rest of the lines up.                             *)
ReadScanline ==
    /\ jds.global_state = "DSTATE_SCANNING"
    /\ LinesLeft
    /\ LET line == jds.output_scanline + 1
           row == IF Item = "ROW" THEN Line(line) ELSE Filler(line)
       IN  mem' = IF mem.rows = << >> THEN mem
                  ELSE [mem EXCEPT !.rows[RowOf(jds.output_scanline)] = row]
    /\ jds' = [jds EXCEPT !.output_scanline = @ + 1,
                          !.at = IF Item = "ROW" THEN @ + 1 ELSE @]
    /\ UNCHANGED <<file, call, starved, jcs, out>>

(* jpeg_finish_decompress.                                                 *)
FinishDecompress ==
    /\ jds.global_state = "DSTATE_SCANNING"
    /\ ~LinesLeft
    /\ Decompress([jds EXCEPT !.global_state = "DSTATE_STOPPING"])

(* Mutant: the fake EOI is not taken for the end of the file.              *)
ReadTrailerPastEnd ==
    /\ jds.global_state = "DSTATE_STOPPING"
    /\ ~jds.eoi_reached
    /\ IF Item \in Markers /\ ~MarkerAccepted(Item)
       THEN ErrorExit
       ELSE Decompress([jds EXCEPT !.eoi_reached = jds.at > Len(file.items) + 1,
                                   !.at = @ + 1])

(* Its loop: what follows the scan, up to the EOI.  A second SOS is one    *)
(* scan too many.                                                          *)
ReadTrailer ==
    /\ jds.global_state = "DSTATE_STOPPING"
    /\ ~jds.eoi_reached
    /\ IF Item \in Markers /\ ~MarkerAccepted(Item)
       THEN ErrorExit
       ELSE Decompress([jds EXCEPT !.eoi_reached = Item = "EOI",
                                   !.at = IF Item = "EOI" THEN @ ELSE @ + 1])

Loaded ==
    /\ jds.global_state = "DSTATE_STOPPING"
    /\ jds.eoi_reached
    /\ call' = "loaded"
    /\ UNCHANGED <<file, mem, starved, jds, jcs, out>>

ReadJpeg ==
    /\ call = "jpeg"
    /\ \/ ReadHeader \/ StartDecompress \/ ReadScanline
       \/ FinishDecompress \/ ReadTrailer \/ Loaded

-----------------------------------------------------------------------------
(* write_jpeg: what input_components and in_color_space become.            *)
InputComponents == IF mem.form >= 3 THEN 3 ELSE mem.form
InColorSpace == IF mem.form >= 3 THEN "JCS_RGB" ELSE "JCS_GRAYSCALE"

(* jinit_color_converter.                                                  *)
CompressRefuses == InColorSpace = "JCS_GRAYSCALE" /\ InputComponents # 1

(* libjpeg reads input_components bytes for a pixel; a row of four bytes   *)
(* for a pixel is not what it takes it for.                                *)
AsRead(row) == [row EXCEPT !.whole = @ /\ mem.form = InputComponents]

StartCompress ==
    /\ jcs.global_state = "CSTATE_START"
    /\ IF CompressRefuses THEN ErrorExit
       ELSE /\ jcs' = [global_state |-> "CSTATE_SCANNING", next_scanline |-> 0]
            /\ out' = << >>
            /\ UNCHANGED <<fileVars, jds>>

(* Mutant: the rows are written bottom up, as read_jpeg stored them.       *)
WriteScanlineBottomUp ==
    /\ jcs.global_state = "CSTATE_SCANNING"
    /\ jcs.next_scanline < mem.height
    /\ out' = Append(out, AsRead(RowAt(mem.height - jcs.next_scanline)))
    /\ jcs' = [jcs EXCEPT !.next_scanline = @ + 1]
    /\ UNCHANGED <<fileVars, jds>>

(* jpeg_write_scanlines for the row at next_scanline * row_stride.         *)
WriteScanline ==
    /\ jcs.global_state = "CSTATE_SCANNING"
    /\ jcs.next_scanline < mem.height
    /\ out' = Append(out, AsRead(RowAt(jcs.next_scanline + 1)))
    /\ jcs' = [jcs EXCEPT !.next_scanline = @ + 1]
    /\ UNCHANGED <<fileVars, jds>>

(* jpeg_finish_compress and jpeg_abort.                                    *)
FinishCompress ==
    /\ jcs.global_state = "CSTATE_SCANNING"
    /\ jcs.next_scanline = mem.height
    /\ jcs' = NewCompress
    /\ call' = "saved"
    /\ UNCHANGED <<file, mem, starved, jds, out>>

WriteJpeg ==
    /\ call = "toJpeg"
    /\ StartCompress \/ WriteScanline \/ FinishCompress
=============================================================================
