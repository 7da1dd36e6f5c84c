----------------------------- MODULE ImageCodec -----------------------------
(***************************************************************************)
(* loadImage and saveImage of jni/src/imgsdk.c with the two codecs, and    *)
(* the way main goes from the one to the other: it draws the picture and   *)
(* reads it back into the memory it came from.                             *)
(*                                                                         *)
(* The postfix of the path alone decides which codec reads or writes; a    *)
(* file says nothing about itself.                                         *)
(***************************************************************************)
EXTENDS PngReader, JpegCodec

CONSTANTS
    PngFiles,       \* the files as libpng sees them
    JpegFiles,      \* the files as libjpeg sees them
    NoFile          \* before any call

(* What may be wrong with a chunk, beside its place.                       *)
FaultsOf(name) ==
    {"none", "crc", "cut"} \cup
       (IF name = "IHDR" THEN {"method", "length"}
        ELSE IF name = "IDAT" THEN {"zlib"} ELSE {})

ASSUME PngFilesAssumption ==
    \A f \in PngFiles :
       /\ f \in [sig : {"good", "bad", "short"},
                 color : {"gray", "rgb", "rgba", "graya", "palette"},
                 deep : BOOLEAN, width : 0 .. MaxWidth, height : 0 .. MaxHeight,
                 chunks : Seq([name : ChunkNames, lines : Nat, ends : BOOLEAN,
                               fault : {"none", "crc", "cut", "method", "length", "zlib"}])]
       /\ \A i \in DOMAIN f.chunks : f.chunks[i].fault \in FaultsOf(f.chunks[i].name)
ASSUME JpegFilesAssumption ==
    JpegFiles \subseteq
       [width : 0 .. MaxWidth, height : 0 .. MaxHeight, comps : 1 .. 4,
        items : Seq(Markers \cup {"JUNK", "ROW"})]
ASSUME NoFileAssumption == NoFile \notin PngFiles \cup JpegFiles

VARIABLES
    postfix,        \* of the path loaded, then of the path saved
    inputImageType  \* what main knows of its input

codecVars == <<pngVars, jds, jcs, out, postfix, inputImageType>>

(* strcasecmp takes no other; a path of less than five characters has none. *)
Postfixes == {"jpg", "png", "other", "none"}

CodecInit ==
    /\ file = NoFile
    /\ mem = NoBitmap
    /\ call = "none"
    /\ starved = FALSE
    /\ png = NewReader
    /\ jds = NewDecompress
    /\ jcs = NewCompress
    /\ out = << >>
    /\ postfix = "none"
    /\ inputImageType = "none"

-----------------------------------------------------------------------------
(* loadImage: the file is there and is read, or it is not, or its name is  *)
(* not one of the two.                                                     *)
LoadJpeg ==
    /\ call = "none"
    /\ \E f \in JpegFiles : file' = f
    /\ call' = "jpeg"
    /\ postfix' = "jpg"
    /\ inputImageType' = "IMAGE_JPG"
    /\ UNCHANGED <<mem, starved, png, jds, jcs, out>>

LoadPng ==
    /\ call = "none"
    /\ \E f \in PngFiles : file' = f
    /\ call' = "png"
    /\ postfix' = "png"
    /\ inputImageType' = "IMAGE_PNG"
    /\ UNCHANGED <<mem, starved, png, jds, jcs, out>>

LoadRefused ==
    /\ call = "none"
    /\ postfix' \in Postfixes       \* no such file, for the two good names
    /\ call' = "refused"
    /\ UNCHANGED <<file, mem, starved, png, jds, jcs, out, inputImageType>>

-----------------------------------------------------------------------------
(* main: the format that it reads the drawn picture back with depends on   *)
(* the name of the input, the memory that it reads into on its form.       *)
BytesOfPixel == IF inputImageType = "IMAGE_JPG" THEN 3 ELSE 4

(* Mutant: rows are padded to eight bytes.                                 *)
DoublePackAlignment == 8

PackAlignment == 4      \* of glReadPixels: main never sets it

RoundUp(n, k) == ((n + k - 1) \div k) * k

(* The distance between two rows that glReadPixels writes, and the bytes   *)
(* that it writes in all.                                                  *)
PackStride == RoundUp(BytesOfPixel * mem.width, PackAlignment)
PackedBytes == (mem.height - 1) * PackStride + BytesOfPixel * mem.width

Stride == mem.width * mem.form

(* The Normal effect draws the rows of the texture, in their order.        *)
ReadBack ==
    /\ call = "loaded"
    /\ IF PackedBytes > BlockSize(mem.width, mem.height, mem.form)
       THEN Corrupt(mem, "readBack")
       ELSE /\ call' = "readBack"
            /\ mem' = IF PackStride = Stride THEN mem
                      ELSE [mem EXCEPT !.rows = [i \in DOMAIN @ |-> Blank]]
    /\ UNCHANGED <<file, starved, png, jds, jcs, out, postfix, inputImageType>>

-----------------------------------------------------------------------------
(* saveImage, of what was loaded or of what was read back.                 *)
SaveImage ==
    /\ call \in {"loaded", "readBack"}
    /\ \/ postfix' = "jpg" /\ call' = "toJpeg"
       \/ postfix' = "png" /\ call' = "toPng"
       \/ postfix' \in Postfixes /\ call' = "refused"
    /\ UNCHANGED <<file, mem, starved, png, jds, jcs, out, inputImageType>>

(* write_png: the colour type and depth that it gives to libpng.           *)
ColourType ==
    IF mem.form = 3 THEN "RGB" ELSE IF mem.form = 1 THEN "GRAY" ELSE "RGBA"
Depth == IF mem.form = 1 THEN 1 ELSE 8

(* What libpng reads at row_pointers[k], which stands mem->form bytes for  *)
(* every pixel after the one before.                                       *)
AsWritten(row) ==
    [row EXCEPT !.whole = @ /\ Depth = 8 /\ mem.form \in {3, 4}]

(* No picture without pixels comes here: neither reader returns one.       *)
WritePng ==
    /\ call = "toPng"
    /\ call' = "saved"
    /\ out' = [k \in 1 .. mem.height |-> AsWritten(RowAt(k))]
    /\ UNCHANGED <<file, mem, starved, png, jds, jcs, postfix, inputImageType>>

-----------------------------------------------------------------------------
Reading ==
    /\ \/ ReadPng /\ UNCHANGED <<jds, jcs, out>>
       \/ ReadJpeg /\ UNCHANGED png
    /\ UNCHANGED <<postfix, inputImageType>>

Writing ==
    \/ WriteJpeg /\ UNCHANGED <<png, postfix, inputImageType>>
    \/ WritePng

CodecNext ==
    \/ LoadJpeg \/ LoadPng \/ LoadRefused
    \/ Reading \/ ReadBack
    \/ SaveImage \/ Writing

(* The thread that called goes on with the call.                           *)
CodecSpec == CodecInit /\ [][CodecNext]_codecVars /\ WF_codecVars(Reading)

-----------------------------------------------------------------------------
IsJpeg == inputImageType = "IMAGE_JPG"

(* Where a PNG has its chunks of a name.                                   *)
Places(f, name) == {i \in DOMAIN f.chunks : f.chunks[i].name = name}

(* The data of the lines, in one stream over IDATs that follow one         *)
(* another: the chunks up to i hold given[i] lines.                        *)
DataOfLines(f, first, last) ==
    /\ Places(f, "IDAT") = first .. last
    /\ \A i \in first .. last : f.chunks[i].ends <=> i = last
    /\ \E given \in [first - 1 .. last -> 0 .. f.height] :
          /\ given[first - 1] = 0 /\ given[last] = f.height
          /\ \A i \in first .. last : given[i] = given[i - 1] + f.chunks[i].lines

(* A PNG that says what a PNG must say, in the order it must say it.       *)
IntactPng(f) ==
    /\ f.sig = "good"
    /\ 0 \notin {f.width, f.height}
    /\ \A i \in DOMAIN f.chunks :
          f.chunks[i].fault # "none" => f.chunks[i].name = "gAMA" /\ f.chunks[i].fault = "crc"
    /\ Places(f, "IHDR") = {1} /\ Places(f, "IEND") = {Len(f.chunks)}
    /\ \E first, last \in Places(f, "IDAT") :
          /\ DataOfLines(f, first, last)
          /\ \A p, q \in Places(f, "PLTE") : p = q /\ p < first
    /\ f.color = "palette" => Places(f, "PLTE") # {}

(* A JPEG with its markers in order and the data of every line.            *)
IntactJpeg(f) ==
    /\ 0 \notin {f.width, f.height}
    /\ f.items = <<"SOI", "TABLES", "SOF", "SOS">>
                   \o [i \in 1 .. f.height |-> "ROW"] \o <<"EOI">>

(* The data of the first n lines follow the start of the scan.             *)
LinesGiven(f, n) ==
    \E sos \in DOMAIN f.items :
       /\ f.items[sos] = "SOS"
       /\ \A i \in 1 .. sos - 1 : f.items[i] # "SOS"
       /\ \A i \in sos + 1 .. sos + n : i \in DOMAIN f.items /\ f.items[i] = "ROW"

Intact ==
    IF IsJpeg THEN IntactJpeg(file) ELSE IntactPng(file)

FormOfFile == IF IsJpeg THEN file.comps ELSE PngForm

SizeFits == Bytes(file.width, file.height, FormOfFile) < Word

(* The lines of the file as loadImage lays them out: a JPEG bottom up, a   *)
(* PNG top down.                                                           *)
Picture ==
    [i \in 1 .. file.height |->
        Line(IF IsJpeg THEN file.height + 1 - i ELSE i)]

LoadingIntact == call \in {"png", "jpeg"} /\ Intact /\ SizeFits

(* Every variable holds what its declaration says.                         *)
CodecTypeOK ==
    /\ file = NoFile <=> inputImageType = "none"
    /\ mem \in Bitmap
    /\ call \in Calls
    /\ starved \in BOOLEAN
    /\ png.step \in Steps
    /\ png.mode \subseteq {"IHDR", "PLTE", "IDAT"}
    /\ png.row_number \in 0 .. MaxHeight
    /\ call = "png" => png.at \in 1 .. Len(file.chunks) + 1
    /\ jds.global_state \in DStates
    /\ call = "jpeg" => jds.at \in 1 .. Len(file.items) + 1
    /\ jds.output_scanline \in 0 .. MaxHeight
    /\ jcs.global_state \in CStates
    /\ jcs.next_scanline \in 0 .. mem.height
    /\ postfix \in Postfixes
    /\ inputImageType \in {"none", "IMAGE_JPG", "IMAGE_PNG"}

(* What read_png returns is the whole picture, also when libpng failed on  *)
(* the way and read_png went on without looking (imgsdk.c:250): a damaged  *)
(* file is never half a picture.  What read_jpeg returns has every line    *)
(* that the file has, in its place, whatever is missing at the end.        *)
(* Sixteen-bit and gray-alpha files are what read_png does not handle.     *)
LoadedIsWhole ==
    call = "loaded" /\ SizeFits =>
        /\ ~IsJpeg /\ ~file.deep /\ PngForm # 0 => mem.rows = Picture
        /\ IsJpeg =>
              \A i \in 1 .. file.height :
                 /\ mem.rows[i].line = Picture[i].line
                 /\ mem.rows[i].whole <=> LinesGiven(file, Picture[i].line)
        /\ mem.width = file.width /\ mem.height = file.height

(* An intact file is read in one pass, as long as there is memory: no      *)
(* order of chunks that a PNG may have brings read_png back to its setjmp, *)
(* and no marker of a JPEG ends the process (imgsdk.c:248, 1624).          *)
IntactIsRead ==
    [][LoadingIntact =>
          \/ starved'
          \/ call' \in {call, "loaded"} /\ (png'.step = "sig" => png' = png)]_codecVars

(* An intact file is loaded, unless there is no memory: no order of chunks *)
(* that a PNG may have brings read_png back to its setjmp for good.  And a *)
(* JPEG, however damaged, keeps loadImage no longer than its data last.    *)
LoadEnds ==
    /\ LoadingIntact ~> (call = "loaded" \/ starved)
    /\ call = "jpeg" ~> call # "jpeg"

(* main reads the drawn picture back into the rows it was loaded to, when  *)
(* the form is what it takes from the name of its input and no row needs   *)
(* padding to four bytes (imgsdk.c:206).                                   *)
ReadBackInPlace ==
    call = "readBack" /\ SizeFits /\ mem.form = BytesOfPixel
        /\ (IF IsJpeg THEN IntactJpeg(file) ELSE ~file.deep)
        /\ (mem.form = 4 \/ mem.width % 4 = 0)
            => mem.rows = Picture

(* saveImage writes the rows of the memory, in their order and each of     *)
(* them whole: to PNG from three or four bytes for a pixel, to JPEG from   *)
(* one or three, whichever file they came from.                            *)
SavedIsMemory ==
    call = "saved" /\ mem.rows # << >>
        /\ mem.form \in (IF postfix = "jpg" THEN {1, 3} ELSE {3, 4})
            => out = mem.rows
=============================================================================
