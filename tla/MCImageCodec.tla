---------------------------- MODULE MCImageCodec ----------------------------
(* Files for ImageCodec: whole ones in every colour, and damaged ones with *)
(* at most a few things wrong in every place where a reader looks.         *)
EXTENDS ImageCodec, SequencesExt

Chunk(name, fault) == [name |-> name, fault |-> fault, lines |-> 0, ends |-> FALSE]
Idat(lines, ends, fault) ==
    [name |-> "IDAT", fault |-> fault, lines |-> lines, ends |-> ends]

Maybe(chunks) == {<< >>} \cup {<<c>> : c \in chunks}
Chunks(name, faults) == {Chunk(name, x) : x \in faults}

(* The data of two lines.                                                  *)
GoodData == {<<Idat(2, TRUE, "none")>>,
             <<Idat(1, FALSE, "none"), Idat(1, TRUE, "none")>>,
             <<Idat(2, FALSE, "none"), Idat(0, TRUE, "none")>>}
BadData == {<< >>,
            <<Idat(1, TRUE, "none")>>,
            <<Idat(1, FALSE, "none")>>,
            <<Idat(2, FALSE, "none")>>,
            <<Idat(1, FALSE, "zlib"), Idat(1, TRUE, "none")>>,
            <<Idat(2, FALSE, "zlib")>>,
            <<Idat(2, TRUE, "crc")>>,
            <<Idat(1, FALSE, "crc"), Idat(1, TRUE, "none")>>,
            <<Idat(1, FALSE, "none"), Chunk("gAMA", "none"), Idat(1, TRUE, "none")>>,
            <<Idat(1, FALSE, "cut")>>}

Heads == Maybe(Chunks("IHDR", {"none", "crc", "method", "length"}))
Tails == {<< >>, <<Chunk("gAMA", "crc")>>, <<Chunk("PLTE", "none")>>,
          <<Chunk("IHDR", "none")>>, <<Idat(0, FALSE, "none")>>}
Ends == Maybe(Chunks("IEND", {"none", "crc"}))

ChunkLists ==
    {h \o a \o p \o d \o t \o e :
        h \in Heads, a \in Maybe(Chunks("gAMA", {"crc"})),
        p \in Maybe(Chunks("PLTE", {"none", "crc"})),
        d \in GoodData \cup BadData, t \in Tails, e \in Ends}

Png(sig, color, deep, w, h, chunks) ==
    [sig |-> sig, color |-> color, deep |-> deep, width |-> w, height |-> h,
     chunks |-> chunks]

Whole(color) ==
    {<<Chunk("IHDR", "none")>> \o p \o d \o <<Chunk("IEND", "none")>> :
        p \in {q \in Maybe(Chunks("PLTE", {"none"})) : q = << >> <=> color # "palette"},
        d \in GoodData}

SomePng ==
    {Png("good", c, FALSE, 3, 2, l) : c \in {"rgb", "palette"}, l \in ChunkLists}
    \cup {Png(s, "rgb", FALSE, 4, 2, l) : s \in {"bad", "short"}, l \in Whole("rgb") \cup {<< >>}}
    \cup UNION {{Png("good", c, b, w, 2, l) : l \in Whole(c)} :
                   c \in {"gray", "rgb", "rgba", "graya", "palette"},
                   b \in BOOLEAN, w \in {0, 3, 4}}
    \cup {Png("good", "rgba", FALSE, 4, 3,
              <<Chunk("IHDR", "none"), Idat(3, TRUE, "none"), Chunk("IEND", "none")>>)}

Items(h) ==
    <<"SOI", "TABLES", "SOF", "SOS">> \o [i \in 1 .. h |-> "ROW"] \o <<"EOI">>

ItemLists(h) ==
    LET l == Items(h) IN
    {SubSeq(l, 1, n) : n \in 0 .. Len(l)}
    \cup {RemoveAt(l, n) : n \in DOMAIN l}
    \cup {InsertAt(l, n, x) : n \in DOMAIN l, x \in Markers \cup {"JUNK"}}

SomeJpeg ==
    {[width |-> w, height |-> h, comps |-> c, items |-> l] :
        w \in {3, 4}, h \in {0, 2, 3}, c \in 1 .. 4, l \in ItemLists(2) \cup ItemLists(3)}
=============================================================================
