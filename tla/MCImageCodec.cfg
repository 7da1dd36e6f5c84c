CONSTANTS
    Word = 40
    MaxHeight = 3
    MaxWidth = 4
    NoFile = NoFile
    PngFiles <- SomePng
    JpegFiles <- SomeJpeg
SPECIFICATION CodecSpec
CHECK_DEADLOCK FALSE
INVARIANTS
    CodecTypeOK
    LoadedIsWhole
    ReadBackInPlace
    SavedIsMemory
PROPERTIES
    IntactIsRead
    LoadEnds
