----------------------------- MODULE PngLoader -----------------------------
(***************************************************************************)
(* The PNG decoder of stb_image.h, its zlib, and IMG_isPNG.  The server's  *)
(* icons are PNG files.                                                    *)
(***************************************************************************)
EXTENDS Steps

\* IMG_isPNG
IsPNG == Detector("PNG")
-----------------------------------------------------------------------------
(* zlib: from the buffer z->idata into the growing buffer "expanded" *)

BuildHuffman ==
  "zbuild_huffman" :> <<Check("err"), Check("err"), Return>>

ZExpand ==
  "zexpand" :> <<Check("err"), Check("err"), Grow("expanded", "err"), Return>>

\* Symbols up to the end of the block, and copies of what is there already.
HuffmanBlock ==
  "huffman block" :>
     <<Check("err"),
       Either({"huffman literal", "huffman copy", "ok"})>>
  @@ "huffman literal" :>
       <<Either({"huffman block", "huffman full"})>>
  @@ "huffman copy" :>
       <<Check("err"), Check("err"),
         Either({"huffman block", "huffman full"})>>
  @@ "huffman full" :> <<Call("zexpand", "null"), Goto("huffman block")>>

ComputeHuffmanCodes ==
  "huffman codes" :>
     <<Call("zbuild_huffman", "null"), Goto("code lengths")>>
  @@ "code lengths" :> <<Check("err"), Either({"code lengths", "code trees"})>>
  @@ "code trees" :>
       <<Check("err"), Call("zbuild_huffman", "null"),
         Call("zbuild_huffman", "null"), Return>>

UncompressedBlock ==
  "uncompressed block" :>
     <<Check("err"), Check("err"), Either({"ok", "uncompressed full"})>>
  @@ "uncompressed full" :> <<Call("zexpand", "null"), Return>>

ZlibHeader == "zlib header" :> <<Check("err"), Return>>

\* An Apple PNG has no header; a block of the reserved type 3 is refused, and
\* nothing is said about it.
ParseZlib ==
  "zlib" :> <<Either({"zlib block", "zlib checked"})>>
  @@ "zlib checked" :> <<Call("zlib header", "null"), Goto("zlib block")>>
  @@ "zlib block" :>
       <<Check("null"), Either({"zlib stored", "zlib fixed", "zlib dynamic"})>>
  @@ "zlib stored" :> <<Call("uncompressed block", "null"), Goto("zlib next")>>
  @@ "zlib fixed" :>
       <<Call("zbuild_huffman", "null"), Call("zbuild_huffman", "null"),
         Goto("zlib coded")>>
  @@ "zlib dynamic" :> <<Call("huffman codes", "null"), Goto("zlib coded")>>
  @@ "zlib coded" :> <<Call("huffman block", "null"), Goto("zlib next")>>
  @@ "zlib next" :> <<Either({"zlib block", "ok"})>>

\* stbi_zlib_decode_malloc_guesssize_headerflag
DecodeZlib ==
  "decode zlib" :>
     <<Own("expanded", "null"), Call("zlib", "zlib failed"), Return>>
  @@ "zlib failed" :> <<Drop("expanded"), Fail>>
-----------------------------------------------------------------------------
(* The PNG file *)

\* Bytes the source does not have read as zeros.
CheckPngHeader == "png signature" :> <<Take, Check("err"), Return>>

UnfilterRow == "png rows" :> <<Check("err"), Either({"png rows", "ok"})>>

\* Samples of fewer or more than 8 bits are unpacked in place when all rows are
\* there.
CreateRaw ==
  "png raw" :> <<Own("out", "err"), Check("err"), Goto("png rows")>>
  @@ UnfilterRow

\* Of an interlaced image each pass makes a z->out of its own.
CreateImage ==
  "png image" :> <<Either({"png plain", "png interlaced"})>>
  @@ "png plain" :> <<Call("png raw", "null"), Return>>
  @@ "png interlaced" :> <<Own("final", "err"), Goto("png pass")>>
  @@ "png pass" :>
       <<Call("png raw", "png pass failed"), Free("out"),
         Either({"png pass", "png passed"})>>
  @@ "png pass failed" :> <<Free("final"), Fail>>
  @@ "png passed" :> <<Move("final", "out"), Return>>

ExpandPalette ==
  "png palette" :>
     <<Own("temp_out", "err"), Free("out"), Move("temp_out", "out"), Return>>

\* Mutation: z->idata keeps what was freed.
IENDChunkFreed ==
  "png IEND" :>
     <<Check("err"), Expect("idata", "err"), Call("decode zlib", "null"),
       Free("idata"), Call("png image", "null"),
       Either({"png end", "png paletted"})>>
  @@ "png paletted" :> <<Call("png palette", "null"), Goto("png end")>>
  @@ "png end" :> <<Drop("expanded"), Skip, Return>>

\* The data is inflated and unfiltered, and z->idata is NULL from then on.
IENDChunk ==
  "png IEND" :>
     <<Check("err"), Expect("idata", "err"), Call("decode zlib", "null"),
       Drop("idata"), Call("png image", "null"),
       Either({"png end", "png paletted"})>>
  @@ "png paletted" :> <<Call("png palette", "null"), Goto("png end")>>
  @@ "png end" :> <<Drop("expanded"), Skip, Return>>

\* A chunk header the source does not have is one of zeros, which is unknown
\* and critical.
ParsePngFile ==
  "png file" :>
     <<Forget("expanded"), Forget("idata"), Forget("out"),
       Call("png signature", "null"), Goto("png chunk")>>
  @@ "png chunk" :>
       <<Read("err"),
         Either({"png CgBI", "png IHDR", "png PLTE", "png IDAT", "png IEND",
                 "png other"})>>
  @@ "png CgBI" :> <<Skip, Goto("png crc")>>
  @@ "png IHDR" :> <<Check("err"), Take, Check("err"), Goto("png crc")>>
  \* PLTE, and tRNS
  @@ "png PLTE" :> <<Check("err"), Take, Goto("png crc")>>
  @@ "png IDAT" :>
       <<Check("err"), Goto("png IDAT size")>>
  @@ "png IDAT size" :>
       <<Check("null"), Either({"png IDAT data", "png IDAT grows"})>>
  @@ "png IDAT grows" :> <<Grow("idata", "err"), Goto("png IDAT data")>>
  @@ "png IDAT data" :> <<Read("err"), Goto("png crc")>>
  @@ "png other" :> <<Check("err"), Skip, Goto("png crc")>>
  @@ "png crc" :> <<Skip, Goto("png chunk")>>
  @@ IENDChunk

\* stbi__do_png and stbi__png_load
DoPng ==
  "png load" :>
     <<Call("png file", "png failed"), Move("out", "pixels"),
       Free("expanded"), Free("idata"), Return>>
  @@ "png failed" :> <<Free("out"), Free("expanded"), Free("idata"), Fail>>

\* The buffer is set back, not the source.
PngTest == "png test" :> <<Call("png signature", "null"), Return>>

PngCode ==
  IsPNG @@ BuildHuffman @@ ZExpand @@ HuffmanBlock @@ ComputeHuffmanCodes
  @@ UncompressedBlock @@ ZlibHeader @@ ParseZlib @@ DecodeZlib
  @@ CheckPngHeader @@ CreateRaw @@ CreateImage @@ ExpandPalette
  @@ ParsePngFile @@ DoPng @@ PngTest
=============================================================================
