----------------------------- MODULE PngWriter -----------------------------
(***************************************************************************)
(* IMG_SavePNG and the compressor of miniz.h, as the library is built: the *)
(* PNG file is made in memory, and written to the destination at once.     *)
(* The surface is the caller's.  What of miniz only computes (the Huffman  *)
(* tables, the hash chains, the checksums) is not here.                    *)
(***************************************************************************)
EXTENDS Steps

\* A write to the buffer of the file, which is doubled when it is full.
OutputBufferPutter ==
  "file put" :> <<Either({"ok", "file grows"})>>
  @@ "file grows" :> <<Grow("file", "null"), Return>>

\* tdefl_init.  m_prev_return_status is TDEFL_STATUS_OKAY when no put has failed;
\* "dropped" are bits for which the block's buffer had no room.
InitCompressor ==
  "deflate init" :>
     <<Clear("put failed"), Clear("finish"), Clear("saved"), Clear("dropped"),
       Return>>

\* A block of fixed codes has always room: they take no more than 9 bits for the 9
\* of a literal, 31 for the 25 of a match, and the buffer is 13/10 of theirs.
CompressBlock ==
  "block codes" :> <<Either({"block fixed", "block dynamic"})>>
  @@ "block fixed" :> <<Return>>
  @@ "block dynamic" :> <<Either({"ok", "block overflow"})>>
  @@ "block overflow" :> <<Set("dropped"), Fail>>

\* A block that has grown is written as it was, and one that had no room is coded
\* again, from the same position.  The error of a put stays in the compressor.
FlushBlock ==
  "block" :>
     <<Clear("dropped"), Call("block codes", "block again"),
       Either({"block coded", "block raw"})>>
  @@ "block again" :> <<Either({"block raw", "block recoded"})>>
  @@ "block raw" :> <<Clear("dropped"), Goto("block coded")>>
  @@ "block recoded" :>
       <<Clear("dropped"), Try("block fixed"), Goto("block coded")>>
  @@ "block coded" :> <<Either({"ok", "block put"})>>
  @@ "block put" :> <<Call("file put", "block not put"), Return>>
  @@ "block not put" :> <<Set("put failed"), Fail>>

\* A match is saved until it is known that the next one is not longer.  When the
\* input is to be finished, nothing that is saved is left behind.
CompressNormal ==
  "deflate" :>
     <<Unless("saved", "deflate some"), Unless("finish", "deflate some"),
       Goto("deflate parse")>>
  @@ "deflate some" :> <<Either({"ok", "deflate parse"})>>
  @@ "deflate parse" :>
       <<Unless("saved", "deflate match"),
         Either({"deflate match", "deflate saved"})>>
  @@ "deflate match" :> <<Decide("saved"), Goto("deflate codes")>>
  @@ "deflate saved" :> <<Clear("saved"), Goto("deflate codes")>>
  @@ "deflate codes" :> <<Either({"deflate", "deflate full"})>>
  @@ "deflate full" :> <<Call("block", "null"), Goto("deflate")>>

\* tdefl_compress with tdefl_flush_output_buffer: after a failed put every call is
\* one with bad parameters.
Compress ==
  "tdefl_compress" :> <<Unless("put failed", "deflate input"), Fail>>
  @@ "deflate input" :>
       <<Call("deflate", "null"), Unless("finish", "ok"), Call("block", "null"),
         Return>>

\* tdefl_write_image_to_png_file_in_memory_ex.  The dummy header fits into the
\* first buffer; what becomes of the rows is only looked at in the end.
WriteImageToPng ==
  "png encode" :>
     <<Own("compressor", "null"), Own("file", "png no file"),
       Try("deflate init"), Goto("png encode rows")>>
  @@ "png no file" :> <<Free("compressor"), Fail>>
  @@ "png encode rows" :> <<Either({"png encode row", "png encode end"})>>
  @@ "png encode row" :>
       <<Try("tdefl_compress"), Try("tdefl_compress"), Goto("png encode rows")>>
  @@ "png encode end" :>
       <<Set("finish"), Call("tdefl_compress", "png not finished"),
         Call("file put", "png not finished"), Use("file"), Free("compressor"),
         Return>>
  @@ "png not finished" :> <<Free("compressor"), Free("file"), Fail>>

\* IMG_SavePNG_RW_miniz
SavePNGMiniz ==
  "save png" :> <<Either({"save png plain", "save png converted"})>>
  @@ "save png plain" :>
       <<Call("png encode", "png not encoded"), Goto("png encoded")>>
  @@ "save png converted" :>
       <<Make("cvt", "png not encoded"), Call("png encode", "png not encoded"),
         Free("cvt"), Goto("png encoded")>>
  @@ "png not encoded" :> <<Free("cvt"), Say, Goto("png not saved")>>
  @@ "png encoded" :>
       <<Write("png not written"), Free("file"), Unless("freedst", "ok"),
         Free("dst"), Return>>
  @@ "png not written" :> <<Free("file"), Goto("png not saved")>>
  @@ "png not saved" :> <<Unless("freedst", "null"), Free("dst"), Fail>>

SavePNG ==
  "IMG_SavePNG" :>
     <<As("PNG saving"), Make("dst", "null"), Set("freedst"), Goto("save png")>>

\* IMG_SavePNG_RW, with the destination of a caller who may have none.
SavePNGRW ==
  "IMG_SavePNG_RW" :>
     <<As("PNG saving"), Decide("freedst"), Make("dst", "err"),
       Goto("save png")>>

PngWriterCode ==
  OutputBufferPutter @@ InitCompressor @@ CompressBlock @@ FlushBlock
  @@ CompressNormal @@ Compress @@ WriteImageToPng @@ SavePNGMiniz @@ SavePNG
  @@ SavePNGRW
=============================================================================
