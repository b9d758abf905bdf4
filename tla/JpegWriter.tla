----------------------------- MODULE JpegWriter -----------------------------
(***************************************************************************)
(* IMG_SaveJPG and the encoder of tiny_jpeg.h.  What is written goes first *)
(* into a buffer of the encoder, and its bits into a buffer before that.   *)
(* The surface is the caller's.  The transform and the Huffman tables,     *)
(* which only compute, are not here.                                       *)
(***************************************************************************)
EXTENDS Steps

\* IMG_SaveJPG_RW_tinyjpeg_callback
SaveCallback == "jpg callback" :> <<Put, Return>>

\* tjei_write, which calls itself with what had no room in the buffer.
BufferedWrite ==
  "jpg write" :> <<Either({"jpg buffer", "jpg flush"})>>
  @@ "jpg buffer" :> <<Set("buffered"), Return>>
  @@ "jpg flush" :>
       <<Try("jpg callback"), Clear("buffered"),
         Either({"ok", "jpg buffer", "jpg flush"})>>

\* tjei_write_bits: whole bytes are written, one of 0xff with a zero after it.
WriteBits ==
  "jpg bits" :> <<Either({"jpg bits wait", "jpg byte"})>>
  @@ "jpg bits wait" :> <<Set("bits"), Return>>
  @@ "jpg byte" :>
       <<Try("jpg write"), Either({"jpg zero", "jpg byte", "jpg bits left"})>>
  @@ "jpg zero" :>
       <<Try("jpg write"), Either({"jpg byte", "jpg bits left"})>>
  @@ "jpg bits left" :> <<Decide("bits"), Return>>

\* The marker, the length, the id and the matrix.
WriteDQT ==
  "jpg write DQT" :>
     <<Try("jpg write"), Try("jpg write"), Try("jpg write"), Try("jpg write"),
       Return>>

\* The marker, the length, the class, the lengths of the codes and their values.
WriteDHT ==
  "jpg write DHT" :>
     <<Try("jpg write"), Try("jpg write"), Try("jpg write"), Try("jpg write"),
       Try("jpg write"), Return>>

\* tjei_encode_and_write_MCU: a difference of zero has no bits of its own; sixteen
\* zeros in a row have a code; the zeros at the end are one.
EncodeMCU ==
  "jpg MCU" :> <<Either({"jpg DC", "jpg DC code"})>>
  @@ "jpg DC" :> <<Try("jpg bits"), Goto("jpg DC code")>>
  @@ "jpg DC code" :> <<Try("jpg bits"), Either({"jpg AC", "jpg EOB"})>>
  @@ "jpg AC" :> <<Either({"jpg zeros", "jpg coefficient"})>>
  @@ "jpg zeros" :> <<Try("jpg bits"), Goto("jpg AC")>>
  @@ "jpg coefficient" :>
       <<Try("jpg bits"), Try("jpg bits"), Either({"jpg AC", "jpg EOB", "ok"})>>
  @@ "jpg EOB" :> <<Try("jpg bits"), Return>>

\* tjei_encode_main up to the scan: the JFIF header and the comment, two tables of
\* quantization, the frame, four Huffman tables, and the header of the scan.
EncodeHeaders ==
  "jpg encode main" :>
     <<Check("null"), Try("jpg write"), Try("jpg write"),
       Try("jpg write DQT"), Try("jpg write DQT"), Try("jpg write"),
       Try("jpg write DHT"), Try("jpg write DHT"), Try("jpg write DHT"),
       Try("jpg write DHT"), Try("jpg write"), Clear("bits"),
       Goto("jpg blocks")>>

\* The three components of every block; then the byte that is begun is filled up,
\* and the buffer is written out.
EncodeScan ==
  "jpg blocks" :> <<Either({"jpg block", "jpg last bits"})>>
  @@ "jpg block" :>
       <<Try("jpg MCU"), Try("jpg MCU"), Try("jpg MCU"), Goto("jpg blocks")>>
  @@ "jpg last bits" :>
       <<Unless("bits", "jpg EOI"), Clear("bits"), Try("jpg write"),
         Either({"jpg last zero", "jpg EOI"})>>
  @@ "jpg last zero" :> <<Try("jpg write"), Goto("jpg EOI")>>
  @@ "jpg EOI" :>
       <<Try("jpg write"), Unless("buffered", "ok"), Try("jpg callback"),
         Clear("buffered"), Return>>

\* tje_encode_with_func, with a quality IMG_SaveJPG_RW has put between 1 and 3.
EncodeWithFunc ==
  "jpg encode" :>
     <<Clear("buffered"), Call("jpg encode main", "null"), Return>>

\* IMG_SaveJPG_RW_tinyjpeg.  A destination to be freed is closed even when there
\* is none.
SaveJPGTinyjpeg ==
  "save jpg" :> <<Either({"save jpg plain", "save jpg converted"})>>
  @@ "save jpg converted" :>
       <<Make("jpeg_surface", "jpg not saved"), Goto("save jpg plain")>>
  @@ "save jpg plain" :>
       <<Call("jpg encode", "jpg not encoded"), Free("jpeg_surface"),
         Unless("freedst", "ok"), Free("dst"), Return>>
  @@ "jpg not encoded" :> <<Free("jpeg_surface"), Say, Goto("jpg not saved")>>
  @@ "jpg no dst" :> <<Say, Goto("jpg not saved")>>
  @@ "jpg not saved" :>
       <<Unless("freedst", "null"), Use("dst"), Free("dst"), Fail>>

SaveJPG ==
  "IMG_SaveJPG" :>
     <<As("JPG saving"), Make("dst", "null"), Set("freedst"), Goto("save jpg")>>

\* IMG_SaveJPG_RW, with the destination of a caller who may have none.
SaveJPGRW ==
  "IMG_SaveJPG_RW" :>
     <<As("JPG saving"), Decide("freedst"), Make("dst", "jpg no dst"),
       Goto("save jpg")>>

JpegWriterCode ==
  SaveCallback @@ BufferedWrite @@ WriteBits @@ WriteDQT @@ WriteDHT
  @@ EncodeMCU @@ EncodeHeaders @@ EncodeScan @@ EncodeWithFunc
  @@ SaveJPGTinyjpeg @@ SaveJPG @@ SaveJPGRW
=============================================================================
