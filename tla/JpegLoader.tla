----------------------------- MODULE JpegLoader -----------------------------
(***************************************************************************)
(* The JPEG decoder of stb_image.h, and IMG_isJPG.  What it reads beyond   *)
(* the end of the source is zeros, so a truncated file is a picture with a *)
(* grey rest.                                                              *)
(***************************************************************************)
EXTENDS Steps

\* IMG_isJPG.  The segments before the scan are skipped: a short skip is no
\* JPEG either.
IsJPG ==
  "isJPG" :> <<Read("not JPG"), Check("not JPG"), Goto("isJPG marker")>>
  @@ "isJPG marker" :>
       <<Read("not JPG"), Check("not JPG"),
         Either({"isJPG padding", "isJPG yes", "isJPG marker",
                 "isJPG segment"})>>
  @@ "isJPG padding" :> <<Seek, Goto("isJPG marker")>>
  @@ "isJPG segment" :>
       <<Read("not JPG"), Skip, Check("not JPG"),
         Either({"isJPG marker", "isJPG yes"})>>
  @@ "isJPG yes" :> <<Rewind, Return>>
  @@ Detector("JPG")
-----------------------------------------------------------------------------
(* Entropy coding *)

BuildTree == "jpeg tree" :> <<Check("err"), Check("err"), Return>>

\* stbi__grow_buffer_unsafe: no more is read after a marker.
GrowBuffer ==
  "jpeg bits" :> <<Either({"jpeg more bits", "ok"})>>
  @@ "jpeg more bits" :> <<Take, Either({"jpeg more bits", "ok"})>>

HuffDecode ==
  "jpeg symbol" :> <<Try("jpeg bits"), Check("null"), Return>>

DecodeBlock ==
  "jpeg block" :>
     <<Call("jpeg symbol", "err"), Check("err"), Goto("jpeg block AC")>>
  @@ "jpeg block AC" :>
       <<Try("jpeg bits"), Either({"jpeg fast AC", "jpeg slow AC"})>>
  @@ "jpeg fast AC" :> <<Check("err"), Either({"jpeg block AC", "ok"})>>
  @@ "jpeg slow AC" :>
       <<Call("jpeg symbol", "err"), Either({"jpeg block AC", "ok"})>>

DecodeBlockProgDC ==
  "jpeg DC" :>
     <<Check("err"), Try("jpeg bits"), Either({"jpeg first DC", "ok"})>>
  @@ "jpeg first DC" :> <<Call("jpeg symbol", "err"), Check("err"), Return>>

\* The first scan of the coefficients, and their refinement.
DecodeBlockProgAC ==
  "jpeg AC" :>
     <<Check("err"),
       Either({"ok", "jpeg first AC", "jpeg refine run", "jpeg refine AC"})>>
  @@ "jpeg first AC" :>
       <<Try("jpeg bits"), Either({"jpeg first fast", "jpeg first slow"})>>
  @@ "jpeg first fast" :> <<Check("err"), Either({"jpeg first AC", "ok"})>>
  @@ "jpeg first slow" :>
       <<Call("jpeg symbol", "err"), Either({"jpeg first AC", "jpeg run"})>>
  @@ "jpeg run" :> <<Either({"ok", "jpeg refine run"})>>
  @@ "jpeg refine run" :> <<Try("jpeg bits"), Return>>
  @@ "jpeg refine AC" :>
       <<Call("jpeg symbol", "err"), Check("err"), Try("jpeg bits"),
         Either({"jpeg refine AC", "ok"})>>

\* Block after block.  At the end of a restart interval that no restart marker
\* follows the rest is left as it is.
EntropyCodedData ==
  "jpeg scan" :>
     <<Either({"jpeg baseline", "jpeg scan DC", "jpeg scan AC"})>>
  @@ "jpeg baseline" :> <<Call("jpeg block", "null"), Goto("jpeg restart")>>
  @@ "jpeg scan DC" :> <<Call("jpeg DC", "null"), Goto("jpeg restart")>>
  @@ "jpeg scan AC" :> <<Call("jpeg AC", "null"), Goto("jpeg restart")>>
  @@ "jpeg restart" :> <<Either({"jpeg scan", "jpeg restart due", "ok"})>>
  @@ "jpeg restart due" :> <<Try("jpeg bits"), Either({"jpeg scan", "ok"})>>
-----------------------------------------------------------------------------
(* Markers *)

\* stbi__get_marker: the one the entropy decoder met, or the next.
GetMarker ==
  "jpeg marker" :> <<Either({"ok", "jpeg next marker"})>>
  @@ "jpeg next marker" :> <<Take, Either({"jpeg next marker", "ok"})>>

\* A table whose length does not come out even is refused without a word.
ProcessMarker ==
  "jpeg segment" :>
     <<Check("err"),
       Either({"jpeg DRI", "jpeg DQT", "jpeg DHT", "jpeg APP"})>>
  @@ "jpeg DRI" :> <<Take, Check("err"), Take, Return>>
  @@ "jpeg DQT" :> <<Take, Either({"jpeg DQT table", "jpeg DQT end"})>>
  @@ "jpeg DQT table" :>
       <<Take, Check("err"), Take,
         Either({"jpeg DQT table", "jpeg DQT end"})>>
  @@ "jpeg DQT end" :> <<Check("null"), Return>>
  @@ "jpeg DHT" :> <<Take, Either({"jpeg DHT table", "jpeg DHT end"})>>
  @@ "jpeg DHT table" :>
       <<Take, Check("err"), Call("jpeg tree", "null"), Take,
         Either({"jpeg DHT table", "jpeg DHT end"})>>
  @@ "jpeg DHT end" :> <<Check("null"), Return>>
  @@ "jpeg APP" :> <<Take, Check("err"), Take, Skip, Return>>

\* Neither does a scan of an unknown component say so.
ScanHeader ==
  "jpeg scan header" :> <<Take, Check("err"), Goto("jpeg scan component")>>
  @@ "jpeg scan component" :>
       <<Take, Check("null"), Goto("jpeg scan tables")>>
  @@ "jpeg scan tables" :>
       <<Check("err"), Either({"jpeg scan component", "jpeg scan spectrum"})>>
  @@ "jpeg scan spectrum" :> <<Take, Check("err"), Return>>

\* Mutation: the coefficients of a progressive image are not freed.
FreeRawData ==
  "jpeg free" :> <<Drop("raw_data"),
                   Drop("linebuf"), Return>>

\* stbi__free_jpeg_components.  The components stand for one.
FreeComponents ==
  "jpeg free" :>
     <<Drop("raw_data"), Drop("raw_coeff"), Drop("linebuf"), Return>>

FrameHeader ==
  "jpeg frame" :>
     <<Take, Check("err"), Forget("linebuf"), Check("err"), Take,
       Check("err"), Forget("raw_coeff"),
       Own("raw_data", "jpeg frame refused"), Either({"ok", "jpeg coeff"})>>
  @@ "jpeg coeff" :> <<Own("raw_coeff", "jpeg frame refused"), Return>>
  @@ "jpeg frame refused" :> <<Say, Try("jpeg free"), Fail>>

\* Up to the start of image; the header goes on to the start of frame.
DecodeHeader ==
  "jpeg start" :> <<Try("jpeg marker"), Check("err"), Return>>
  @@ "jpeg header" :>
       <<Call("jpeg start", "null"), Try("jpeg marker"),
         Either({"jpeg header segment", "jpeg header frame"})>>
  @@ "jpeg header segment" :>
       <<Call("jpeg segment", "null"), Try("jpeg marker"),
         Either({"jpeg header segment", "jpeg header padding",
                 "jpeg header frame"})>>
  @@ "jpeg header padding" :>
       <<Call("stb eof", "jpeg header end"), Goto("jpeg header resumes")>>
  @@ "jpeg header end" :> <<Either({"err", "jpeg header resumes"})>>
  @@ "jpeg header resumes" :>
       <<Try("jpeg marker"),
         Either({"jpeg header segment", "jpeg header padding",
                 "jpeg header frame"})>>
  @@ "jpeg header frame" :> <<Call("jpeg frame", "null"), Return>>

DecodeImage ==
  "jpeg image" :>
     <<Forget("raw_data"), Forget("raw_coeff"), Call("jpeg header", "null"),
       Goto("jpeg image marker")>>
  @@ "jpeg image marker" :>
       <<Try("jpeg marker"),
         Either({"ok", "jpeg image scan", "jpeg DNL", "jpeg image segment"})>>
  @@ "jpeg image scan" :>
       <<Call("jpeg scan header", "null"), Call("jpeg scan", "null"),
         Either({"jpeg image marker", "jpeg image zeros"})>>
  @@ "jpeg image zeros" :>
       <<Call("stb eof", "jpeg image end"), Take,
         Either({"jpeg image zeros", "jpeg image found"})>>
  @@ "jpeg image found" :> <<Take, Goto("jpeg image marker")>>
  @@ "jpeg image end" :>
       <<Either({"jpeg image marker", "jpeg image zeros"})>>
  @@ "jpeg DNL" :> <<Take, Check("err"), Goto("jpeg image marker")>>
  @@ "jpeg image segment" :>
       <<Call("jpeg segment", "null"), Goto("jpeg image marker")>>

\* load_jpeg_image: that there are no components is excluded by the frame.
LoadJpegImage ==
  "jpeg picture" :>
     <<Call("jpeg image", "jpeg failed"), Own("linebuf", "jpeg refused"),
       Own("output", "jpeg refused"), Try("jpeg free"), Return>>
  @@ "jpeg failed" :> <<Try("jpeg free"), Fail>>
  @@ "jpeg refused" :> <<Try("jpeg free"), Say, Fail>>

JpegLoad ==
  "jpeg load" :>
     <<Own("jpeg", "err"), Call("jpeg picture", "jpeg load failed"),
       Free("jpeg"), Move("output", "pixels"), Return>>
  @@ "jpeg load failed" :> <<Free("jpeg"), Fail>>

\* stbi__jpeg_test
JpegTest ==
  "jpeg test" :>
     <<Own("jpeg", "err"), Call("jpeg start", "jpeg test failed"),
       Free("jpeg"), Return>>
  @@ "jpeg test failed" :> <<Free("jpeg"), Fail>>

JpegCode ==
  IsJPG @@ BuildTree @@ GrowBuffer @@ HuffDecode @@ DecodeBlock
  @@ DecodeBlockProgDC @@ DecodeBlockProgAC @@ EntropyCodedData @@ GetMarker
  @@ ProcessMarker @@ ScanHeader @@ FreeComponents @@ FrameHeader
  @@ DecodeHeader @@ DecodeImage @@ LoadJpegImage @@ JpegLoad @@ JpegTest
=============================================================================
