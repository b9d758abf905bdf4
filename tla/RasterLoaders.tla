--------------------------- MODULE RasterLoaders ---------------------------
(***************************************************************************)
(* IMG_lbm.c, IMG_pnm.c, IMG_xv.c and IMG_qoi.c with qoi.h, and            *)
(* SDL_LoadFile_RW as QOI and SVG files are read with it.                  *)
(***************************************************************************)
EXTENDS Steps

IsLBM == Detector("LBM")

\* Chunks up to the body.
LbmChunks ==
  "load LBM" :>
     <<Read("lbm fails"), Check("lbm fails"), Read("lbm fails"),
       Check("lbm fails"), Goto("lbm chunk")>>
  @@ "lbm chunk" :>
       <<Read("lbm fails"),
         Either({"lbm known chunk", "lbm padding", "lbm body"})>>
  @@ "lbm known chunk" :>
       <<Check("lbm fails"), Read("lbm fails"),
         Either({"lbm chunk", "lbm padding"})>>
  @@ "lbm padding" :> <<Skip, Goto("lbm chunk")>>

\* The surface has 24 bits or 8.  The colours of a picture that is not HAM go to
\* the palette of the surface, and one of 24 bits has none.
LbmSurface ==
  "lbm body" :>
     <<Own("MiniBuf", "lbm fails"), Decide("24 bits"),
       Make("surface", "lbm done"), Either({"lbm colours", "lbm rows"})>>
  @@ "lbm colours" :>
       <<Unless("24 bits", "lbm rows"), Use("palette"), Goto("lbm rows")>>
  @@ "lbm rows" :> <<Either({"lbm plane", "lbm finished"})>>

\* The planes of each row, which are put together.
LbmPlanes ==
  "lbm plane" :>
     <<Read("lbm fails"), Check("lbm fails"),
       Either({"lbm plane", "lbm finished"})>>

LoadLBM ==
  LbmChunks @@ LbmSurface @@ LbmPlanes
  @@ "lbm finished" :> <<Free("MiniBuf"), Return>>
  @@ "lbm done" :> <<Free("MiniBuf"), Fail>>
  @@ "lbm fails" :> <<Free("MiniBuf"), Rewind, Free("surface"), Say, Fail>>
-----------------------------------------------------------------------------
IsPNM == Detector("PNM")

\* Mutation: a number the source does not have is taken as zero.
ReadNumberZero ==
  "pnm number" :> <<Take, Either({"pnm number", "pnm digits"})>>
  @@ "pnm digits" :> <<Check("null"), Take, Either({"pnm digits", "ok"})>>

\* White space and comments, and digits up to some other byte.
ReadNumber ==
  "pnm number" :> <<Read("null"), Either({"pnm number", "pnm digits"})>>
  @@ "pnm digits" :>
       <<Check("null"), Read("null"), Either({"pnm digits", "ok"})>>

\* The magic number is read again, and not looked at until there is a size.
LoadPNM ==
  "load PNM" :>
     <<Take, Call("pnm number", "pnm fails"), Call("pnm number", "pnm fails"),
       Check("pnm fails"), Either({"pnm maximum", "pnm surface"})>>
  @@ "pnm maximum" :>
       <<Call("pnm number", "pnm fails"), Check("pnm fails"),
         Goto("pnm surface")>>
  @@ "pnm surface" :>
       <<Make("surface", "pnm fails"), Either({"pnm bitmap", "pnm row"})>>
  @@ "pnm bitmap" :> <<Own("buf", "pnm fails"), Goto("pnm row")>>
  @@ "pnm row" :> <<Either({"pnm bytes", "pnm numbers"})>>
  @@ "pnm bytes" :> <<Read("pnm fails"), Either({"pnm row", "pnm done"})>>
  @@ "pnm numbers" :>
       <<Call("pnm number", "pnm fails"), Either({"pnm row", "pnm done"})>>
  @@ "pnm done" :> <<Free("buf"), Return>>
  @@ "pnm fails" :> <<Free("buf"), Rewind, Free("surface"), Say, Fail>>
-----------------------------------------------------------------------------
GetLine == "xv line" :> <<Read("null"), Check("null"),
                          Either({"xv line", "ok"})>>

\* An image that is built in has no data.
GetHeader ==
  "xv header" :> <<Call("xv line", "null"), Check("null"), Goto("xv comment")>>
  @@ "xv comment" :>
       <<Call("xv line", "null"), Check("null"),
         Either({"xv comment", "xv size"})>>
  @@ "xv size" :> <<Call("xv line", "null"), Check("null"), Return>>

IsXV ==
  "isXV" :> <<Call("xv header", "not XV"), Rewind, Return>>
  @@ "not XV" :> <<Rewind, Fail>>

LoadXV ==
  "load XV" :>
     <<Call("xv header", "xv fails"), Make("surface", "xv fails"),
       Either({"xv row", "ok"})>>
  @@ "xv row" :> <<Read("xv fails"), Either({"xv row", "ok"})>>
  @@ "xv fails" :> <<Rewind, Free("surface"), Say, Fail>>
-----------------------------------------------------------------------------
\* SDL_LoadFile_RW reads up to the end, wherever it is.
SDLLoadFile ==
  "SDL file" :> <<Make("data", "null"), Goto("SDL file bytes")>>
  @@ "SDL file bytes" :>
       <<Poll("ok"), Either({"SDL file bytes", "SDL file grows"})>>
  @@ "SDL file grows" :>
       <<Grow("data", "SDL file fails"), Goto("SDL file bytes")>>
  @@ "SDL file fails" :> <<Say, Free("data"), Fail>>

IsQOI == Detector("QOI")

\* qoi_decode: chunks that are not there leave the colour as it is.
QoiDecode ==
  "qoi decode" :>
     <<Check("null"), Own("pixel_data", "null"), Either({"ok", "qoi chunk"})>>
  @@ "qoi chunk" :> <<Lack, Return>>

LoadQOI ==
  "load QOI" :>
     <<Call("SDL file", "null"), Check("qoi fails"),
       Call("qoi decode", "qoi fails"), Free("data"),
       Make("surface", "qoi refused"), Give("pixel_data", "surface"), Return>>
  @@ "qoi fails" :> <<Free("data"), Say, Fail>>
  @@ "qoi refused" :> <<Free("pixel_data"), Say, Fail>>

RasterCode ==
  IsLBM @@ LoadLBM @@ IsPNM @@ ReadNumber @@ LoadPNM @@ GetLine @@ GetHeader
  @@ IsXV @@ LoadXV @@ SDLLoadFile @@ IsQOI @@ QoiDecode @@ LoadQOI
=============================================================================
