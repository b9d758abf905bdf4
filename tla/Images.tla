------------------------------- MODULE Images -------------------------------
(***************************************************************************)
(* IMG.c: the functions that look for the format of a source and load it,  *)
(* and IMG_stb.c, which hands PNG and JPEG files to stb_image.  ImageCode  *)
(* is the code of the library as the server's build configures it: AVIF,   *)
(* JXL, TIF and WEBP are left out, and their IMG_is functions say no.      *)
(***************************************************************************)
EXTENDS
  PngLoader, JpegLoader, GifLoader, BitmapLoaders, RasterLoaders, XpmLoader,
  XcfLoader, SvgLoader, PngWriter, JpegWriter

\* supported[].  The format without a magic number is first.
Supported ==
  <<"TGA", "AVIF", "CUR", "ICO", "BMP", "GIF", "JPG", "JXL", "LBM", "PCX",
    "PNG", "PNM", "SVG", "TIF", "XCF", "XPM", "XV", "WEBP", "QOI">>

\* The blocks that try a format, and those that load it.
Tried(f) == "try " \o f
Loaded(f) == "loaded " \o f

Formats == {Supported[p] : p \in DOMAIN Supported}

\* Where the search goes when a source is not of the format at p.
Sequel(p) ==
  IF p = Len(Supported) THEN "unsupported" ELSE Tried(Supported[p + 1])

TryAll ==
  [l \in {Tried(f) : f \in Formats \ {Supported[1]}} |->
     LET p == CHOOSE q \in DOMAIN Supported : Tried(Supported[q]) = l IN
     <<Call("is" \o Supported[p], Sequel(p)), Goto(Loaded(Supported[p]))>>]

LoadEach ==
  [l \in {Loaded(f) : f \in Formats} |->
     LET f == CHOOSE g \in Formats : Loaded(g) = l IN
     <<As(f), Call("load " \o f, "close null"), Goto("close")>>]

\* What the functions of a format are that is configured out.
LeftOut(f) == ("is" \o f) :> <<Fail>> @@ ("load " \o f) :> <<Fail>>

Configured == LeftOut("AVIF") @@ LeftOut("JXL") @@ LeftOut("TIF") @@ LeftOut("WEBP")

\* if (freesrc) SDL_RWclose(src)
Close ==
  "close" :> <<Unless("freesrc", "ok"), Free("src"), Return>>
  @@ "close null" :> <<Unless("freesrc", "null"), Free("src"), Fail>>

\* Mutation: it is not said that there is no such format.
NotSupportedUnsaid ==
  "no seek" :> <<Say, Goto("close null")>>
  @@ "unsupported" :> <<Goto("close null")>>

NotSupported ==
  "no seek" :> <<Say, Goto("close null")>>
  @@ "unsupported" :> <<Unless("freesrc", "err"), Free("src"), Say, Fail>>

\* IMG_LoadTyped_RW.  A TGA is known by the type the caller names.
LoadTyped ==
  "load typed" :>
     <<Check("no seek"), Unless("tga", Sequel(1)), Goto(Loaded(Supported[1]))>>
  @@ NotSupported @@ TryAll @@ LoadEach @@ Close

\* IMG_Load: the extension of the file is the type.
Load ==
  "IMG_Load" :>
     <<Decide("tga"), Make("src", "null"), Set("freesrc"), Goto("load typed")>>

\* IMG_Load_RW, with the source of a caller who may want to keep it.
LoadRW ==
  "IMG_Load_RW" :>
     <<Make("src", "err"), Decide("freesrc"), Goto("load typed")>>

FreeAnimation ==
  "free animation" :>
     <<Free("anim.frames"), Free("anim.delays"), Free("anim"), Return>>

\* IMG_LoadAnimation: the formats without frames make an animation of one.
LoadAnimation ==
  "IMG_LoadAnimation" :>
     <<Decide("tga"), Make("src", "null"), Set("freesrc"), Check("no seek"),
       Call("isGIF", "single frame"), As("GIF animation"),
       Call("load GIF animation", "close null"), Goto("close")>>
  @@ "single frame" :>
       <<Call("load typed", "null"), Own("anim", "frame lost"),
         Own("anim.frames", "anim fails"), Own("anim.delays", "anim lost"),
         Give("surface", "anim"), Give("anim.frames", "anim"),
         Give("anim.delays", "anim"), Return>>
  @@ "anim fails" :> <<Own("anim.delays", "anim lost"), Goto("anim lost")>>
  @@ "anim lost" :> <<Try("free animation"), Goto("frame lost")>>
  @@ "frame lost" :> <<Free("surface"), Say, Fail>>
-----------------------------------------------------------------------------
(* IMG_stb.c *)

StbEof == "stb eof" :> <<Poll("null"), Seek, Return>>

\* stbi__load_main, and stbi__load_and_postprocess_8bit, which makes 8 of the 16
\* bits of a channel.
StbMain ==
  "stb main" :>
     <<Call("png test", "stb jpeg"), Call("png load", "null"),
       Either({"ok", "stb 16 bit"})>>
  @@ "stb jpeg" :>
       <<Call("jpeg test", "err"), Call("jpeg load", "null"), Return>>
  @@ "stb 16 bit" :>
       <<Own("reduced", "err"), Free("pixels"), Move("reduced", "pixels"),
         Return>>

\* Mutation: the source stays where the decoder has left it.
StbFailedStays == "stb failed" :> <<Fail>>

\* if (!pixels)
StbFailed == "stb failed" :> <<Rewind, Fail>>

\* IMG_LoadSTB_RW
LoadSTB ==
  "load PNG" :> <<Goto("load STB")>>
  @@ "load JPG" :> <<Goto("load STB")>>
  @@ "load STB" :>
       <<Call("stb main", "stb failed"), Make("surface", "stb refused"),
         Give("pixels", "surface"), Return>>
  @@ "stb refused" :> <<Free("pixels"), Rewind, Fail>>
  @@ StbFailed

ImageCode ==
  Exits @@ PngCode @@ JpegCode @@ GifCode @@ BitmapCode @@ RasterCode @@ XpmCode
  @@ XcfCode @@ SvgCode @@ Configured @@ LoadTyped @@ Load @@ LoadRW
  @@ FreeAnimation @@ LoadAnimation @@ StbEof @@ StbMain @@ LoadSTB
  @@ PngWriterCode @@ JpegWriterCode
=============================================================================
