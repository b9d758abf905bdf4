----------------------------- MODULE GifLoader -----------------------------
(***************************************************************************)
(* IMG_gif.c.  One function reads a picture or all frames of an animation; *)
(* when a later frame fails, those before it are what is returned.         *)
(***************************************************************************)
EXTENDS Steps

IsGIF == Detector("GIF")

ReadColorMap ==
  "gif colours" :> <<Read("err"), Either({"gif colours", "ok"})>>

\* Of a sub-block without bytes nothing more is read.
GetDataBlock ==
  "gif data" :> <<Read("null"), Either({"ok", "gif bytes"})>>
  @@ "gif bytes" :> <<Read("null"), Return>>

\* Up to the sub-block without bytes, or to one that cannot be read.
DoExtension ==
  "gif extension" :> <<Either({"gif control", "gif blocks"})>>
  @@ "gif control" :> <<Try("gif data"), Goto("gif blocks")>>
  @@ "gif blocks" :> <<Call("gif data", "ok"), Either({"gif blocks", "ok"})>>

\* After the last sub-block there are zeros, once, and then nothing.
GetCode ==
  "gif code" :> <<Either({"ok", "gif fill"})>>
  @@ "gif fill" :> <<Check("gif ran off"), Try("gif data"), Return>>
  @@ "gif ran off" :> <<Either({"err", "null"})>>

LWZReadByte ==
  "gif byte" :> <<Either({"ok", "gif first code", "gif next code"})>>
  @@ "gif first code" :>
       <<Call("gif code", "null"), Either({"ok", "gif first code"})>>
  @@ "gif next code" :>
       <<Call("gif code", "null"),
         Either({"gif first code", "gif end code", "gif string"})>>
  @@ "gif end code" :> <<Either({"null", "gif last blocks"})>>
  @@ "gif last blocks" :> <<Try("gif blocks"), Fail>>
  @@ "gif string" :> <<Check("err"), Either({"ok", "gif next code"})>>

\* A picture whose codes end before its pixels is as good as a whole one.
ReadImage ==
  "gif image" :>
     <<Read("err"), Check("err"), Make("image", "null"),
       Check("gif no pixels"), Goto("gif pixels")>>
  @@ "gif no pixels" :> <<Drop("image"), Fail>>
  @@ "gif pixels" :>
       <<Call("gif byte", "ok"), Either({"gif pixels", "ok"})>>

\* Each frame is replaced by what is to be seen when it is shown.
NormalizeFrames ==
  "gif normalize" :> <<Make("canvas", "null"), Goto("gif frame")>>
  @@ "gif frame" :>
       <<Make("copy", "null"), Give("copy", "images"),
         Either({"gif frame", "gif normalized"})>>
  @@ "gif normalized" :> <<Free("canvas"), Return>>

\* if (anim->count > 1)
Frames ==
  "gif frames" :>
     <<Call("gif normalize", "gif frames lost"), Goto("gif kept")>>
  @@ "gif frames lost" :> <<Free("images"), Goto("gif none")>>

\* IMG_LoadGIF_RW_Internal.  A file that ends properly, but without an image, is
\* no picture, and nobody says why.
Internal ==
  "gif" :>
     <<Own("internal", "err"), Read("gif says"), Check("gif says"),
       Own("state", "gif says"), Read("gif says"),
       Either({"gif global colours", "gif item"})>>
  @@ "gif global colours" :>
       <<Call("gif colours", "gif says"), Goto("gif item")>>
  @@ "gif item" :>
       <<Read("gif says"),
         Either({"gif item", "gif trailer", "gif label", "gif descriptor"})>>
  @@ "gif trailer" :> <<Expect("images", "gif done"), Goto("gif done")>>
  @@ "gif label" :>
       <<Read("gif says"), Try("gif extension"), Goto("gif item")>>
  @@ "gif descriptor" :>
       <<Read("gif says"), Either({"gif local colours", "gif read"})>>
  @@ "gif local colours" :>
       <<Call("gif colours", "gif says"), Goto("gif read")>>
  @@ "gif read" :>
       <<Call("gif image", "gif item"), Grow("internal.frames", "gif says"),
         IfNull("images", "gif first"), Give("image", "images"),
         Goto("gif another")>>
  @@ "gif first" :> <<Move("image", "images"), Goto("gif another")>>
  @@ "gif another" :> <<Unless("animated", "gif done"), Goto("gif item")>>
  @@ "gif says" :> <<Say, Goto("gif done")>>
  @@ "gif done" :>
       <<IfNull("images", "gif none"), Unless("animated", "gif kept"),
         Either({"gif kept", "gif frames"})>>
  @@ "gif kept" :> <<Free("state"), Return>>
  @@ "gif none" :>
       <<Free("internal.frames"), Free("internal"), Free("state"), Fail>>
  @@ Frames

\* IMG_LoadGIF_RW
LoadGIF ==
  "load GIF" :>
     <<Call("gif", "null"), Move("images", "surface"),
       Free("internal.frames"), Free("internal"), Return>>

\* IMG_LoadGIFAnimation_RW.  When the animation is refused, the frames that are
\* to be in it are forgotten.
LoadGIFAnimation ==
  "load GIF animation" :>
     <<Set("animated"), Call("gif", "null"),
       Own("anim", "gif animation refused"),
       Own("anim.frames", "gif animation fails"),
       Own("anim.delays", "gif animation lost"), Give("images", "anim"),
       Give("anim.frames", "anim"), Give("anim.delays", "anim"),
       Free("internal.frames"), Free("internal"), Return>>
  @@ "gif animation fails" :>
       <<Own("anim.delays", "gif animation lost"), Goto("gif animation lost")>>
  @@ "gif animation lost" :>
       <<Try("free animation"), Goto("gif animation refused")>>
  @@ "gif animation refused" :>
       <<Say, Free("internal.frames"), Free("internal"), Fail>>

GifCode ==
  IsGIF @@ ReadColorMap @@ GetDataBlock @@ DoExtension @@ GetCode
  @@ LWZReadByte @@ ReadImage @@ NormalizeFrames @@ Internal @@ LoadGIF
  @@ LoadGIFAnimation
=============================================================================
