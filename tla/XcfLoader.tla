----------------------------- MODULE XcfLoader -----------------------------
(***************************************************************************)
(* IMG_xcf.c: the layers of a GIMP file are drawn on a surface, the        *)
(* topmost last, and the channels over them.  Hardly anything that is read *)
(* or allocated is checked, and a layer that cannot be drawn is left out.  *)
(***************************************************************************)
EXTENDS Steps

IsXCF == Detector("XCF")

ReadString ==
  "xcf string" :> <<Take, Either({"ok", "xcf string bytes"})>>
  @@ "xcf string bytes" :> <<Own("name", "ok"), Take, Return>>

ReadOffset == "xcf offset" :> <<Take, Return>>

\* A property of an unknown kind is skipped.
ReadProperty ==
  "xcf property" :>
     <<Take, Either({"xcf colour map", "xcf value", "xcf skip", "ok"})>>
  @@ "xcf colour map" :> <<Take, Trust("cmap"), Take, Return>>
  @@ "xcf value" :> <<Take, Return>>
  @@ "xcf skip" :> <<Ask("null"), Skip, Return>>

\* A colour map is freed when it has colours; one of none is lost.
FreeHeader ==
  "xcf free header" :>
     <<Unless("cm_num", "xcf free rest"), Free("cm_map"), Goto("xcf free rest")>>
  @@ "xcf free rest" :>
       <<Free("layer_file_offsets"), Free("head"), Return>>

\* Only a colour map has allocated something: it is copied and freed.
ReadHeader ==
  "xcf header" :>
     <<Own("head", "null"), Take, Decide("indexed"), Forget("cm_map"),
       Forget("layer_file_offsets"), Goto("xcf header property")>>
  @@ "xcf header property" :>
       <<Call("xcf property", "xcf header fails"),
         IfNull("cmap", "xcf header next"),
         Grow("cm_map", "xcf colours refused"), Decide("cm_num"),
         Drop("cmap"), Goto("xcf header next")>>
  @@ "xcf header next" :> <<Either({"xcf header property", "ok"})>>
  @@ "xcf colours refused" :> <<Drop("cmap"), Goto("xcf header fails")>>
  @@ "xcf header fails" :> <<Try("xcf free header"), Fail>>

FreeLayer == "xcf free layer" :> <<Drop("name"), Drop("layer"), Return>>

ReadLayer ==
  "xcf layer" :>
     <<Trust("layer"), Take, Forget("name"), Try("xcf string"),
       Goto("xcf layer property")>>
  @@ "xcf layer property" :>
       <<Call("xcf property", "xcf layer fails"),
         IfNull("cmap", "xcf layer next"), Drop("cmap"),
         Goto("xcf layer next")>>
  @@ "xcf layer next" :> <<Either({"xcf layer property", "xcf layer read"})>>
  @@ "xcf layer read" :> <<Try("xcf offset"), Try("xcf offset"), Return>>
  @@ "xcf layer fails" :> <<Try("xcf free layer"), Fail>>

\* A channel has no use for a colour map, and forgets it.
ReadChannel ==
  "xcf channel" :>
     <<Trust("l"), Take, Forget("name"), Try("xcf string"),
       Goto("xcf channel property")>>
  @@ "xcf channel property" :>
       <<Call("xcf property", "xcf channel fails"),
         Either({"xcf channel property", "xcf channel read"})>>
  @@ "xcf channel read" :> <<Try("xcf offset"), Give("name", "l"), Return>>
  @@ "xcf channel fails" :> <<Drop("name"), Drop("l"), Fail>>

\* The lists of levels and of tiles grow up to an offset of zero.
ReadHierarchy ==
  "xcf hierarchy" :>
     <<Trust("hierarchy"), Take, Forget("levels"), Goto("xcf hierarchy list")>>
  @@ "xcf hierarchy list" :>
       <<Stretch("levels"), Try("xcf offset"),
         Either({"xcf hierarchy list", "ok"})>>

FreeHierarchy ==
  "xcf free hierarchy" :> <<Drop("levels"), Drop("hierarchy"), Return>>

ReadLevel ==
  "xcf level" :>
     <<Trust("level"), Take, Forget("tiles"), Goto("xcf level list")>>
  @@ "xcf level list" :>
       <<Stretch("tiles"), Try("xcf offset"),
         Either({"xcf level list", "ok"})>>

FreeLevel == "xcf free level" :> <<Drop("tiles"), Drop("level"), Return>>

\* load_xcf_tile_none and load_xcf_tile_rle, as the file is compressed.
LoadTile ==
  "xcf tile" :> <<Unless("rle", "xcf plain tile"), Goto("xcf rle tile")>>
  @@ "xcf plain tile" :> <<Check("null"), Own("tile", "null"), Take, Return>>
  @@ "xcf rle tile" :>
       <<Check("null"), Own("load", "null"), Take, Trust("tile"),
         Drop("load"), Return>>
-----------------------------------------------------------------------------
\* The pixels of one or two bytes are indices into the colour map, which a file
\* need not have, or grey.  A tile of an unknown kind: freed when it has one byte
\* per pixel, and not when it has two.
TileKinds ==
  "xcf pixels" :>
     <<Either({"xcf pixels drawn", "xcf plain pixels", "xcf alpha pixels"})>>
  @@ "xcf plain pixels" :>
       <<Unless("indexed", "xcf plain grey"), Goto("xcf mapped")>>
  @@ "xcf alpha pixels" :>
       <<Unless("indexed", "xcf alpha grey"), Goto("xcf mapped")>>
  @@ "xcf mapped" :> <<Use("cm_map"), Goto("xcf pixels drawn")>>
  @@ "xcf plain grey" :> <<Check("xcf tile lost"), Goto("xcf pixels drawn")>>
  @@ "xcf alpha grey" :> <<Check("xcf no tile"), Goto("xcf pixels drawn")>>
  @@ "xcf tile lost" :> <<Drop("tile"), Goto("xcf no tile")>>

\* do_layer_surface.  Of the levels only the first is drawn.
DoLayer ==
  "xcf draw" :>
     <<Seek, Try("xcf hierarchy"), Check("xcf not drawn"),
       Either({"xcf first level", "xcf drawn"})>>
  @@ "xcf not drawn" :> <<Try("xcf free hierarchy"), Fail>>
  @@ "xcf first level" :>
       <<Ask("xcf drawn"), Seek, Try("xcf level"),
         Either({"xcf next tile", "xcf level drawn"})>>
  @@ "xcf next tile" :>
       <<Seek, Call("xcf tile", "xcf no tile"), Goto("xcf pixels")>>
  @@ "xcf no tile" :>
       <<Try("xcf free hierarchy"), Try("xcf free level"), Fail>>
  @@ "xcf pixels drawn" :>
       <<Drop("tile"), Either({"xcf next tile", "xcf level drawn"})>>
  @@ "xcf level drawn" :>
       <<Try("xcf free level"), Either({"xcf other level", "xcf drawn"})>>
  @@ "xcf other level" :>
       <<Ask("xcf drawn"), Seek, Either({"xcf other level", "xcf drawn"})>>
  @@ "xcf drawn" :> <<Try("xcf free hierarchy"), Return>>
  @@ TileKinds

LoadXCF ==
  "load XCF" :>
     <<Call("xcf header", "null"), Check("xcf unsupported"), Decide("rle"),
       Make("surface", "xcf fails"), Goto("xcf layers")>>
  @@ "xcf unsupported" :> <<Try("xcf free header"), Fail>>
  @@ "xcf layers" :>
       <<Try("xcf offset"), Either({"xcf one more layer", "xcf lays"})>>
  @@ "xcf one more layer" :>
       <<Stretch("layer_file_offsets"), Goto("xcf layers")>>
  @@ "xcf lays" :>
       <<Make("lays", "xcf fails"), Either({"xcf blit", "xcf blitted"})>>
  @@ "xcf blit" :>
       <<Seek, Call("xcf layer", "xcf next layer"), Try("xcf draw"),
         Try("xcf free layer"), Goto("xcf next layer")>>
  @@ "xcf next layer" :> <<Either({"xcf blit", "xcf blitted"})>>
  @@ "xcf blitted" :> <<Free("lays"), Seek, Goto("xcf channels")>>
  @@ "xcf channels" :>
       <<Try("xcf offset"), Either({"xcf one more channel", "xcf merge"})>>
  @@ "xcf one more channel" :>
       <<Stretch("channel"), Seek, Call("xcf channel", "xcf channel read on"),
         Give("l", "channel"), Set("channels"), Goto("xcf channel read on")>>
  @@ "xcf channel read on" :> <<Seek, Goto("xcf channels")>>
  @@ "xcf merge" :>
       <<Unless("channels", "xcf done"), Make("chs", "xcf fails"),
         Free("channel"), Free("chs"), Goto("xcf done")>>
  @@ "xcf done" :> <<Try("xcf free header"), Return>>
  @@ "xcf fails" :>
       <<Try("xcf free header"), Rewind, Free("surface"), Say, Fail>>

XcfCode ==
  IsXCF @@ ReadString @@ ReadOffset @@ ReadProperty @@ FreeHeader
  @@ ReadHeader @@ FreeLayer @@ ReadLayer @@ ReadChannel @@ ReadHierarchy
  @@ FreeHierarchy @@ ReadLevel @@ FreeLevel @@ LoadTile @@ DoLayer @@ LoadXCF
=============================================================================
