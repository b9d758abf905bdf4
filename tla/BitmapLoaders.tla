--------------------------- MODULE BitmapLoaders ---------------------------
(***************************************************************************)
(* IMG_bmp.c (BMP, ICO and CUR), IMG_pcx.c and IMG_tga.c.                  *)
(***************************************************************************)
EXTENDS Steps

IsBMP == Detector("BMP")

\* IMG_isICOCUR.  A field that is not there reads as zero, and no field of the
\* header may be zero but the first.
IsICOCUR == Detector("CUR") @@ Detector("ICO")

\* SDL_LoadBMP_RW, which says why it fails and puts the source back.
SDLLoadBMP ==
  "SDL bmp" :> <<Read("SDL bmp fails"), Make("surface", "SDL bmp refused"),
                 Return>>
  @@ "SDL bmp fails" :> <<Say, Rewind, Fail>>
  @@ "SDL bmp refused" :> <<Rewind, Fail>>

LoadBMP == "load BMP" :> <<Call("SDL bmp", "null"), Return>>

\* LoadICOCUR_RW: the directory, of which the entry with the most colours is taken.
IcoDirectory ==
  "ico" :>
     <<Read("ico says"), Check("ico says"), Goto("ico entry")>>
  @@ "ico entry" :> <<Take, Either({"ico entry", "ico bitmap"})>>

\* SDL is asked once whether anything went wrong while the header was read.
IcoInfoHeader ==
  "ico bitmap" :>
     <<Ask("ico done"), Seek, Take, Check("ico says"), Ask("ico done"),
       Check("ico says"), Make("surface", "ico done"),
       Either({"ico palette", "ico row", "ok"})>>

\* Pixels are read and checked, colours and padding are not.
IcoPixels ==
  "ico palette" :> <<Check("ico says"), Goto("ico colour")>>
  @@ "ico colour" :> <<Take, Either({"ico colour", "ico row", "ok"})>>
  @@ "ico row" :>
       <<Read("ico says"), Either({"ico row", "ico padding", "ico mask"})>>
  @@ "ico padding" :> <<Take, Either({"ico row", "ico mask"})>>

IcoMask ==
  "ico mask" :>
     <<Read("ico says"), Either({"ico mask", "ico mask padding", "ok"})>>
  @@ "ico mask padding" :> <<Take, Either({"ico mask", "ok"})>>

LoadICOCUR ==
  "load ICO" :> <<Goto("ico")>>
  @@ "load CUR" :> <<Goto("ico")>>
  @@ IcoDirectory @@ IcoInfoHeader @@ IcoPixels @@ IcoMask
  @@ "ico says" :> <<Say, Goto("ico done")>>
  @@ "ico done" :> <<Rewind, Free("surface"), Fail>>
-----------------------------------------------------------------------------
IsPCX == Detector("PCX")

\* A run may go on into the next row, which then needs no bytes.
PcxRows ==
  "pcx row" :> <<Either({"pcx bytes", "pcx line"})>>
  @@ "pcx bytes" :> <<Read("pcx fails"), Goto("pcx line")>>
  @@ "pcx line" :>
       <<Check("pcx fails"),
         Either({"pcx row", "pcx palette", "pcx finished"})>>

\* A palette that is not found is taken from the end of the file.
PcxPalette ==
  "pcx palette" :>
     <<Poll("pcx from the end"), Either({"pcx palette", "pcx colours"})>>
  @@ "pcx from the end" :> <<Seek, Goto("pcx colours")>>
  @@ "pcx colours" :> <<Take, Goto("pcx finished")>>

LoadPCX ==
  "load PCX" :>
     <<Read("pcx fails"), Check("pcx fails"), Make("surface", "pcx done"),
       Own("buf", "pcx fails"), Goto("pcx row")>>
  @@ PcxRows @@ PcxPalette
  @@ "pcx finished" :> <<Free("buf"), Return>>
  @@ "pcx done" :> <<Free("buf"), Fail>>
  @@ "pcx fails" :> <<Free("buf"), Rewind, Free("surface"), Say, Fail>>
-----------------------------------------------------------------------------
TgaHeader ==
  "load TGA" :>
     <<Read("tga fails"), Check("tga fails"), Skip,
       Make("surface", "tga fails"),
       Either({"tga palette", "tga colour map", "tga row", "ok"})>>

\* After the header nothing is checked: what is missing stays as it was.
TgaPalette ==
  "tga palette" :>
     <<Trust("pal"), Take, Free("pal"), Either({"tga row", "ok"})>>
  @@ "tga colour map" :> <<Skip, Either({"tga row", "ok"})>>

TgaRows == "tga row" :> <<Take, Either({"tga row", "ok"})>>

LoadTGA ==
  TgaHeader @@ TgaPalette @@ TgaRows
  @@ "tga fails" :> <<Rewind, Free("surface"), Say, Fail>>

BitmapCode ==
  IsBMP @@ IsICOCUR @@ SDLLoadBMP @@ LoadBMP @@ LoadICOCUR @@ IsPCX @@ LoadPCX
  @@ LoadTGA
=============================================================================
