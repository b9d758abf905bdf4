----------------------------- MODULE XpmLoader -----------------------------
(***************************************************************************)
(* IMG_xpm.c: an XPM file is C source, a string per line, with the sizes   *)
(* first, then the colours and then the rows.                              *)
(***************************************************************************)
EXTENDS Steps

IsXPM == Detector("XPM")

\* The three parts of the table are freed together.
CreateColorHash ==
  "xpm hash" :>
     <<Own("hash", "null"), Check("xpm hash overflow"),
       Own("table", "xpm hash fails"), Check("xpm hash overflow"),
       Own("entries", "xpm hash fails"), Return>>
  @@ "xpm hash overflow" :> <<Say, Goto("xpm hash fails")>>
  @@ "xpm hash fails" :>
       <<Drop("table"), Drop("hash"), Fail>>

FreeColorHash ==
  "xpm free hash" :> <<Free("table"), Free("entries"), Free("hash"), Return>>

ColorToArgb == "xpm colour" :> <<Check("null"), Return>>

\* A string, up to its end or of the length that is given.  The buffer that could
\* not be made larger is freed here, and the pointer to it kept.
GetNextLine ==
  "xpm line" :>
     <<Read("null"), Either({"xpm line", "xpm line fits", "xpm line grows"})>>
  @@ "xpm line fits" :>
       <<IfNull("linebuf", "xpm line grows"), Goto("xpm line bytes")>>
  @@ "xpm line grows" :>
       <<Grow("linebuf", "xpm line refused"), Goto("xpm line bytes")>>
  @@ "xpm line refused" :> <<Free("linebuf"), Fail>>
  @@ "xpm line bytes" :>
       <<Read("null"), Either({"xpm line bytes", "xpm line grows", "ok"})>>

\* load_xpm: the palette of an indexed surface is taken before it is known
\* whether there is one.
XpmHeader ==
  "load XPM" :>
     <<Forget("linebuf"), Call("xpm line", "xpm fails"), Check("xpm fails"),
       Own("keystrings", "xpm fails"), Either({"xpm indexed", "xpm direct"})>>
  @@ "xpm indexed" :> <<Trust("surface"), Decide("quick"), Goto("xpm table")>>
  @@ "xpm direct" :> <<Make("surface", "xpm done"), Goto("xpm table")>>
  @@ "xpm table" :> <<Call("xpm hash", "xpm fails"), Goto("xpm colours")>>

\* Of the kinds of colour a line may name, the first that is known.
XpmColours ==
  "xpm colours" :> <<Call("xpm line", "xpm fails"), Goto("xpm spec")>>
  @@ "xpm spec" :>
       <<Check("xpm fails"), Call("xpm colour", "xpm spec"),
         Either({"xpm colours", "xpm pixels"})>>

\* With one character per pixel, the entry of a character in the table is used
\* whether a colour has put one there or not (QUICK_COLORHASH).
XpmRows ==
  "xpm pixels" :>
     <<Call("xpm line", "xpm fails"), Unless("quick", "xpm row"),
       Either({"xpm row", "xpm unknown"})>>
  @@ "xpm unknown" :> <<Use("table entry"), Goto("xpm row")>>
  @@ "xpm row" :> <<Either({"xpm pixels", "xpm image"})>>

LoadXPM ==
  XpmHeader @@ XpmColours @@ XpmRows
  @@ "xpm image" :> <<Try("xpm free"), Return>>
  @@ "xpm fails" :> <<Rewind, Free("surface"), Say, Goto("xpm done")>>
  @@ "xpm done" :> <<Try("xpm free"), Fail>>
  @@ "xpm free" :>
       <<Free("keystrings"), Try("xpm free hash"), Free("linebuf"), Return>>

XpmCode ==
  IsXPM @@ CreateColorHash @@ FreeColorHash @@ ColorToArgb @@ GetNextLine
  @@ LoadXPM
=============================================================================
