----------------------------- MODULE SvgLoader -----------------------------
(***************************************************************************)
(* IMG_svg.c, and what nanosvg.h and nanosvgrast.h do with memory: the     *)
(* parser calls back for every element and every text, and builds the      *)
(* image out of gradients, paths and shapes; the rasterizer flattens the   *)
(* shapes.  How many points, shapes or edges there are is not told apart.  *)
(***************************************************************************)
EXTENDS Steps

\* IMG_isSVG looks into what there is of the first 4095 bytes.
IsSVG ==
  "isSVG" :> <<Take, Check("not SVG"), Rewind, Return>>
  @@ "not SVG" :> <<Rewind, Fail>>

\* An image without a size is not freed, and the source is never put back.
LoadSVG ==
  "load SVG" :>
     <<Call("SDL file", "null"), Call("svg parse", "svg not parsed"),
       Drop("data"), Check("err"), Own("rasterizer", "svg not drawn"),
       Make("surface", "svg refused"), Try("svg rasterize"),
       Try("svg delete rasterizer"), Drop("svg"), Return>>
  @@ "svg not parsed" :> <<Drop("data"), Say, Fail>>
  @@ "svg not drawn" :> <<Say, Drop("svg"), Fail>>
  @@ "svg refused" :> <<Try("svg delete rasterizer"), Drop("svg"), Fail>>
-----------------------------------------------------------------------------
(* nanosvg.h: points, paths and shapes *)

\* nsvg__addPoint.  When room for more is refused, the points are lost, but not
\* how many there was to be room for: the next one is written nowhere.
AddPoint ==
  "svg point" :>
     <<Unless("cpts", "svg more points"), IfNull("pts", "svg put point"),
       Either({"svg more points", "svg put point"})>>
  @@ "svg more points" :>
       <<Set("cpts"), Resize("pts", "ok"), Goto("svg put point")>>
  @@ "svg put point" :> <<Use("pts"), Set("npts"), Return>>

MoveTo ==
  "svg move to" :> <<Unless("npts", "svg point"), Use("pts"), Return>>

LineTo == "svg line to" :> <<Unless("npts", "ok"), Use("pts"), Goto("svg curve to")>>

\* nsvg__cubicBezTo adds three points, as a line does.
CubicBezTo ==
  "svg curve to" :>
     <<Unless("npts", "ok"), Try("svg point"), Try("svg point"),
       Goto("svg point")>>

\* nsvg__addPath: too few points make no path.
AddPath ==
  "svg close path" :>
     <<Unless("npts", "ok"), Either({"ok", "svg path closes"})>>
  @@ "svg path closes" :> <<Use("pts"), Try("svg line to"), Goto("svg add path")>>
  @@ "svg add path" :> <<Unless("npts", "ok"), Either({"ok", "svg new path"})>>
  @@ "svg new path" :>
       <<Own("path", "ok"), Own("path.pts", "svg path refused"), Use("pts"),
         Give("path.pts", "path"), Give("plist", "path"), Move("path", "plist"),
         Return>>
  @@ "svg path refused" :> <<Drop("path"), Return>>

\* nsvg__createGradient, from the stops of one that was parsed.
CreateGradient ==
  "svg gradient" :> <<IfNull("gradients", "ok"), Either({"ok", "svg new gradient"})>>
  @@ "svg new gradient" :>
       <<Own("gradient", "ok"), Give("gradient", "shape"), Return>>

\* nsvg__addShape: the paths wait for the next shape when this one is refused.
AddShape ==
  "svg shape" :>
     <<IfNull("plist", "ok"), Own("shape", "ok"), Give("plist", "shape"),
       Try("svg gradient"), Try("svg gradient"), Give("shape", "svg"), Return>>
-----------------------------------------------------------------------------
(* nanosvg.h: attributes and elements *)

\* nsvg__parseAttr and its relatives: only a class looks at memory, the name and
\* the description of the styles.
ParseAttribs ==
  "svg attributes" :> <<Either({"ok", "svg class"})>>
  @@ "svg class" :>
       <<IfNull("styles", "svg attributes"),
         Either({"svg attributes", "svg class found"})>>
  @@ "svg class found" :>
       <<Unless("broken", "svg attributes"), Use("style.text"),
         Goto("svg attributes")>>

PathLines ==
  "svg path lines" :> <<Try("svg line to"), Goto("svg path item")>>

\* Cubic and quadratic curves.
PathCurves ==
  "svg path curves" :> <<Try("svg curve to"), Goto("svg path item")>>

\* An arc is a line when it is flat, and curves when it is not.
PathArc ==
  "svg path arc" :> <<Either({"svg path line", "svg path bends"})>>
  @@ "svg path line" :> <<Try("svg line to"), Goto("svg path item")>>
  @@ "svg path bends" :>
       <<Try("svg curve to"), Either({"svg path bends", "svg path item"})>>

\* nsvg__parsePath: nothing comes before the first point.  A path is committed
\* before another begins, when it is closed, and at the end.
ParsePath ==
  "svg path" :> <<Try("svg attributes"), Either({"svg shape", "svg path items"})>>
  @@ "svg path items" :> <<Clear("npts"), Either({"svg shape", "svg path moves"})>>
  @@ "svg path moves" :> <<Try("svg move to"), Goto("svg path item")>>
  @@ "svg path item" :>
       <<Either({"svg path lines", "svg path curves", "svg path arc",
                 "svg path begins", "svg path ends", "svg path over"})>>
  @@ PathLines @@ PathCurves @@ PathArc
  @@ "svg path begins" :>
       <<Try("svg add path"), Clear("npts"),
         Either({"svg path item", "svg path moves"})>>
  @@ "svg path ends" :>
       <<Unless("npts", "svg path ended"), Use("pts"), Try("svg close path"),
         Goto("svg path ended")>>
  @@ "svg path ended" :> <<Clear("npts"), Goto("svg path moves")>>
  @@ "svg path over" :> <<Try("svg add path"), Goto("svg shape")>>

\* nsvg__parseRect: the corners are sharp or round, or there is nothing to draw.
ParseRect ==
  "svg rect" :> <<Try("svg attributes"), Either({"ok", "svg rect begins"})>>
  @@ "svg rect begins" :>
       <<Clear("npts"), Try("svg move to"),
         Either({"svg rect sharp", "svg rect round"})>>
  @@ "svg rect sharp" :>
       <<Try("svg line to"), Try("svg line to"), Try("svg line to"),
         Goto("svg outline closed")>>
  @@ "svg rect round" :>
       <<Try("svg line to"), Try("svg curve to"), Try("svg line to"),
         Try("svg curve to"), Try("svg line to"), Try("svg curve to"),
         Try("svg line to"), Try("svg curve to"), Goto("svg outline closed")>>
  @@ "svg outline closed" :> <<Try("svg close path"), Goto("svg shape")>>

\* nsvg__parseCircle and nsvg__parseEllipse
ParseEllipse ==
  "svg ellipse" :> <<Try("svg attributes"), Either({"ok", "svg ellipse drawn"})>>
  @@ "svg ellipse drawn" :>
       <<Clear("npts"), Try("svg move to"), Try("svg curve to"),
         Try("svg curve to"), Try("svg curve to"), Try("svg curve to"),
         Goto("svg outline closed")>>

ParseLine ==
  "svg line" :>
     <<Try("svg attributes"), Clear("npts"), Try("svg move to"),
       Try("svg line to"), Goto("svg outline open")>>
  @@ "svg outline open" :> <<Try("svg add path"), Goto("svg shape")>>

\* nsvg__parsePoly: a polygon is closed, a polyline is not.
ParsePoly ==
  "svg poly" :>
     <<Clear("npts"), Try("svg attributes"),
       Either({"svg poly begins", "svg poly over"})>>
  @@ "svg poly begins" :> <<Try("svg move to"), Goto("svg poly goes on")>>
  @@ "svg poly goes on" :> <<Either({"svg poly line", "svg poly over"})>>
  @@ "svg poly line" :> <<Try("svg line to"), Goto("svg poly goes on")>>
  @@ "svg poly over" :> <<Either({"svg outline closed", "svg outline open"})>>

\* nsvg__parseGradient: it comes first in the list.
ParseGradient ==
  "svg gradient data" :>
     <<Own("grad", "ok"), Try("svg attributes"), Give("stops", "gradients"),
       Give("gradients", "grad"), Move("grad", "gradients"), Return>>

\* nsvg__parseGradientStop adds one to the gradient that comes first.
ParseGradientStop ==
  "svg stop" :>
     <<Try("svg attributes"), IfNull("gradients", "ok"), Resize("stops", "ok"),
       Return>>

\* nsvg__content: a style has no description before the block after its name has
\* ended, and never gets one when that is not in the same text.
Content ==
  "svg text" :> <<Either({"svg style", "svg described", "svg text over"})>>
  @@ "svg style" :>
       <<Trust("style"), Set("bare"), Give("styles", "style"),
         Move("style", "styles"), Own("style.name", "svg style broken"),
         Give("style.name", "styles"), Goto("svg text")>>
  @@ "svg described" :>
       <<Unless("bare", "svg text"), Clear("bare"),
         Own("style.description", "svg style broken"),
         Give("style.description", "styles"), Goto("svg text")>>
  @@ "svg style broken" :> <<Set("broken"), Goto("svg text")>>
  @@ "svg text over" :>
       <<Unless("bare", "ok"), Clear("bare"), Set("broken"), Return>>

\* nsvg__startElement, nsvg__endElement.
Elements ==
  "svg element" :>
     <<Either({"svg path", "svg rect", "svg ellipse", "svg line", "svg poly",
               "svg gradient data", "svg stop", "svg attributes", "ok"})>>

\* The end of the text is the end of the picture, whatever is still open.
ParseXML ==
  "svg xml" :>
     <<Either({"svg xml text", "svg xml element", "svg xml open", "ok"})>>
  @@ "svg xml open" :> <<Lack, Return>>
  @@ "svg xml text" :> <<Try("svg text"), Goto("svg xml")>>
  @@ "svg xml element" :> <<Try("svg element"), Goto("svg xml")>>

DeleteParser ==
  "svg delete parser" :>
     <<Drop("styles"), Drop("plist"), Drop("stops"), Drop("gradients"),
       Drop("pts"), Drop("parser"), Clear("cpts"), Clear("npts"),
       Clear("broken"), Return>>

\* nsvgParse: the image is what is kept.
Parse ==
  "svg parse" :>
     <<Own("parser", "null"), Own("svg", "svg no image"), Try("svg xml"),
       Goto("svg parsed")>>
  @@ "svg no image" :> <<Drop("parser"), Fail>>
  @@ "svg parsed" :> <<Try("svg delete parser"), Return>>
-----------------------------------------------------------------------------
(* nanosvgrast.h.  An array of the rasterizer that cannot grow is lost, and    *)
(* what is in it, or should be, is always used after that.                     *)

\* nsvg__addPathPoint and nsvg__appendPathPoint: a point is the last one again, or
\* there is room for it, or room is made.
AddPathPoint ==
  "svg flat point" :>
     <<IfNull("points", "svg flat room"), Either({"ok", "svg flat room"})>>
  @@ "svg flat room" :> <<Stretch("points"), Return>>

DuplicatePoints ==
  "svg copy points" :>
     <<IfNull("points2", "svg copy room"), Either({"ok", "svg copy room"})>>
  @@ "svg copy room" :> <<Stretch("points2"), Return>>

\* A horizontal edge is none.
AddEdge ==
  "svg edge" :> <<Either({"ok", "svg edge room"})>>
  @@ "svg edge room" :> <<Stretch("edges"), Return>>

FlattenCubicBez ==
  "svg flat curve" :> <<Either({"ok", "svg flat bend"})>>
  @@ "svg flat bend" :> <<Try("svg flat point"), Goto("svg flat curve")>>

\* Every path is closed for its filling.
FlattenShape ==
  "svg flatten" :> <<Try("svg flat point"), Goto("svg flatten path")>>
  @@ "svg flatten path" :> <<Either({"svg flatten curve", "svg flatten end"})>>
  @@ "svg flatten curve" :> <<Try("svg flat curve"), Goto("svg flatten path")>>
  @@ "svg flatten end" :>
       <<Try("svg flat point"), Use("points"), Goto("svg flatten edges")>>
  @@ "svg flatten edges" :>
       <<Either({"svg flatten edge", "svg flatten", "ok"})>>
  @@ "svg flatten edge" :> <<Try("svg edge"), Goto("svg flatten edges")>>

\* nsvg__buttCap and nsvg__squareCap; the cap at the end of a line is connected.
FlatCap ==
  "svg flat cap" :> <<Try("svg edge"), Return>>
  @@ "svg cap connects" :> <<Try("svg edge"), Try("svg edge"), Return>>

RoundCap == "svg round cap" :> <<Try("svg edge"), Either({"svg round cap", "ok"})>>

BevelJoin ==
  "svg bevel join" :>
     <<Try("svg edge"), Try("svg edge"), Try("svg edge"), Try("svg edge"),
       Return>>

\* nsvg__miterJoin: one edge on the one side, and two on the other.
MiterJoin ==
  "svg miter join" :>
     <<Try("svg edge"), Try("svg edge"), Try("svg edge"), Return>>

RoundJoin ==
  "svg round join" :>
     <<Try("svg edge"), Try("svg edge"), Either({"svg round join", "ok"})>>

StraightJoin == "svg straight join" :> <<Try("svg edge"), Try("svg edge"), Return>>

\* nsvg__expandStroke: a cap, the joins, and another cap or what closes the line.
ExpandStroke ==
  "svg expand" :> <<Unless("closed", "svg first cap"), Goto("svg joins")>>
  @@ "svg first cap" :> <<Try("svg cap"), Goto("svg joins")>>
  @@ "svg cap" :> <<Either({"svg flat cap", "svg round cap"})>>
  @@ "svg joins" :> <<Either({"svg joins one", "svg joined"})>>
  @@ "svg joins one" :> <<Try("svg join"), Goto("svg joins")>>
  @@ "svg join" :>
       <<Either({"svg round join", "svg bevel join", "svg miter join",
                 "svg straight join"})>>
  @@ "svg joined" :>
       <<Unless("closed", "svg last cap"), Try("svg edge"), Try("svg edge"),
         Return>>
  @@ "svg last cap" :> <<Try("svg cap"), Goto("svg cap connects")>>

\* nsvg__flattenShapeStroke: a line of dashes is drawn from a copy of its points,
\* and none of the dashes is closed.
FlattenShapeStroke ==
  "svg flatten stroke" :> <<Try("svg flat point"), Goto("svg stroke path")>>
  @@ "svg stroke path" :>
       <<Either({"svg stroke curve", "svg stroke flat", "svg stroke next"})>>
  @@ "svg stroke curve" :> <<Try("svg flat curve"), Goto("svg stroke path")>>
  @@ "svg stroke flat" :>
       <<Use("points"), Decide("closed"),
         Either({"svg stroke expand", "svg dashes"})>>
  @@ "svg stroke expand" :> <<Try("svg expand"), Goto("svg stroke next")>>
  @@ "svg stroke next" :> <<Clear("closed"), Either({"ok", "svg flatten stroke"})>>
  @@ "svg dashes" :>
       <<Unless("closed", "svg dashes begin"), Try("svg flat point"),
         Goto("svg dashes begin")>>
  @@ "svg dashes begin" :>
       <<Clear("closed"), Try("svg copy points"), Use("points2"),
         Goto("svg dash on")>>
  @@ "svg dash on" :> <<Try("svg flat point"), Goto("svg dash")>>
  @@ "svg dash" :>
       <<Either({"svg dash end", "svg dash on", "svg dash left"})>>
  @@ "svg dash end" :>
       <<Try("svg flat point"), Either({"svg dash drawn", "svg dash on"})>>
  @@ "svg dash drawn" :> <<Try("svg expand"), Goto("svg dash on")>>
  @@ "svg dash left" :> <<Either({"svg stroke expand", "svg stroke next"})>>

\* nsvg__nextPage: the pages stay for the next shape.
NextPage ==
  "svg next page" :> <<Either({"ok", "svg new page"})>>
  @@ "svg new page" :> <<Trust("page"), Give("page", "rasterizer"), Return>>

\* nsvg__alloc
PoolAlloc == "svg pool" :> <<Either({"ok", "svg next page"})>>

\* nsvg__addActive: from the edges that are not active any more, or from the pool.
AddActive == "svg active" :> <<Either({"ok", "svg pool"})>>

RasterizeSortedEdges ==
  "svg scan lines" :>
     <<Use("scanline"), IfNull("edges", "ok"), Either({"ok", "svg scan edge"})>>
  @@ "svg scan edge" :> <<Try("svg active"), Goto("svg scan lines")>>

\* nsvgRasterize: without a line to draw on, the surface stays empty.
Rasterize ==
  "svg rasterize" :> <<Own("scanline", "ok"), Goto("svg draw")>>
  @@ "svg draw" :> <<Either({"svg fill", "svg stroke", "ok"})>>
  @@ "svg fill" :>
       <<Try("svg flatten"), Try("svg scan lines"), Goto("svg draw")>>
  @@ "svg stroke" :>
       <<Try("svg flatten stroke"), Try("svg scan lines"), Goto("svg draw")>>

DeleteRasterizer ==
  "svg delete rasterizer" :>
     <<Drop("edges"), Drop("points"), Drop("points2"), Drop("scanline"),
       Drop("rasterizer"), Return>>

SvgCode ==
  IsSVG @@ LoadSVG @@ AddPoint @@ MoveTo @@ LineTo @@ CubicBezTo @@ AddPath
  @@ CreateGradient @@ AddShape @@ ParseAttribs @@ ParsePath @@ ParseRect
  @@ ParseEllipse @@ ParseLine @@ ParsePoly @@ ParseGradient
  @@ ParseGradientStop @@ Content @@ Elements @@ ParseXML @@ DeleteParser
  @@ Parse @@ AddPathPoint @@ DuplicatePoints @@ AddEdge @@ FlattenCubicBez
  @@ FlattenShape @@ FlatCap @@ RoundCap @@ BevelJoin @@ MiterJoin @@ RoundJoin
  @@ StraightJoin @@ ExpandStroke @@ FlattenShapeStroke @@ NextPage @@ PoolAlloc
  @@ AddActive @@ RasterizeSortedEdges @@ Rasterize @@ DeleteRasterizer
=============================================================================
