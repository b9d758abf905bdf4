------------------------------- MODULE Drawing -------------------------------
(***************************************************************************)
(* One call of sendFrame: the icons of the frame that are not in the cache *)
(* yet are loaded with IMG_Load, and the tiles are put where Layout says.  *)
(* An icon that cannot be loaded is an exception nobody catches.  The      *)
(* functions of SDL_image the server does not call are run by themselves.  *)
(***************************************************************************)
EXTENDS ImageLoading, Layout

CONSTANTS
  FirstSize,    \* bound: the window's width and height when icons are loaded
  Icons         \* how many icons a frame needs; sendFrame's needs "1.png" and
                \* "tiles/tile.png", which are loaded one after the other

ASSUME DrawingAssumption ==
  /\ FirstSize \in Sizes
  /\ Icons \in Nat \ {0}
  /\ "IMG_Load" \in Roots

VARIABLES
  called,      \* the function of SDL_image that runs, or ran last
  loaded       \* how many of the frame's icons are in iconCache()

drawingVars == <<loadingVars, layoutVars, called, loaded>>

\* The first frame of all, or another function of the library by itself.
FirstFrame ==
  /\ LoadingInit /\ called = Top.at
  /\ loaded = 0
  /\ w = FirstSize /\ h = FirstSize

\* Every other frame.
LaterFrame ==
  /\ NotLoading /\ called = "IMG_Load"
  /\ loaded = Icons

DrawingInit == LayoutInit /\ (FirstFrame \/ LaterFrame)

\* One step inside of SDL_image.
Decode ==
  /\ LoadingNext
  /\ UNCHANGED <<layoutVars, called, loaded>>

\* IconLoader got a surface, which is the cache's from now on; the next icon is
\* loaded, or all are there.
CacheIcon ==
  /\ called = "IMG_Load" /\ result = "picture"
  /\ loaded' = loaded + 1
  /\ IF loaded' < Icons THEN NextCall("IMG_Load") ELSE NoCall
  /\ UNCHANGED <<layoutVars, called>>

\* Mutation: the tiles are placed while their icons are still being loaded.
PlaceEarly ==
  /\ LayoutNext
  /\ UNCHANGED <<loadingVars, called, loaded>>

\* The loops over the tiles.
Place ==
  /\ loaded = Icons
  /\ LayoutNext
  /\ UNCHANGED <<loadingVars, called, loaded>>

DrawingNext == Decode \/ CacheIcon \/ Place

DrawingSpec == DrawingInit /\ [][DrawingNext]_drawingVars
-----------------------------------------------------------------------------
\* A call of SDL_image and the loops over the tiles keep their types, and no tile
\* is placed before the frame has all its icons.
DrawingTypeOK ==
  /\ LoadingTypeOK /\ LayoutTypeOK
  /\ called \in Roots /\ loaded \in 0 .. Icons
  /\ loaded < Icons => vertices = <<>>
=============================================================================
