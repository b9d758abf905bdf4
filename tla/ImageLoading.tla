---------------------------- MODULE ImageLoading ----------------------------
(***************************************************************************)
(* What a caller of SDL_image may rely on, whatever the source holds,      *)
(* wherever it ends and whichever allocation is refused, and where the     *)
(* code of a format does not keep to it.                                   *)
(***************************************************************************)
EXTENDS Loading, Images

\* The function has returned.
Over == result \in {"picture", "null"}

\* Where the search for the format tries one, and where it has found it.
Trials == {Tried(f) : f \in Formats} \cup {Loaded(f) : f \in Formats}
Searching ==
  /\ result = "running" /\ Top.k = 1
  /\ Top.at \in Trials

\* What the caller owns when the function has returned.
Due ==
  (IF result = "picture" THEN live \cap {"surface", "anim"} ELSE {})
  \cup (IF "freesrc" \in traits THEN {} ELSE {"src"})
  \cup (IF "freedst" \in traits THEN {} ELSE {"dst"})

\* What nobody can free any more, or nobody but the caller knows of.
Lost == (live \cup leaked) \ Due

\* What the formats are known to lose: stb_image's first buffer when the second
\* is refused; what GIF has read when more is refused; the arrays of nanosvg when
\* they cannot grow, and an image without a size; and several things an XCF file
\* can have that the loader has no use for.
LostByFormat ==
  CASE format \in {"PNG", "JPG"} -> IF refused THEN {"pixels"} ELSE {}
    [] format \in {"GIF", "GIF animation"} ->
         IF refused THEN {"image", "images", "canvas"} ELSE {}
    [] format = "SVG" ->
         (IF refused THEN {"pts", "stops"} ELSE {})
         \cup (IF result = "null" THEN {"svg"} ELSE {})
    [] format = "XCF" -> {"channel", "cm_map", "cmap", "tile"}
    [] OTHER -> {}

\* The conditions that make a loader fail and of which nobody says anything.
Silent ==
  {"gif trailer", "decode zlib", "zlib block", "png IDAT size", "jpeg DQT end",
   "jpeg DHT end", "jpeg scan component", "load XCF", "xcf header",
   "xcf header property", "png encoded"}

\* What a writer has not handed out yet, or has dropped.
Pending == {"saved", "dropped", "bits", "buffered"}
-----------------------------------------------------------------------------
\* Every stack of calls is one the code can make: all but the last function are at
\* a call.  Nothing is owned that was freed, and there is a stack exactly while a
\* function runs.
LoadingTypeOK ==
  /\ result \in {"idle", "running", "picture", "null", "fault"}
  /\ (result = "running") <=> (pc # <<>>)
  /\ \A n \in DOMAIN pc :
       /\ pc[n].at \in Labels /\ pc[n].k \in DOMAIN Code[pc[n].at]
       /\ n < Len(pc) => Code[pc[n].at][pc[n].k].do = "call"
  /\ at \in {"start", "moved"} /\ {ended, missed, refused} \subseteq BOOLEAN
  /\ live \cap freed = {}
  /\ unsaid = None \/ unsaid \in Labels

\* The IMG_is functions of seventeen formats look at the source one after the
\* other.  Each of them leaves it where the caller had put it and keeps nothing,
\* however far it has read and wherever the source ended, so that the next one,
\* and the loader in the end, see the whole file.
DetectorsLeaveNoTrace == Searching => at = "start" /\ live = {"src"}

\* A caller who keeps the source finds it where it was when no image could be
\* loaded, to try something else with it.  GIF, SVG and QOI never put it back;
\* XCF does only after its header, and PCX, LBM and XPM do not when SDL refuses
\* the surface.
FailureRewinds ==
  result = "null" /\ "src" \in live /\ at = "moved" =>
    \/ format \in {"GIF", "SVG", "QOI", "XCF"}
    \/ format \in {"PCX", "LBM", "XPM"} /\ refused

\* Whatever way a function returns, on every error path too, all it has allocated
\* is freed or is the caller's, and the source or the destination is closed exactly
\* when the caller asked for it; but for what the formats are known to lose.
NothingLeaks ==
  Over =>
    /\ Lost \subseteq LostByFormat
    /\ "src" \in freed => "freesrc" \in traits
    /\ "dst" \in freed => "freedst" \in traits

\* The server's icon loader throws what SDL_GetError() returns.  When no image
\* could be loaded, the error is about the condition that was not met last, and
\* not one of an earlier call, but for the silent conditions.
FailureIsExplained == result = "null" => unsaid = None \/ unsaid \in Silent

\* The way into undefined behaviour is open: what is NULL or freed is about to be
\* used, or what is freed about to be freed again.
Faulty ==
  \/ Doing({"use"}) /\ Here.what \notin live
  \/ Doing({"free", "drop"}) /\ Here.what \in freed

\* What a file can make a loader use although it is NULL: the colour map of an
\* indexed XCF file that has none, the palette of an LBM picture of 24 planes that
\* has colours, the entry of a character an XPM file has no colour for, and the
\* text of a style in an SVG file that was never finished.
NullByFormat ==
  {<<"XCF", "cm_map">>, <<"LBM", "palette">>, <<"XPM", "table entry">>,
   <<"SVG", "style.text">>}

\* Nothing that is NULL or freed is used, and nothing is freed twice, as long as
\* the allocator refuses nothing; but for the four pointers a file can leave NULL.
FaultsOnlyWhenRefused ==
  Faulty => refused \/ <<format, Here.what>> \in NullByFormat

\* A surface is a whole picture: no byte of it is missing from the source, and
\* none of it was left out because there was no memory for it.  The loaders of
\* CUR, ICO, JPG, PCX, PNG, TGA and XCF do not look whether all bytes they read
\* were there; a GIF picture whose codes end early, an animation whose frames do,
\* a QOI file without its last chunks and an SVG file without its last elements are
\* taken as they are.  So is a file that was saved whole: no match, bit or byte
\* is left in a buffer of the encoder, and none is missing from the destination,
\* but in a JPEG file, whose encoder does not look.
PictureIsComplete ==
  result = "picture" =>
    /\ missed => format \in {"CUR", "GIF", "GIF animation", "ICO", "JPG",
                            "JPG saving", "PCX", "PNG", "QOI", "SVG", "TGA",
                            "XCF"}
    /\ refused => format \in {"GIF", "GIF animation", "SVG", "XCF"}
    /\ traits \cap Pending = {}
=============================================================================
