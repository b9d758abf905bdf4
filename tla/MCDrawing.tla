----------------------------- MODULE MCDrawing -----------------------------
(***************************************************************************)
(* Values for model-checking Drawing: the code of SDL_image, the three     *)
(* functions of it that look for the format themselves, and the four that  *)
(* save.  The windows are none announced, one pixel short of and one pixel *)
(* beyond a cell of one pixel and a scale of one, and the largest a client *)
(* can announce.                                                           *)
(***************************************************************************)
EXTENDS Drawing

MCCode == ImageCode
MCRoots ==
  {"IMG_Load", "IMG_Load_RW", "IMG_LoadAnimation", "IMG_SavePNG",
   "IMG_SavePNG_RW", "IMG_SaveJPG", "IMG_SaveJPG_RW"}
MCSizes == {0, 15, 31, 479, 1023, 1024, 1919, 1921, 65535}
=============================================================================
