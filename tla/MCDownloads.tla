---------------------------- MODULE MCDownloads ----------------------------
(***************************************************************************)
(* Values of the constants of Downloads for TLC.  One tracker of two has a *)
(* whole URL as urlDownload.  The path of its request "id" is that of the  *)
(* link "dl", so a reply can find the title kept for another link.  The    *)
(* name "barra" has a slash and becomes "raya".                            *)
(***************************************************************************)
EXTENDS Downloads, TLC

CONSTANTS ta, tb, dl, id, barra, raya, c1, c2

MCCamino == (dl :> dl) @@ (id :> dl)

MCLimpio == (barra :> raya) @@ (raya :> raya) @@ (Vacio :> Vacio)

MCEnlaces ==
  {[sitio |-> ta, directo |-> FALSE, ruta |-> id],
   [sitio |-> ta, directo |-> TRUE, ruta |-> dl]}
=============================================================================
