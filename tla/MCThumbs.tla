------------------------------ MODULE MCThumbs ------------------------------
(* Three paths and two pictures; a run renames one file, or swaps two.     *)
EXTENDS Thumbs

CONSTANTS p, q, r, film, grid

MCStamp    == [x \in {film, grid} |-> x]
MCPictures == {film}
MCBoth     == {film, grid}
MCDisk     == (p :> film) @@ (q :> grid)
MCRows     == <<p, q, r>>
MCMoves    == {{<<p, r>>}, {<<r, p>>}, {<<p, q>>, <<q, p>>}}
MCScreens  == {{p, q, r}, {p}, None}
=============================================================================
