--------------------------------- MODULE MCGame ---------------------------------
(* One point in every cell, at the edges of the cells where there is one and  *)
(* on both buttons, and one point outside of all.                             *)
EXTENDS Game

MCPoint == { <<100, 100>>, <<266, 232>>, <<700, 100>>,
             <<265, 233>>, <<400, 320>>, <<533, 365>>,
             <<100, 500>>, <<400, 420>>, <<700, 500>>, <<99, 100>> }
==============================================================================
