--------------------------- MODULE MCDerivatives ----------------------------
(***************************************************************************)
(* Bars of two ticks of the clock, read two back by the RSI and further by *)
(* others; a mean of two, smoothed by two.                                 *)
(***************************************************************************)
EXTENDS Derivatives

\* A deeper count beside the RSI's, and two spans, the longer of which holds two
\* bars however the gaps fall.
MCReadSets == {{Elems(2), Elems(3)}, {Elems(2), Over(2), Over(6)}}

\* What ReadsAsIfAlone asks of the graphs it is checked on.
ASSUME CountsHeld == Reaching

=============================================================================
