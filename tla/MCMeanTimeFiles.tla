-------------------------- MODULE MCMeanTimeFiles ---------------------------
(* Instantiates MeanTimeFiles for TLC with two benchmark names.            *)
EXTENDS MeanTimeFiles

CONSTANTS b1, b2

\* Records: one value for either name, and a two-field record for b1 that
\* disagrees with the one-field records on the field count.
MCLines == {<<b1, <<2>>>>, <<b2, <<8>>>>, <<b1, <<2, 8>>>>}

\* Records of two values each, for the ordering and duplicate checks.
MCUniformLines == {<<b1, <<2>>>>, <<b2, <<8>>>>}
=============================================================================
