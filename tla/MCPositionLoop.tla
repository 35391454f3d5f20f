--------------------------- MODULE MCPositionLoop ---------------------------
\* PositionLoop for TLC.
EXTENDS PositionLoop

MCFeeds == -3 .. 3

\* The ratio of the shipped configuration, and the component's defaults.
MCLimits == {<<7, 1>>, <<0, 0>>}
=============================================================================
