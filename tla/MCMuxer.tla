------------------------------- MODULE MCMuxer --------------------------------
EXTENDS Muxer

\* Registration masks: read interest, or none (a registered fd whose
\* events update switches off and on).  Peers raise only the events some
\* mask asks for; poll ignores the others.
MCMasks == {{"in"}, {}}

\* The liveness run: one read registration per fd.
MCMasksIn == {{"in"}}

====
