----------------------------- MODULE MCDesktop -----------------------------
\* Desktop with its two owners of windows, and real minutes.
EXTENDS Desktop, MCText

MCOwners == {"desktop", "application"}
=============================================================================
