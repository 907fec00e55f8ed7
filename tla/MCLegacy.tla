------------------------------- MODULE MCLegacy ------------------------------
\* Legacy mode alone, for the promise of the settings page.
EXTENDS Legacy
=============================================================================
