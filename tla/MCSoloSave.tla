----------------------------- MODULE MCSoloSave -----------------------------
\* Instances of SoloSave for TLC.
EXTENDS SoloSave
=============================================================================
