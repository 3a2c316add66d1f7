---------------------------- MODULE MCLivePreview ----------------------------
(* LivePreview for TLC: a long division with two pages and a worksheet.      *)
EXTENDS LivePreview
=============================================================================
