---------------------------- MODULE MCNetUpload -----------------------------
(* An instance of NetUpload with two sections.                             *)
EXTENDS NetUpload

\* Sections of two and three chunks, the second below the first.
BaseGrowing == <<3, 0>>
SizeGrowing == <<2, 3>>
=============================================================================
