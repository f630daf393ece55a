--------------------------- MODULE MCNetDownload ----------------------------
(* Instances of NetDownload with two transfers.                            *)
EXTENDS NetDownload

\* Disjoint buffers, each of two chunks of which the last is short.
AddrApart == <<0, 3>>
SizeApart == <<3, 3>>

\* The same buffer twice.
AddrSame == <<0, 0>>
SizeSame == <<2, 2>>
=============================================================================
