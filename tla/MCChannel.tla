------------------------------ MODULE MCChannel ------------------------------
(***************************************************************************)
(* Channel for TLC: bytes are bits, so that eight of them hold 255.        *)
(***************************************************************************)
EXTENDS Channel

MCMagic   == <<1, 0, 1>>
MCChunks  == {<< >>, <<0, 1>>}
MCOffsets == {U64Max - 2}
=============================================================================
