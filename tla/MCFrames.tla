------------------------------ MODULE MCFrames ------------------------------
EXTENDS Frames

(* Radix 3: frames of up to eight bytes, data of up to four. *)
MCClientData == {<< >>, <<2>>, <<0, 1, 2, 1>>}

(* A long chat message comes back from the server longer than it was, and may be
   beyond what fits.                                                            *)
MCServerData == MCClientData \cup {<<0, 1, 2, 1, 2>>}
=============================================================================
