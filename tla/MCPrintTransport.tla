--------------------------- MODULE MCPrintTransport ---------------------------
(* Three bands of 2, 2 and 1 rows of 4 bytes, a cooldown after the first two. *)
(* The profiles write a band in several chunks that end inside its header,    *)
(* inside its raster and exactly at its end; one lacks the write              *)
(* characteristic, one has a chunk size of 0.                                 *)
EXTENDS PrintTransport

MCBands ==
    <<[startRow |-> 0, heightDots |-> 2, byteOffset |-> 0,  byteLength |-> 8, cools |-> TRUE],
      [startRow |-> 2, heightDots |-> 2, byteOffset |-> 8,  byteLength |-> 8, cools |-> TRUE],
      [startRow |-> 4, heightDots |-> 1, byteOffset |-> 16, byteLength |-> 4, cools |-> FALSE]>>

Complete == [writeChar |-> TRUE, filtered |-> TRUE, notify |-> <<"ff01", "ff03">>,
             chunkSize |-> 5]

MCProfiles ==
    {Complete,
     [Complete EXCEPT !.chunkSize = 8, !.notify = <<>>],
     [Complete EXCEPT !.chunkSize = 90, !.filtered = FALSE],
     [Complete EXCEPT !.chunkSize = 0],
     [Complete EXCEPT !.writeChar = FALSE]}
=============================================================================
