----------------------------- MODULE MCTransfer -----------------------------
(* An instance of Transfer for TLC, with the checksum of Crc32. *)
EXTENDS Transfer, Crc32

MCOrigin == <<49>>
\* The third is too long for the server; the last is too long for the header,
\* which announces a length of 3.
MCTexts ==
  { <<104, 105, 32>>, <<32>>, <<104, 105, 104, 105, 32>>, [i \in 1..11 |-> 32] }

\* None of them long.
MCShortTexts == { <<104, 105, 32>> }

\* a, d/a, d\a and aaa fit or do not fit the bytes of a header; a\ leaves no name.
MCPaths ==
  { <<97>>, <<100, 47, 97>>, <<100, 92, 97>>, <<97, 97, 97>>, <<97, 92>> }

\* Up to the limit and one byte above, with zeros inside and at the end.
MCSmall ==
  { <<>>, <<0>>, <<200>>, <<0, 200>>, <<200, 0>>, <<1, 0, 255>>, <<7, 7, 7>>,
    <<1, 2, 3, 0>> }

\* And one that a header cannot announce.
MCContents == MCSmall \cup {[i \in 1..11 |-> i]}

\* The constructor and the reader pass no seed, which stands for all ones.
MCchecksum(data) == get_crc32(data, AllOnes)

\* The checksum is the CRC-32 of the bytes: table and polynomial agree, a buffer
\* gives the remainder of the bitwise division, and a file read in parts gives
\* the same, inverted.  (crc32.cpp, crc32.hpp:54.)
ChecksumsAgree ==
  /\ TableIsOfThePolynomial
  /\ file.bytes \in MCSmall =>
       /\ get_crc32(file.bytes, AllOnes) = Remainder(file.bytes, AllOnes)
       /\ stream_crc32(file.bytes, AllOnes)
            = XorWord(Remainder(file.bytes, AllOnes), AllOnes)
  /\ message # Nothing => message.checksum \in Word

\* The overload for a file name gives the checksum of the file.  (crc32.hpp:
\* "Calculate crc32 of a file".)
FileNameChecksum ==
  filename_crc32(file.bytes, AllOnes) = XorWord(Remainder(file.bytes, AllOnes), AllOnes)
=============================================================================
