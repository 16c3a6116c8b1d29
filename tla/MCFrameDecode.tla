---------------------------- MODULE MCFrameDecode ----------------------------
EXTENDS FrameDecode

\* Headers too short, minimal, with options and longest; data offsets that are
\* too small, minimal and largest.
MCAt14 == [version : {4, 6}, ihl : {0, 4, 5, 6, 15}, proto : {1, 6, 17}, doff : {4, 5, 15}]

\* A destination address that is no version, IPv4 or IPv6 without an Ethernet header.
MCAt0 ==
  [version : {0}, ihl : {5}, proto : {0}, doff : {5}] \cup
  [version : {4, 6}, ihl : {5}, proto : {6, 89}, doff : {5}]

\* The header of a loopback adapter in front of IPv4, or not.
MCAt4 == [version : {4}, ihl : {5, 15}, proto : {0, 17}, doff : {5}]
=============================================================================
