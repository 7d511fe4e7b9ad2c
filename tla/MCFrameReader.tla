---------------------------- MODULE MCFrameReader ----------------------------
\* Streams for FrameReader: every sequence of the delimiters, and longer ones of the
\* start byte, the end byte and another one.
EXTENDS FrameReader

AllStreams == [1..5 -> {10, 13, 170, 85}] \cup [1..6 -> {170, 85, 1}]
Both == {"newline", "sync"}
=============================================================================
