---------------------------- MODULE MCSearchFile ----------------------------
(***************************************************************************)
(* SearchFile on small files, with the settings that change its course.     *)
(***************************************************************************)
EXTENDS SearchFile

\* Empty content, units that come to nothing, to a byte, to more than outbuf
\* holds, and content longer than one read of the stream.
MCCompressed ==
  [upto : {<<>>, <<0, 2>>, <<1, 1, 2>>, <<3>>, <<1, 5>>}, ending : Endings]

Usual == [mmap |-> TRUE, search_zip_files |-> FALSE, search_binary_files |-> FALSE,
          literal |-> TRUE, dot |-> FALSE, fopencookie |-> TRUE]

Reading == [Usual EXCEPT !.mmap = FALSE]

Zip == [Usual EXCEPT !.search_zip_files = TRUE]

MCOptions ==
  {Usual, Reading, Zip,
   [Usual EXCEPT !.literal = FALSE, !.dot = TRUE],
   [Reading EXCEPT !.search_binary_files = TRUE],
   [Zip EXCEPT !.fopencookie = FALSE],
   [Zip EXCEPT !.mmap = FALSE, !.search_binary_files = TRUE],
   [Zip EXCEPT !.mmap = FALSE, !.fopencookie = FALSE, !.search_binary_files = TRUE]}
=============================================================================
