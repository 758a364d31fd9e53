------------------------------- MODULE ZFile -------------------------------
(***************************************************************************)
(* ag_src/zfile.c: the stream that decompress_open makes of a compressed    *)
(* file, with a cookie that stdio calls zfile_read and zfile_close on.      *)
(*                                                                         *)
(* A compressed file is a sequence of units: file.upto[k] is the number of  *)
(* bytes that the first k come to, the i-th of these bytes is the number i, *)
(* and file.ending says what follows them.  inflate() and lzma_code() are   *)
(* one decoder, which takes units and makes bytes at a pace of its own.     *)
(***************************************************************************)
EXTENDS Integers, Sequences

CONSTANTS
  InSize,     \* units in cookie->inbuf
  OutSize,    \* bytes in cookie->outbuf
  ReadSize    \* what stdio asks of zfile_read, BUFSIZ

ASSUME ZFileAssumption ==
  InSize \in Nat \ {0} /\ OutSize \in Nat \ {0} /\ ReadSize \in Nat \ {0}

VARIABLES
  file,            \* the compressed file
  position,        \* how many of its units have been read from the descriptor
  zstate,          \* where zfile_read is; "closed" without a cookie
  avail_in,        \* units left in inbuf, which were the last to be read
  taken, made,     \* the decoder: units taken and bytes made
  outbuf, next_out, outbuf_start,
  logic_offset, decode_offset, eof,
  size, total,     \* a call of zfile_read: bytes still asked for, and returned
  ret              \* its result: "ok", "end", "error"

decoder == <<avail_in, taken, made, ret>>
window == <<outbuf, next_out, outbuf_start, logic_offset, decode_offset>>
call == <<size, total>>
zvars == <<file, position, zstate, decoder, window, eof, call>>

Endings == {"whole",     \* complete
            "cut",       \* nothing follows: the file has been truncated
            "damaged",   \* the next unit is none that the decoder accepts
            "more"}      \* complete, and another unit follows

-----------------------------------------------------------------------------
(* The decoder                                                              *)

Smaller(a, b) == IF a < b THEN a ELSE b

Units(f) == Len(f.upto)

\* The size of the file.
FileLength(f) ==
  Units(f) + (IF f.ending = "cut" THEN 0 ELSE IF f.ending = "more" THEN 2 ELSE 1)

\* The bytes that the first n units come to.
BytesOf(f, n) == IF n = 0 \/ f.upto = <<>> THEN 0 ELSE f.upto[Smaller(n, Units(f))]

TotalBytes(f) == BytesOf(f, Units(f))

\* The unit after the last one of the content ends the stream.
AtTrailer(f, n) == n > Units(f)

\* The decoder may take t more units and make m more bytes.  It stops where the
\* output is full or the input used up and all that it came to is made; it
\* takes the end of the stream when all the bytes are made, and nothing after.
Decodes(t, m, space) ==
  /\ made + m <= BytesOf(file, taken + t)
  /\ taken + t <= Units(file) + 1
  /\ AtTrailer(file, taken + t) =>
       /\ file.ending # "damaged"
       /\ made + m = TotalBytes(file)
  /\ \/ m = space
     \/ AtTrailer(file, taken + t)
     \/ t = avail_in /\ made + m = BytesOf(file, taken + t)

\* The decoder comes to the damage with room left for all that precedes it.
MeetsDamage(space) ==
  /\ file.ending = "damaged"
  /\ taken + avail_in > Units(file)
  /\ TotalBytes(file) - made <= space

-----------------------------------------------------------------------------
(* The cookie                                                               *)

NoBytes == [k \in 0..(OutSize - 1) |-> 0]

ZInit ==
  /\ zstate = "closed"
  /\ avail_in = 0 /\ taken = 0 /\ made = 0 /\ ret = "ok"
  /\ outbuf = NoBytes /\ next_out = 0 /\ outbuf_start = 0
  /\ logic_offset = 0 /\ decode_offset = 0
  /\ eof = FALSE
  /\ size = 0 /\ total = <<>>

\* decompress_open and zfile_cookie_init.
DecompressOpen ==
  /\ zstate = "closed"
  /\ zstate' = "idle"
  /\ avail_in' = 0 /\ taken' = 0 /\ made' = 0 /\ ret' = "ok"
  /\ next_out' = 0 /\ outbuf_start' = 0
  /\ logic_offset' = 0 /\ decode_offset' = 0
  /\ eof' = FALSE
  /\ UNCHANGED <<file, position, outbuf, call>>

\* zfile_read is called.
ReadCall ==
  /\ zstate = "idle"
  /\ ~eof
  /\ size' = ReadSize
  /\ total' = <<>>
  /\ ret' = "ok"
  /\ zstate' = "drain"
  /\ UNCHANGED <<file, position, avail_in, taken, made, window, eof>>

\* Fault: one byte too far.
DrainedPast(n) == outbuf_start + n + 1

\* Fault: what has been copied stays in the output buffer.
DrainedStays(n) == outbuf_start

DrainedTo(n) == outbuf_start + n

\* The output buffer is copied to the caller, as far as he asked.
Drain ==
  LET toread == Smaller(next_out - outbuf_start, size) IN
    /\ zstate = "drain"
    /\ total' = total \o [k \in 1..toread |-> outbuf[outbuf_start + k - 1]]
    /\ size' = size - toread
    /\ outbuf_start' = DrainedTo(toread)
    /\ decode_offset' = decode_offset + toread
    /\ logic_offset' = logic_offset + toread
    /\ eof' = (size' > 0 /\ ret = "end")
    /\ zstate' = IF size' = 0 \/ ret = "end" THEN "idle" ELSE "input"
    /\ UNCHANGED <<file, position, decoder, outbuf, next_out>>

\* More input, if there is none left.
FillInput ==
  LET nb == Smaller(InSize, FileLength(file) - position) IN
    /\ zstate = "input"
    /\ avail_in = 0
    /\ nb > 0
    /\ avail_in' = nb
    /\ position' = position + nb
    /\ zstate' = "inflate"
    /\ UNCHANGED <<file, taken, made, ret, window, eof, call>>

\* The end of the file instead of input: the program ends.
TruncatedFile ==
  /\ zstate = "input"
  /\ avail_in = 0
  /\ position >= FileLength(file)
  /\ zstate' = "exited"
  /\ UNCHANGED <<file, position, decoder, window, eof, call>>

InputLeft ==
  /\ zstate = "input"
  /\ avail_in > 0
  /\ zstate' = "inflate"
  /\ UNCHANGED <<file, position, decoder, window, eof, call>>

\* Fault: a decoder that has used up its input has come to the end.
EndsWithInput(t) ==
  IF AtTrailer(file, taken + t) \/ t = avail_in THEN "end" ELSE "ok"

ResultOf(t) == IF AtTrailer(file, taken + t) THEN "end" ELSE "ok"

\* The decoder fills the output buffer from its beginning.
Inflate ==
  /\ zstate = "inflate"
  /\ \E t \in 0..avail_in, m \in 0..OutSize :
       /\ Decodes(t, m, OutSize)
       /\ outbuf' = [k \in 0..(OutSize - 1) |->
                       IF k < m THEN made + k + 1 ELSE outbuf[k]]
       /\ next_out' = m
       /\ taken' = taken + t
       /\ made' = made + m
       /\ avail_in' = avail_in - t
       /\ ret' = ResultOf(t)
  /\ outbuf_start' = 0
  /\ zstate' = "drain"
  /\ UNCHANGED <<file, position, logic_offset, decode_offset, eof, call>>

\* What this call has copied already is lost to the caller, who is told of the
\* error only.
InflateFails ==
  /\ zstate = "inflate"
  /\ MeetsDamage(OutSize)
  /\ next_out' = 0 /\ outbuf_start' = 0
  /\ total' = <<>>
  /\ ret' = "error"
  /\ zstate' = "idle"
  /\ UNCHANGED <<file, position, avail_in, taken, made, outbuf, logic_offset,
                 decode_offset, eof, size>>

\* zfile_close; the descriptor is closed with cookie->in.
ZClose ==
  /\ zstate = "idle"
  /\ zstate' = "closed"
  /\ UNCHANGED <<file, position, decoder, window, eof, call>>

ZRead == ReadCall \/ Drain \/ FillInput \/ TruncatedFile \/ InputLeft \/ Inflate \/ InflateFails

-----------------------------------------------------------------------------
(* Properties                                                               *)

ZTypeOK ==
  /\ position \in Nat
  /\ zstate \in {"closed", "idle", "drain", "input", "inflate", "exited"}
  /\ avail_in \in Nat
  /\ taken \in Nat /\ made \in Nat
  /\ outbuf \in [0..(OutSize - 1) -> Nat]
  /\ next_out \in 0..OutSize /\ outbuf_start \in 0..next_out
  /\ logic_offset \in Nat /\ decode_offset \in Nat
  /\ eof \in BOOLEAN
  /\ size \in 0..ReadSize /\ total \in Seq(Nat)
  /\ ret \in {"ok", "end", "error"}
=============================================================================
