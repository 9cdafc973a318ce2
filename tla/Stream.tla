------------------------------- MODULE Stream -------------------------------
(***************************************************************************)
(* The buffer every request is written to and every response is read from: *)
(* BinaryStreamBase of stream/binary_stream.py, a BytesIO with a position. *)
(*                                                                         *)
(* A byte is <<v, i, w>>, the i-th of the w bytes of the number, code or   *)
(* text v, whatever the byte order.  Reading w bytes gives v back exactly  *)
(* when they are the w bytes some field was written as; any other w bytes  *)
(* are Junk.  A reader that starts one byte off, or asks for the wrong     *)
(* width, therefore sees Junk and never a plausible number.                *)
(*                                                                         *)
(* A stream carries the exception that stopped its writer or reader: every *)
(* operation on a stream in error leaves it as it is.                      *)
(***************************************************************************)
EXTENDS Integers, Sequences

NoError == ""
Junk == <<"junk">>          \* every field value is a tuple, so is this one
Pad == <<<<"pad">>, 1, 1>>  \* BytesIO fills a gap left by seek with zeros
None == <<"none">>
Num(n) == <<"n", n>>        \* the value of a numeric field

\* compact: the compact_footer property, which is the client's.
Over(buf, compact) == [buf |-> buf, pos |-> 0, err |-> NoError, compact |-> compact]
Empty(compact) == Over(<<>>, compact)

Raise(s, what) == IF s.err = NoError THEN [s EXCEPT !.err = what] ELSE s
Raised(s) == s.err # NoError

\* The bytes of a field of width w.
Bytes(v, w) == [i \in 1..w |-> <<v, i, w>>]

\* seek(n) and seek(n, SEEK_CUR)
Seek(s, n) == IF Raised(s) THEN s ELSE [s EXCEPT !.pos = n]
Skip(s, n) == Seek(s, s.pos + n)

\* write(buf): over what is there, past the end behind zeros, and the position moves.
Pads(n) == [i \in 1..n |-> Pad]
Overwritten(buf, at, bytes) ==
  (IF at <= Len(buf) THEN SubSeq(buf, 1, at) ELSE buf \o Pads(at - Len(buf)))
    \o bytes \o SubSeq(buf, at + Len(bytes) + 1, Len(buf))
Write(s, bytes) == IF Raised(s) THEN s
                   ELSE [s EXCEPT !.pos = @ + Len(bytes), !.buf = Overwritten(@, s.pos, bytes)]

Put(s, v, w) == Write(s, Bytes(v, w))

\* slice(start, n): the bytes that are there, fewer at the end of the buffer.
Slice(s, start, n) ==
  SubSeq(s.buf, start + 1, IF start + n < Len(s.buf) THEN start + n ELSE Len(s.buf))

\* The number that w bytes from start hold: int.from_bytes of a slice, a field of read_ctype.
Whole(b, w) == IF w > 0 /\ Len(b) = w /\ b[1] = <<b[1][1], 1, w>> /\ b = Bytes(b[1][1], w) THEN b[1][1] ELSE Junk
FieldAt(s, start, w) == Whole(Slice(s, start, w), w)

\* The field at the position; the structure read backwards ends at the position.
Peek(s, w) == FieldAt(s, s.pos, w)
=============================================================================
