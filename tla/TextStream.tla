------------------------------ MODULE TextStream ------------------------------
(* What io::UTF8FileBuffer promises its readers: the code points of a file,   *)
(* one after the other, with the line and column of the last one, and one     *)
(* code point of look-ahead that may be given back.  There is no window here. *)
(* In some files, a pipe or a terminal, nobody can seek: after a reset such a *)
(* file is lost, and reads as if it were at its end.                          *)
EXTENDS Integers, Sequences

(* A file is a sequence of kinds of bytes: "char" (printable ASCII and space),*)
(* "delim" (one that splits tokens), "nl", "tab", "ctrl" (other ASCII, not    *)
(* printable), "lead2", "lead3", "lead4", "cont" and "bad".  A byte of kind    *)
(* lead3, e.g., begins three bytes; which continuation bytes may follow which *)
(* lead is left out.                                                          *)

VARIABLES
    file,
    offset,    \* of the next byte, from 0
    point,     \* the last code point, a sequence of bytes; <<>> at the end
    places,    \* <<line, column>> of the last code point, and of the next
    returned,  \* whether the last code point was given back
    lost       \* whether seeking failed at the last reset

streamVars == <<file, offset, point, places, returned, lost>>

Bytes == {"char", "delim", "nl", "tab", "ctrl", "lead2", "lead3", "lead4", "cont", "bad"}

\* How many continuation bytes a first byte wants, or that it is none.
Accept == 0
Reject == 12
Wanted(byte) ==
    CASE byte = "lead2" -> 1 [] byte = "lead3" -> 2 [] byte = "lead4" -> 3
      [] byte \in {"cont", "bad"} -> Reject [] OTHER -> 0

\* utf8::decode over the bytes behind an offset: the offset where it stops, and
\* whether it accepts what it has read.  A code point that the end of the bytes
\* cuts off is taken for accepted.
Decode(bytes, o) ==
    LET want  == Wanted(bytes[o + 1])
        wrong == {k \in 1 .. want : o + 1 + k <= Len(bytes) /\ bytes[o + 1 + k] # "cont"}
        first == CHOOSE k \in wrong : \A n \in wrong : k <= n
    IN  IF o >= Len(bytes) THEN <<o, Accept>>
        ELSE IF want = Reject THEN <<o + 1, Reject>>
        ELSE IF wrong # {} THEN <<o + 1 + first, Reject>>
        ELSE <<IF o + 1 + want <= Len(bytes) THEN o + 1 + want ELSE Len(bytes), Accept>>

\* The code point that is read at an offset, and the offset behind it.  What a
\* byte spoils is skipped with it; the file may end within a code point.
ReadAt(f, o) ==
    LET at[i \in Nat] ==
          LET end == Decode(f, i)
          IN  IF end[2] = Reject THEN at[end[1]] ELSE <<SubSeq(f, i + 1, end[1]), end[1]>>
    IN  at[o]

TabSize == 4
Advance(p, cp) ==
    CASE cp = <<>> -> p
      [] cp = <<"nl">> -> <<p[1] + 1, 1>>
      [] cp = <<"tab">> -> <<p[1], p[2] + TabSize>>
      [] cp = <<"ctrl">> -> p
      [] OTHER -> <<p[1], p[2] + 1>>

Start == <<<<0, 0>>, <<1, 1>>>>
SomethingRead == places[1] # <<0, 0>>

StreamInit ==
    /\ offset = 0 /\ point = <<>> /\ places = Start /\ returned = FALSE /\ lost = FALSE

\* A code point that was given back is read again, at the place it had.
StreamRead ==
    /\ ~ lost
    /\ point' = ReadAt(file, offset)[1] /\ offset' = ReadAt(file, offset)[2]
    /\ places' = IF returned THEN places ELSE <<places[2], Advance(places[2], point')>>
    /\ returned' = FALSE
    /\ UNCHANGED <<file, lost>>

\* Nobody gives back what he has not read.
StreamUnread ==
    /\ SomethingRead /\ ~ returned /\ returned' = TRUE
    /\ offset' = offset - Len(point)
    /\ UNCHANGED <<file, point, places, lost>>

\* Only a file that was read from is sought in.  If that fails, what had been
\* read ahead is gone, and the next reset goes on behind it.
StreamReset ==
    /\ point' = <<>> /\ places' = Start /\ returned' = FALSE
    /\ \/ SomethingRead /\ offset' = 0 /\ lost' = FALSE
       \/ SomethingRead /\ offset' \in offset .. Len(file) /\ lost' = TRUE
       \/ ~ SomethingRead /\ offset' = offset /\ lost' = FALSE
    /\ UNCHANGED file

StreamNext == StreamRead \/ StreamUnread \/ StreamReset
StreamSpec == StreamInit /\ [][StreamNext]_streamVars
=============================================================================
