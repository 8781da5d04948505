------------------------------ MODULE TextBuffer ------------------------------
(* io::UTF8FileBuffer: a window that slides over a file, and on top of it     *)
(* io::UTF8FileTokBuffer, which splits what it reads at delimiters.           *)
EXTENDS Integers, SequencesExt

CONSTANTS
    Texts,       \* the files: sequences of kinds of bytes, see TextStream
    WindowSize,  \* WINDOW_SIZE, at least the size of a code point
    LineLength,  \* LINE_LENGTH of the tokenizer
    Delims       \* delim_tokens, as kinds of bytes

VARIABLES
    text,
    buffer,  \* the members of UTF8FileBuffer
    tokenizing,  \* whether the buffer belongs to a tokenizer
    line,    \* the token being read
    filling, \* where UTF8FileTokBuffer::read is: "out", "skip" or "fill";
             \* nobody asks on when it is "over"
    tokens   \* what it returned

bufferVars == <<text, buffer, tokenizing, line, filling, tokens>>

MaxCodePointSize == 4
Lesser(a, b) == IF a < b THEN a ELSE b

(* window is the buffer from its start to end_offset; taken is how much of    *)
(* the file was read into it; peeks holds peek_line and peek_column.          *)
ResetBuffer ==
    [window |-> <<>>, curr |-> 0, taken |-> 0, done |-> FALSE, atEnd |-> FALSE,
     scratch |-> <<>>, peeks |-> <<<<1, 1>>, <<0, 0>>>>, peek |-> 1, backtracked |-> FALSE]
Left(b) == Len(b.window) - b.curr
\* Whether line() or column() of the last code point is not 0.
DidRead(b) == b.peeks[3 - b.peek] # <<0, 0>>

Stream == INSTANCE TextStream WITH
    file <- text,
    offset <- buffer.taken - Left(buffer),
    point <- buffer.scratch,
    places <- IF buffer.backtracked
              THEN <<buffer.peeks[buffer.peek], buffer.peeks[3 - buffer.peek]>>
              ELSE <<buffer.peeks[3 - buffer.peek], buffer.peeks[buffer.peek]>>,
    returned <- buffer.backtracked,
    lost <- buffer.atEnd /\ ~ buffer.done

Buffers ==
    [window : Seq(Stream!Bytes), curr : Nat, taken : Nat, done : BOOLEAN, atEnd : BOOLEAN,
     scratch : Seq(Stream!Bytes), peeks : [1 .. 2 -> Nat \X Nat], peek : 1 .. 2,
     backtracked : BOOLEAN]

ASSUME BufferAssumption ==
    /\ Texts \subseteq Seq(Stream!Bytes)
    /\ WindowSize \in Nat /\ WindowSize >= MaxCodePointSize
    /\ LineLength \in Nat

BufferInit ==
    /\ text \in Texts /\ tokenizing \in BOOLEAN
    /\ buffer = ResetBuffer
    /\ line = <<>> /\ filling = "out" /\ tokens = <<>>

-----------------------------------------------------------------------------
(* UTF8FileBuffer *)

\* Slide and fill, when a code point might not be in the window any more.
FilledLate(b) ==
    LET amount == Lesser(WindowSize - Left(b), Len(text) - b.taken)
    IN  IF Left(b) > 0 \/ b.done THEN b
        ELSE [b EXCEPT !.window = SubSeq(@, b.curr + 1, Len(@)) \o SubSeq(text, b.taken + 1, b.taken + amount),
                       !.curr = 0, !.taken = @ + amount, !.done = amount < WindowSize - Left(b)]
Filled(b) ==
    LET amount == Lesser(WindowSize - Left(b), Len(text) - b.taken)
    IN  IF Left(b) >= MaxCodePointSize \/ b.done THEN b
        ELSE [b EXCEPT !.window = SubSeq(@, b.curr + 1, Len(@)) \o SubSeq(text, b.taken + 1, b.taken + amount),
                       !.curr = 0, !.taken = @ + amount, !.done = amount < WindowSize - Left(b)]

\* One code point into scratch; a rejected byte starts over behind it.
Take[unfilled \in Buffers] ==
    LET b   == Filled(unfilled)
        end == Stream!Decode(b.window, b.curr)
    IN  IF end[2] = Stream!Reject THEN Take[[b EXCEPT !.curr = end[1]]]
        ELSE [b EXCEPT !.curr = end[1], !.scratch = SubSeq(b.window, b.curr + 1, end[1])]

\* read: what is given back keeps its place.
ReadPoint(b0) ==
    IF b0.atEnd THEN [b0 EXCEPT !.scratch = <<>>]
    ELSE LET b == Take[b0]
             next == 3 - b.peek
         IN  IF b.backtracked THEN [b EXCEPT !.peek = next, !.backtracked = FALSE]
             ELSE [b EXCEPT !.peek = next, !.atEnd = b.scratch = <<>>,
                            !.peeks[next] = Stream!Advance(b.peeks[b.peek], b.scratch)]

Read == ~ tokenizing /\ buffer' = ReadPoint(buffer)

Unread ==
    /\ ~ tokenizing /\ ~ buffer.backtracked /\ DidRead(buffer)
    /\ buffer' = [buffer EXCEPT !.peek = 3 - @, !.backtracked = TRUE,
                                !.curr = @ - Len(buffer.scratch),
                                !.atEnd = @ /\ ~ buffer.done]

\* fseek, if something was read, may fail: a pipe or a terminal has no start to
\* go back to.
Reset ==
    /\ ~ tokenizing
    /\ \E sought \in BOOLEAN :
         buffer' = [ResetBuffer EXCEPT
                      !.taken = IF DidRead(buffer) /\ sought THEN 0 ELSE buffer.taken,
                      !.atEnd = DidRead(buffer) /\ ~ sought]

-----------------------------------------------------------------------------
(* UTF8FileTokBuffer::read, a code point at a time *)

IsDelim(cp) == cp # <<>> /\ cp[1] \in Delims

TokBegin ==
    /\ tokenizing /\ filling = "out"
    /\ line' = <<>> /\ filling' = "skip"
    /\ UNCHANGED <<buffer, tokens>>

TokSkipOne ==
    /\ filling = "skip"
    /\ buffer' = ReadPoint(buffer)
    /\ filling' = "fill"
    /\ UNCHANGED <<line, tokens>>
TokSkip ==
    /\ filling = "skip"
    /\ buffer' = ReadPoint(buffer)
    /\ filling' = IF IsDelim(buffer'.scratch) THEN "skip" ELSE "fill"
    /\ UNCHANGED <<line, tokens>>

TokFill ==
    /\ filling = "fill"
    /\ IF Len(line) < LineLength /\ buffer.scratch # <<>> /\ ~ IsDelim(buffer.scratch)
       THEN line' = line \o buffer.scratch /\ buffer' = ReadPoint(buffer) /\ UNCHANGED <<filling, tokens>>
       ELSE filling' = (IF line = <<>> THEN "over" ELSE "out") /\ tokens' = Append(tokens, line) /\ UNCHANGED <<line, buffer>>

BufferNext ==
    /\ \/ (Read \/ Unread \/ Reset) /\ UNCHANGED <<line, filling, tokens>>
       \/ TokBegin \/ TokSkip \/ TokFill
       \/ filling = "over" /\ UNCHANGED <<line, filling, tokens, buffer>>
    /\ UNCHANGED <<text, tokenizing>>
BufferSpec == BufferInit /\ [][BufferNext]_bufferVars

-----------------------------------------------------------------------------
\* The window cannot be seen: whatever is read, given back and read again, the
\* code points and their places are those of the file, also where the window
\* slid within a code point, between a read and its unread, or at the end; and
\* where seeking failed nothing is read until the next reset.
WindowHidden == Stream!StreamSpec

\* The tokens are what lies between delimiters, in order, none empty but the
\* one that says the file is over, if none is longer than a line.
Behind(token) == IF token = <<>> THEN <<>> ELSE <<token>>
\* What comes from an offset on, where a token may have begun.
TokensFrom(f, o, begun) ==
    LET from[x \in Nat \X Seq(Stream!Bytes)] ==
          LET read  == Stream!ReadAt(f, x[1])
              token == x[2]
          IN  IF read[1] = <<>> THEN Behind(token) \o <<<<>>>>
              ELSE IF IsDelim(read[1]) THEN Behind(token) \o from[<<read[2], <<>>>>]
              ELSE from[<<read[2], token \o read[1]>>]
    IN  from[<<o, begun>>]
AllTokens == TokensFrom(text, 0, <<>>)
TokensRight ==
    (\A i \in DOMAIN AllTokens : Len(AllTokens[i]) <= LineLength) => IsPrefix(tokens, AllTokens)
=============================================================================
