---------------------------- MODULE RecordCodec ----------------------------
(***************************************************************************)
(* The records the TCP transport writes on a yamux stream (hawse-proto's   *)
(* record.rs), the writer that cuts bytes into them and the reader that    *)
(* takes them out of whatever pieces arrive (transport/records.rs).        *)
(*                                                                         *)
(* A byte is a number below Base, so a length of two bytes counts to       *)
(* Base^2 - 1 and a code has four.                                         *)
(***************************************************************************)
EXTENDS Integers, SequencesExt

CONSTANT Base           \* 256

ASSUME BaseAssumption == Base \in Nat /\ Base > 2

Byte     == 0..(Base - 1)
DATA     == 0
FINISH   == 1
RESET    == 2
MAX_DATA == Base^2 - 1
Unknown  == 0           \* head_len of a tag this build does not know
NoCode   == <<>>

\* head_len: by its tag, how many bytes a header takes.
HeadLen(tag) == CASE tag = DATA   -> 3
                  [] tag = FINISH -> 1
                  [] tag = RESET  -> 5
                  [] OTHER        -> Unknown

DataHead(len)   == <<DATA, len % Base, len \div Base>>
ResetRecord(code) == <<RESET>> \o code

\* poll_write: one record of the bytes, never an empty one.
Record(bytes) == DataHead(Len(bytes)) \o bytes

(***************************************************************************)
(* The reader, a byte at a time: what it has of a header, or how much is   *)
(* left of a data record, and the bytes it has handed on.                  *)
(***************************************************************************)
AtHead  == [at |-> "head", head |-> <<>>, left |-> 0, code |-> NoCode]
AtData(n)    == [at |-> "data", head |-> <<>>, left |-> n, code |-> NoCode]
IsFinished   == [at |-> "finished", head |-> <<>>, left |-> 0, code |-> NoCode]
IsReset(c)   == [at |-> "reset", head |-> <<>>, left |-> 0, code |-> c]

\* decode: of a whole header; a data record of no bytes is none.
Decode(head) ==
    IF head[1] = FINISH THEN IsFinished
    ELSE IF head[1] = RESET THEN IsReset(SubSeq(head, 2, 5))
    ELSE IF head[2] + Base * head[3] = 0 THEN IsReset(NoCode)
    ELSE AtData(head[2] + Base * head[3])

TakeHead(head) ==
    IF HeadLen(head[1]) = Unknown THEN IsReset(NoCode)
    ELSE IF Len(head) < HeadLen(head[1]) THEN [AtHead EXCEPT !.head = head]
    ELSE Decode(head)

PollRead(r, byte) ==
    CASE r.state.at = "head" -> [r EXCEPT !.state = TakeHead(Append(@.head, byte))]
      [] r.state.at = "data" -> [r EXCEPT !.state = IF @.left = 1 THEN AtHead ELSE AtData(@.left - 1),
                                          !.bytes = Append(@, byte)]
      [] OTHER               -> r

ReadAll(wire) == FoldLeft(PollRead, [state |-> AtHead, bytes |-> <<>>], wire)

\* The stream ends, however yamux came to end it.
AtEof(r) == IF r.state.at \in {"finished", "reset"} THEN r
            ELSE [r EXCEPT !.state = IsReset(NoCode)]

-----------------------------------------------------------------------------
Wire(chunks, last) == FlattenSeq([k \in 1..Len(chunks) |-> Record(chunks[k])]) \o last

\* Of every prefix of what a writer sent, the reader hands on the bytes in it and no
\* others, and reads a clean end only when it has the whole of it, finish included.
PrefixReadsRight(chunks, last) ==
    LET wire == Wire(chunks, last)
        all  == FlattenSeq(chunks)
    IN  \A k \in 0..Len(wire) :
            LET r == AtEof(ReadAll(SubSeq(wire, 1, k)))
            IN  /\ IsPrefix(r.bytes, all)
                /\ r.state.at = "finished" <=> k = Len(wire) /\ last = <<FINISH>>
                /\ r.state.at = "finished" => r.bytes = all
                /\ r.state.code # NoCode => r.bytes = all /\ last = ResetRecord(r.state.code)
=============================================================================
