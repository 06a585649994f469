------------------------------- MODULE Lzf -------------------------------
(* The two algorithms of gekkota_lzf.c: a text is deflated, and the stream *)
(* that results is inflated again.  One action is one turn of the loop of  *)
(* gekkota_lzf_deflate or of gekkota_lzf_inflate; streams are sequences of *)
(* bytes as the code writes them.  The base of a byte and the widths of    *)
(* the fields in it are parameters, 256, 32 and 7 in the code.             *)
(*                                                                         *)
(* The hash table is abstracted: whatever the index of three bytes is      *)
(* (gekkota_lzf_index shifts by a count that is negative for most values), *)
(* its slot holds 0 or a position the loop has passed.  So the reference   *)
(* is any earlier position, or none.                                       *)
EXTENDS Integers, Sequences, SequencesExt

CONSTANTS Texts,     \* the texts that may be deflated, sequences of bytes
          Byte,      \* values of a byte
          Low,       \* values of the low field of a control byte
          Escape     \* greatest length the high field holds: more follows

ASSUME LzfAssumption ==
  /\ Low \in Nat \ {0} /\ Escape \in Nat \ {0}
  /\ Byte = (Escape + 1) * Low
  /\ Texts \subseteq Seq(0 .. Byte - 1) \ {<<>>}

\* GEKKOTA_MAX_LITERAL, GEKKOTA_MAX_OFFSET, GEKKOTA_MAX_REFERENCE.
MaxLiteral   == Low
MaxOffset    == Low * Byte
MaxReference == Byte + Escape + 1

VARIABLES lzf   \* the locals of the call under way, see IdleCall
lvars == <<lzf>>

IdleCall == [pc |-> "idle", source |-> <<>>, i |-> 0, literal |-> 0,
             deflated |-> <<>>, inflated |-> <<>>]

-----------------------------------------------------------------------------
(* gekkota_lzf_deflate.  Positions are those of the code: the first is 0.   *)

At(s, p) == s[p + 1]

\* The bytes from `first` (included) to `last` (excluded).
Slice(s, first, last) == SubSeq(s, first + 1, last)

Minimum(a, b) == IF a < b THEN a ELSE b

\* The pending literal, with its length in front; nothing if there is none.
Flush(text, i, literal) ==
  IF literal = 0 THEN <<>>
  ELSE <<(literal - 1) % Byte>> \o Slice(text, i - literal, i)

\* The three bytes at a position are worth a reference.
Repeats(text, r, i) ==
  /\ i < Len(text) - 2
  /\ i - r - 1 < MaxOffset
  /\ i + 4 < Len(text)
  /\ r > 0
  /\ \A k \in 0 .. 2 : At(text, r + k) = At(text, i + k)

\* How many bytes are equal, three at least, as many as a reference holds.
Matched(text, r, i) ==
  LET most == Minimum(Len(text) - i - 2, MaxReference)
  IN CHOOSE n \in 3 .. most :
       /\ \A k \in 0 .. n - 1 : At(text, r + k) = At(text, i + k)
       /\ n = most \/ At(text, r + n) # At(text, i + n)

\* Mutant: a length of exactly Escape is written without its second byte.
ReferenceShort(offset, length) ==
  IF length <= Escape
    THEN <<(offset \div Byte + length * Low) % Byte, offset % Byte>>
    ELSE <<(offset \div Byte + Escape * Low) % Byte,
           (length - Escape) % Byte, offset % Byte>>

\* The bytes of a reference: high part of the offset and length, the rest of
\* a long length, low part of the offset.
Reference(offset, length) ==
  IF length < Escape
    THEN <<(offset \div Byte + length * Low) % Byte, offset % Byte>>
    ELSE <<(offset \div Byte + Escape * Low) % Byte,
           (length - Escape) % Byte, offset % Byte>>

\* A text is given to deflate.
Begin ==
  /\ lzf.pc = "idle"
  /\ \E t \in Texts : lzf' = [lzf EXCEPT !.pc = "deflate", !.source = t]

\* Mutant: the pending literal is kept when it has been written.
LiteralKept ==
  /\ lzf.pc = "deflate" /\ lzf.i < Len(lzf.source)
  /\ LET full == lzf.literal + 1 = MaxLiteral
     IN lzf' = [lzf EXCEPT
          !.i = @ + 1,
          !.literal = IF full THEN MaxLiteral - 1 ELSE @ + 1,
          !.deflated = @ \o IF full THEN Flush(lzf.source, lzf.i + 1, MaxLiteral)
                                    ELSE <<>>]

\* A byte joins the pending literal, which is written when it is full.
Literal ==
  /\ lzf.pc = "deflate" /\ lzf.i < Len(lzf.source)
  /\ LET full == lzf.literal + 1 = MaxLiteral
     IN lzf' = [lzf EXCEPT
          !.i = @ + 1,
          !.literal = IF full THEN 0 ELSE @ + 1,
          !.deflated = @ \o IF full THEN Flush(lzf.source, lzf.i + 1, MaxLiteral)
                                    ELSE <<>>]

\* A reference takes the place of bytes that repeat earlier ones.
Refer ==
  /\ lzf.pc = "deflate"
  /\ \E r \in 1 .. lzf.i - 1 :
       /\ Repeats(lzf.source, r, lzf.i)
       /\ LET n == Matched(lzf.source, r, lzf.i)
          IN lzf' = [lzf EXCEPT
               !.i = @ + n,
               !.literal = 0,
               !.deflated = @ \o Flush(lzf.source, lzf.i, lzf.literal)
                              \o Reference(lzf.i - r - 1, n - 2)]

\* The end of the text: the rest is written, and the length of the text,
\* which takes TRAILER bytes in the code and one place here.
Complete ==
  /\ lzf.pc = "deflate" /\ lzf.i = Len(lzf.source)
  /\ lzf' = [lzf EXCEPT
       !.pc = "inflate", !.i = 0, !.literal = 0,
       !.deflated = @ \o Flush(lzf.source, lzf.i, lzf.literal)
                      \o <<Len(lzf.source)>>]

-----------------------------------------------------------------------------
(* gekkota_lzf_inflate, of what deflate made.                               *)

\* gekkota_lzf_get_inflated_length.
InflatedLength(stream) == Last(stream)

\* The copy of a reference is made byte by byte: it may overlap its origin.
Copy(out, r, n) ==
  LET copied[k \in 0 .. n] ==
        IF k = 0 THEN out ELSE Append(copied[k - 1], At(copied[k - 1], r + k - 1))
  IN  copied[n]

\* The loop goes on while there is room and something to read.
Inflating ==
  /\ lzf.pc = "inflate"
  /\ \/ lzf.inflated = <<>>
     \/ /\ Len(lzf.inflated) < InflatedLength(lzf.deflated)
        /\ lzf.i < Len(lzf.deflated)

CopyLiteral ==
  /\ Inflating
  /\ LET value == At(lzf.deflated, lzf.i)
     IN /\ value < Low
        /\ lzf' = [lzf EXCEPT
             !.i = @ + value + 2,
             !.inflated = @ \o Slice(lzf.deflated, lzf.i + 1, lzf.i + value + 2)]

CopyReference ==
  /\ Inflating
  /\ LET value  == At(lzf.deflated, lzf.i)
         long   == value \div Low = Escape
         length == IF long THEN Escape + At(lzf.deflated, lzf.i + 1)
                           ELSE value \div Low
         next   == lzf.i + IF long THEN 2 ELSE 1
         origin == Len(lzf.inflated) - (value % Low) * Byte - 1
                     - At(lzf.deflated, next)
     IN /\ value >= Low
        /\ lzf' = [lzf EXCEPT
             !.i = next + 1,
             !.inflated = Copy(@, origin, length + 2)]

\* The text has been read back, and the call returns.
Inflated ==
  /\ lzf.pc = "inflate" /\ ~Inflating
  /\ lzf' = [lzf EXCEPT !.pc = "inflated"]

Return ==
  /\ lzf.pc = "inflated"
  /\ lzf' = IdleCall

LzfInit == lzf = IdleCall

LzfNext == \/ Begin \/ Literal \/ Refer \/ Complete
           \/ CopyLiteral \/ CopyReference \/ Inflated \/ Return

LzfSpec == LzfInit /\ [][LzfNext]_lvars

-----------------------------------------------------------------------------
(* Properties.                                                              *)

\* What has been inflated is the beginning of the text that was deflated, for
\* every content of the hash table; at the end it is the whole text, and all
\* of the stream but the length of the text has been read.
InflatedIsSource ==
  /\ lzf.pc \in {"inflate", "inflated"} => IsPrefix(lzf.inflated, lzf.source)
  /\ lzf.pc = "inflated" =>
       lzf.inflated = lzf.source /\ lzf.i = Len(lzf.deflated) - 1

\* A text grows by one byte for every MaxLiteral bytes at most: a reference
\* is never longer than what it stands for, even where it cuts a literal
\* short.  (gekkota_lzf_get_max_deflated_length allows less for texts of
\* more than some 130 bytes.)
ExpansionBounded ==
  lzf.pc = "deflate" =>
    Len(lzf.deflated) + (IF lzf.literal > 0 THEN lzf.literal + 1 ELSE 0)
      <= lzf.i + (lzf.i + MaxLiteral - 1) \div MaxLiteral
=============================================================================
