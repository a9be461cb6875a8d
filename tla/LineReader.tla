------------------------------ MODULE LineReader ------------------------------
(***************************************************************************)
(* From bytes to lines: POSIXclient::handle appends what one read returns  *)
(* to clientext::buff, and the loop every program runs after it            *)
(* (server.cpp:234-238, raildriver.cpp:369-373, trainsimulator.cpp) takes  *)
(* lines out of it with clientext::ReadLine until it returns "".  ReadLine  *)
(* calls itself last thing, so each evaluation of its body is a step here. *)
(*                                                                         *)
(* TCP keeps the bytes and their order but not the boundaries of writes, so *)
(* a read returns any prefix of what is on its way.  Streams have no NUL:  *)
(* buff += data ends at one (see the README).                              *)
(***************************************************************************)
EXTENDS Integers, Sequences

CONSTANTS
  Letter,     \* the bytes a line is made of
  CR, LF,     \* the two bytes that end a line
  MaxStream,  \* bound: the bytes a peer writes
  Chunk       \* the bytes one read returns at most (1024 in the code)

ASSUME LineReaderAssumption ==
  /\ CR # LF
  /\ {CR, LF} \cap Letter = {}
  /\ MaxStream \in Nat
  /\ Chunk \in Nat \ {0}

VARIABLES
  arrived,   \* the bytes read so far
  coming,    \* the bytes still to be read
  buff,      \* clientext::buff
  draining,  \* the loop that calls ReadLine runs
  lines      \* the lines handed to ParseLine, in order

vars == <<arrived, coming, buff, draining, lines>>

Ends == {CR, LF}

Init ==
  /\ arrived = <<>>
  /\ coming \in UNION {[1..n -> Letter \cup Ends] : n \in 0..MaxStream}
  /\ buff = <<>>
  /\ draining = FALSE
  /\ lines = <<>>

\* POSIXclient::handle reads n bytes, and the loop begins.
Handle(n) ==
  /\ ~ draining
  /\ n <= Len(coming)
  /\ arrived' = arrived \o SubSeq(coming, 1, n)
  /\ coming' = SubSeq(coming, n + 1, Len(coming))
  /\ buff' = buff \o SubSeq(coming, 1, n)
  /\ draining' = TRUE
  /\ UNCHANGED lines

\* find_first_of("\r\n") stops at byte i of b.
FirstEnd(b, i) == b[i] \in Ends /\ \A h \in 1..i - 1 : b[h] \notin Ends

\* find_first_of returns npos and ReadLine "": what is left of buff stays for the next read.
NoLine ==
  /\ draining
  /\ \A i \in 1..Len(buff) : buff[i] \notin Ends
  /\ draining' = FALSE
  /\ UNCHANGED <<arrived, coming, buff, lines>>

\* (Mutant: both bytes after a line are taken for its end.)
ReadLine2(i) ==
  LET line == SubSeq(buff, 1, i - 1)
      rest == SubSeq(buff, i + 2, Len(buff))
  IN  /\ draining
      /\ FirstEnd(buff, i)
      /\ buff' = rest
      /\ lines' = IF line = <<>> THEN lines ELSE Append(lines, line)
      /\ draining' = (line # <<>> \/ rest # <<>>)
      /\ UNCHANGED <<arrived, coming>>

\* One evaluation of clientext::ReadLine, with an end at byte i of buff.  An empty line
\* with bytes behind it: it calls itself; with none: it returns "", and the loop is
\* over.  Any other line is handled, and the loop calls again.
ReadLine(i) ==
  LET line == SubSeq(buff, 1, i - 1)
      rest == SubSeq(buff, i + 1, Len(buff))
  IN  /\ draining
      /\ FirstEnd(buff, i)
      /\ buff' = rest
      /\ lines' = IF line = <<>> THEN lines ELSE Append(lines, line)
      /\ draining' = (line # <<>> \/ rest # <<>>)
      /\ UNCHANGED <<arrived, coming>>

Next ==
  \/ \E n \in 1..Chunk : Handle(n)
  \/ \E i \in 1..Len(buff) : ReadLine(i)
  \/ NoLine

Spec == Init /\ [][Next]_vars
-------------------------------------------------------------------------------
\* The lines of a text, by where they stand in it: the longest runs of letters that an
\* end follows.
LineSpans(t) ==
  {s \in (1..Len(t)) \X (1..Len(t)) :
     /\ s[2] < Len(t)
     /\ \A i \in s[1]..s[2] : t[i] \notin Ends
     /\ s[1] <= s[2]
     /\ t[s[2] + 1] \in Ends
     /\ s[1] = 1 \/ t[s[1] - 1] \in Ends}

\* ls has the text of each of these spans, once, in order.
Renders(ls, t, spans) ==
  \E at \in [1..Len(ls) -> spans] :
    /\ \A i, j \in 1..Len(ls) : i < j => at[i][2] < at[j][1]
    /\ \A s \in spans : \E i \in 1..Len(ls) : at[i] = s
    /\ \A i \in 1..Len(ls) : ls[i] = SubSeq(t, at[i][1], at[i][2])

\* However the stream is cut into reads, also between the two bytes that end a line
\* or inside a name, the lines handled after each read are those of the bytes read so
\* far, all of them, once and in order: none is left in buff until the peer writes
\* again (client.cpp:55-79 and 252-262).
SameLines == ~ draining => Renders(lines, arrived, LineSpans(arrived))
===============================================================================
