----------------------------- MODULE Redaction -----------------------------
(***************************************************************************)
(* secretWriter (internal/backup/secrets.go): the standard error of every  *)
(* tool of a run goes through one writer, in chunks of any size from one   *)
(* goroutine per tool, under a mutex.  It holds a line back until its end, *)
(* so that a secret cut in two by a chunk is still found, and gives up a   *)
(* line that outgrows its buffer.                                          *)
(*                                                                         *)
(* Text is a sequence of symbols; NL ends a line.                          *)
(***************************************************************************)
EXTENDS Naturals, Sequences, SequencesExt

CONSTANTS Symbols,   \* of the tools' diagnostics, without NL
          NL,
          Secrets,   \* the strings to hide, in the order they are replaced
          Redacted,  \* "[REDACTED]", "[REDACTED URI]"
          Omitted,   \* "[oversized tool log line omitted]"
          Limit,     \* 65536 bytes
          MaxChunk,  \* bound: symbols in one Write
          MaxText    \* bound: symbols written altogether

\* A newline in the passphrase or the URI is refused (config.go:77, 131).
ASSUME RedactionAssumption ==
  /\ NL \notin Symbols /\ {Redacted, Omitted} \cap (Symbols \cup {NL}) = {}
  /\ Secrets \in Seq(Seq(Symbols) \ {<<>>})
  /\ Limit \in Nat /\ MaxChunk \in Nat /\ MaxText \in Nat

VARIABLES chunk,     \* what a Write has yet to take; the mutex is held until it is empty
          pending,   \* the line so far
          dropping,  \* the line has outgrown the buffer
          dst,       \* what has reached the log
          flushed,   \* Flush has been called: every tool has ended
          written    \* history: all that has been taken of the tools' text

writerVars == <<chunk, pending, dropping, dst, flushed, written>>

WriterInit ==
  /\ chunk = <<>> /\ pending = <<>> /\ dropping = FALSE /\ dst = <<>> /\ flushed = FALSE
  /\ written = <<>>

\* strings.ReplaceAll
Hide(s, old) ==
  LET from[i \in 1..Len(s) + 1] ==
        IF i > Len(s) THEN <<>>
        ELSE IF IsPrefix(old, SubSeq(s, i, Len(s))) THEN <<Redacted>> \o from[i + Len(old)]
        ELSE <<s[i]>> \o from[i + 1]
  IN from[1]

Emit(line) ==
  LET hidden[n \in 0..Len(Secrets)] ==
        IF n = 0 THEN line ELSE Hide(hidden[n - 1], Secrets[n])
  IN hidden[Len(Secrets)]

Ends(part) == Last(part) = NL

Late(part) == Len(pending) > Limit
Overflows(part) == Len(pending) + Len(part) > Limit

\* Without dropping: a full buffer is written out and the line goes on.
TakeSpilling(part) ==
  LET line == IF Overflows(part) THEN part ELSE pending \o part
      before == IF Overflows(part) THEN dst \o Emit(pending) ELSE dst
  IN /\ dropping' = FALSE
     /\ pending' = IF Ends(part) THEN <<>> ELSE line
     /\ dst' = IF Ends(part) THEN before \o Emit(line) ELSE before

Take(part) ==
  LET drops == dropping \/ Overflows(part)
      line == IF drops THEN <<>> ELSE pending \o part
  IN IF Ends(part)
     THEN /\ pending' = <<>> /\ dropping' = FALSE
          /\ dst' = dst \o (IF drops THEN <<Omitted, NL>> ELSE Emit(line))
     ELSE pending' = line /\ dropping' = drops /\ UNCHANGED dst

Write(p) ==
  /\ ~flushed /\ chunk = <<>> /\ Len(written) + Len(p) <= MaxText
  /\ chunk' = p
  /\ UNCHANGED <<pending, dropping, dst, flushed, written>>

\* One turn of the loop of Write: up to and with the first newline.
TakePart ==
  \E end \in DOMAIN chunk :
    LET part == SubSeq(chunk, 1, end)
    IN /\ \A i \in 1..end - 1 : chunk[i] # NL
       /\ Ends(part) \/ end = Len(chunk)
       /\ Take(part)
       /\ chunk' = SubSeq(chunk, end + 1, Len(chunk))
       /\ written' = written \o part
       /\ UNCHANGED flushed

\* withRunner returns, after every tool and every copying goroutine.
Flush ==
  /\ ~flushed /\ chunk = <<>> /\ flushed' = TRUE
  /\ dst' = IF dropping THEN dst ELSE dst \o Emit(pending)
  /\ pending' = <<>> /\ dropping' = FALSE
  /\ UNCHANGED <<chunk, written>>

Closed == flushed /\ UNCHANGED writerVars

WriterNext ==
  \/ TakePart \/ Flush \/ Closed
  \/ \E p \in BoundedSeq(Symbols \cup {NL}, MaxChunk) \ {<<>>} : Write(p)

WriterSpec == WriterInit /\ [][WriterNext]_writerVars

-----------------------------------------------------------------------------
(* Properties.                                                             *)

(***************************************************************************)
(* No secret that the tools wrote is in the log as a whole, wherever       *)
(* chunks, lines and the limit of the buffer cut the text.                 *)
(***************************************************************************)
NoSecretLogged == \A i \in DOMAIN Secrets : Secrets[i] \notin SubSeqs(dst)

(***************************************************************************)
(* The log does not depend on how the text was cut into chunks: it is      *)
(* what one who reads the text symbol by symbol has seen, every complete   *)
(* line redacted, or the note in place of an oversized one; the end        *)
(* flushes an unfinished line (secrets.go:41-81).                          *)
(***************************************************************************)
Logged(line) ==
  IF Len(line) > Limit THEN (IF Ends(line) THEN <<Omitted, NL>> ELSE <<>>) ELSE Emit(line)

ReadOn(seen, c) ==
  LET line == Append(seen.line, c)
  IN IF c = NL THEN [line |-> <<>>, log |-> seen.log \o Logged(line)]
     ELSE [seen EXCEPT !.line = line]

Read(text) ==
  LET at[n \in 0..Len(text)] ==
        IF n = 0 THEN [line |-> <<>>, log |-> <<>>] ELSE ReadOn(at[n - 1], text[n])
  IN at[Len(text)]

LogFollowsText ==
  dst = Read(written).log \o (IF flushed THEN Logged(Read(written).line) ELSE <<>>)

(***************************************************************************)
(* A tool that never ends a line does not make the writer hold more than   *)
(* its limit (secrets.go:54).                                              *)
(***************************************************************************)
BoundedBuffer == Len(pending) <= Limit
=============================================================================
