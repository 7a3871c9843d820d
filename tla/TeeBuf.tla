------------------------------- MODULE TeeBuf -------------------------------
(***************************************************************************)
(* The log output of src/common/verbose.cpp: the stream buffer logbuf, a  *)
(* basic_teebuf that copies every character to std::cout's buffer (sb1)  *)
(* and, once a log file is set, to the buffer of the ofstream outfile     *)
(* (sb2), and the functions logFile and logApplication that open the log  *)
(* file and attach it.                                                    *)
(*                                                                         *)
(* The teebuf has no put area, so every character passes through          *)
(* overflow, which is an action.  The file buffer is modelled as writing  *)
(* through: a character put to an open filebuf is in the file, one put to *)
(* a closed filebuf is refused (sputc returns eof).  The console buffer   *)
(* may refuse a character when ConsoleMayFail (stdout closed or full).    *)
(* Characters and file names are strings; a file name is what open is     *)
(* called with, so logApplication's strcat is string concatenation.       *)
(***************************************************************************)
EXTENDS Integers, Sequences, SequencesExt

CONSTANTS
  Chars,          \* characters written to the log streams
  EOF,            \* traits::eof(), a model value distinct from every char
  NULL,           \* the null pointer, as a file name and as sb2
  Names,          \* file names logFile is called with (NULL excluded)
  Apps,           \* application names logApplication is called with
  Unopenable,     \* file names outfile.open fails on
  ConsoleMayFail, \* whether std::cout's buffer may refuse a character
  MaxLog          \* bound on the characters written to the console

FileNames == Names \cup {a \o ".log" : a \in Apps}

ASSUME /\ EOF \notin Chars /\ NULL \notin FileNames
       /\ Unopenable \subseteq FileNames
       /\ ConsoleMayFail \in BOOLEAN /\ MaxLog \in Nat

OUTFILE == "outfile.rdbuf()"   \* the only tee target the code ever sets

VARIABLES
  console,  \* characters accepted by std::cout's buffer
  files,    \* contents of every file that may be opened
  is_open,  \* outfile.is_open()
  opened,   \* the file outfile has open, NULL when none
  sb2,      \* logbuf.sb2: NULL or outfile's filebuf
  last,     \* history: the last overflow call, what it returned and
            \* whether both buffers accepted the character
  openlen   \* history: Len(console) when outfile was last opened

vars == <<console, files, is_open, opened, sb2, last, openlen>>

NoCall == [ch |-> EOF, ret |-> EOF, delivered |-> TRUE]

(* The global constructors: teebuf logbuf(std::cout.rdbuf(), NULL) and a  *)
(* default-constructed, closed std::ofstream outfile.                      *)
Init ==
  /\ console = <<>>
  /\ files = [f \in FileNames |-> <<>>]
  /\ is_open = FALSE
  /\ opened = NULL
  /\ sb2 = NULL
  /\ last = NoCall
  /\ openlen = 0

(* sync, called by set_tee: both pubsyncs flush buffers this model does   *)
(* not have, and set_tee discards the result.  set_tee(tee) then is       *)
(* sb2 = tee.                                                              *)
SetTee(tee) == sb2' = tee

(* Mutation: the eof test is dropped and eof is put to both buffers as  *)
(* a character.                                                           *)
OverflowEofWritten ==
  /\ console' = Append(console, EOF)
  /\ files' = IF sb2 # NULL /\ is_open
               THEN [files EXCEPT ![opened] = Append(@, EOF)] ELSE files
  /\ last' = [ch |-> EOF, ret |-> EOF, delivered |-> TRUE]
  /\ UNCHANGED <<is_open, opened, sb2, openlen>>

(* overflow(c) for c = eof: return traits::not_eof(c), touch nothing.     *)
OverflowEof ==
  /\ last' = [ch |-> EOF, ret |-> "not_eof", delivered |-> TRUE]
  /\ UNCHANGED <<console, files, is_open, opened, sb2, openlen>>

(* overflow(c) for a character: sb1->sputc(c), then sb2->sputc(c) if a    *)
(* tee is set.  The result is eof iff eq_int_type(r1, eof) ||            *)
(* eq_int_type(r1, eof): only the console's result is looked at, the    *)
(* file's is discarded.                                                   *)
Overflow(c) ==
  /\ Len(console) < MaxLog
  /\ \E ok1 \in IF ConsoleMayFail THEN BOOLEAN ELSE {TRUE} :
       LET ok2 == sb2 # NULL /\ is_open
       IN  /\ console' = IF ok1 THEN Append(console, c) ELSE console
           /\ files' = IF ok2 THEN [files EXCEPT ![opened] = Append(@, c)]
                       ELSE files
           /\ last' = [ch |-> c,
                       ret |-> IF ~ok1 THEN EOF ELSE c,
                       delivered |-> ok1 /\ (sb2 = NULL \/ ok2)]
  /\ UNCHANGED <<is_open, opened, sb2, openlen>>

(* Mutation: the file is opened for appending (ios::app), not truncated. *)
OpenAppends(name) ==
  IF name \in Unopenable
    THEN /\ is_open' = FALSE /\ opened' = NULL /\ files' = files
    ELSE /\ is_open' = TRUE /\ opened' = name /\ files' = files

(* outfile.open(name) with the default mode ios::out: the file is         *)
(* truncated, or the open fails and outfile stays closed.  A preceding    *)
(* close has already written the old file out.                            *)
Open(name) ==
  IF name \in Unopenable
    THEN /\ is_open' = FALSE /\ opened' = NULL /\ files' = files
    ELSE /\ is_open' = TRUE /\ opened' = name
         /\ files' = [files EXCEPT ![name] = <<>>]

(* logFile(name): close an open outfile; for a non-null name open it and *)
(* set the tee to its buffer, whether or not the open succeeded.  A null *)
(* name closes the file and leaves sb2 pointing at the closed buffer.     *)
LogFile(name) ==
  /\ IF name = NULL
       THEN /\ is_open' = FALSE /\ opened' = NULL
            /\ UNCHANGED <<files, sb2>>
       ELSE /\ Open(name)
            /\ SetTee(OUTFILE)
  /\ last' = NoCall
  /\ openlen' = IF is_open' THEN Len(console) ELSE openlen
  /\ UNCHANGED console

(* logApplication(name): logFile(name ".log"), built with strcat in a     *)
(* buffer of strlen(name) + 8 characters.                                  *)
LogApplication(name) == LogFile(name \o ".log")

Next ==
  \/ OverflowEof
  \/ \E c \in Chars : Overflow(c)
  \/ \E n \in Names \cup {NULL} : LogFile(n)
  \/ \E a \in Apps : LogApplication(a)

Spec == Init /\ [][Next]_vars

(***************************************************************************)
(* Properties.                                                             *)
(***************************************************************************)

TypeOK ==
  /\ console \in Seq(Chars) /\ Len(console) <= MaxLog
  /\ files \in [FileNames -> Seq(Chars)]
  /\ is_open \in BOOLEAN /\ opened \in FileNames \cup {NULL}
  /\ is_open <=> opened # NULL
  /\ sb2 \in {NULL, OUTFILE} /\ openlen \in 0..Len(console)
  /\ last \in [ch : Chars \cup {EOF}, ret : Chars \cup {EOF, "not_eof"},
               delivered : BOOLEAN]

(* While the console accepts every character, the open log file holds     *)
(* exactly the console output written since logFile opened it, no more    *)
(* and no less: open truncates (ios::out), set_tee attaches the file      *)
(* before the next character, and overflow puts every character to both   *)
(* buffers in the same order.                                              *)
LogFileIsConsoleTail ==
  is_open => files[opened] = SubSeq(console, openlen + 1, Len(console))

(* overflow reports a character as written (returns it rather than eof)   *)
(* only if every buffer of the tee accepted it; an ostream on logbuf sets *)
(* badbit on eof, so this is how a failing log file would be noticed.     *)
OverflowReportsLoss ==
  last.ch \in Chars /\ last.ret = last.ch => last.delivered

=============================================================================
