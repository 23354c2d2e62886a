------------------------------- MODULE Console --------------------------------
(***************************************************************************)
(* Console input in the xv6 kernel (console.c): one ring of characters,    *)
(* which the interrupt handler edits at its end and processes read at its  *)
(* front.  cons.lock is held from a key to the end of its handling, and    *)
(* over a read but for its sleep: its holder is kept and a character read  *)
(* is a step, for kill does not take the lock.  ^P and 0 change nothing.   *)
(***************************************************************************)
EXTENDS Integers, Sequences, FiniteSets

CONSTANTS
    Procs,
    Keys,           \* the characters that can be stored: "nl", "^D" and others
    INPUT_BUF_SIZE,
    Wrap,           \* r, w and e are taken modulo this; 2^32 in the code
    MaxCount,       \* bound: the largest n of a read
    MaxKilled       \* bound: how many processes are killed

VARIABLES
    buf, r, w, e,   \* cons
    lock,           \* the holder of cons.lock, or 0
    pc, n,          \* where a read is, and the n it has left
    some,           \* n < target
    killed,
    read            \* history: the last character taken, <<>> if none

vars == <<buf, r, w, e, lock, pc, n, some, killed, read>>

Slot(x) == x % INPUT_BUF_SIZE
Plus(x, d) == (x + d) % Wrap
Distance(from, to) == (to - from) % Wrap
Empty == r = w

Init ==
    /\ buf = [j \in 0..(INPUT_BUF_SIZE - 1) |-> "nl"]
    /\ r = 0 /\ w = 0 /\ e = 0
    /\ lock = 0
    /\ pc = [p \in Procs |-> "user"] /\ n = [p \in Procs |-> 0]
    /\ some = [p \in Procs |-> FALSE] /\ killed = [p \in Procs |-> FALSE]
    /\ read = <<>>

-----------------------------------------------------------------------------
(* consoleintr.                                                            *)

Edit ==
    /\ lock = 0
    /\ UNCHANGED <<buf, r, w, lock, pc, n, some, killed, read>>

(* ^U: back to the last newline, or to what is the readers' already. *)
KillLine ==
    /\ Edit
    /\ \E d \in 0..Distance(w, e) :
         /\ \A j \in 1..d : buf[Slot(Plus(e, -j))] # "nl"
         /\ d < Distance(w, e) => buf[Slot(Plus(e, -d - 1))] = "nl"
         /\ e' = Plus(e, -d)

(* Mutant: a character that is the readers' can be taken back. *)
BackspaceAnyway == Edit /\ e # r /\ e' = Plus(e, -1)

(* ^H or delete *)
Backspace == Edit /\ e # w /\ e' = Plus(e, -1)

(* Any other character; "cr" is stored as "nl". *)
Key(c) ==
    /\ lock = 0 /\ Distance(r, e) < INPUT_BUF_SIZE
    /\ LET key == IF c = "cr" THEN "nl" ELSE c IN
       /\ buf' = [buf EXCEPT ![Slot(e)] = key]
       /\ e' = Plus(e, 1)
       /\ IF key \in {"nl", "^D"} \/ Distance(r, e') = INPUT_BUF_SIZE
          THEN /\ w' = e'
               /\ pc' = [p \in Procs |-> IF pc[p] = "asleep" THEN "woken" ELSE pc[p]]
          ELSE UNCHANGED <<w, pc>>
    /\ UNCHANGED <<r, lock, n, some, killed, read>>

-----------------------------------------------------------------------------
(* consoleread.                                                            *)

Call(p, count) ==
    /\ pc[p] = "user" /\ ~killed[p] /\ lock = 0
    /\ lock' = p
    /\ pc' = [pc EXCEPT ![p] = "loop"] /\ n' = [n EXCEPT ![p] = count]
    /\ UNCHANGED <<buf, r, w, e, some, killed, read>>

(* Back from sleep. *)
Reacquire(p) ==
    /\ pc[p] = "woken" /\ lock = 0
    /\ lock' = p
    /\ pc' = [pc EXCEPT ![p] = "loop"]
    /\ UNCHANGED <<buf, r, w, e, n, some, killed, read>>

Reads(p) == lock = p /\ pc[p] = "loop"

Return(p) ==
    /\ lock' = 0
    /\ pc' = [pc EXCEPT ![p] = "user"] /\ n' = [n EXCEPT ![p] = 0]
    /\ some' = [some EXCEPT ![p] = FALSE]

Killed(p) ==
    /\ Reads(p) /\ Empty /\ killed[p]
    /\ Return(p)
    /\ UNCHANGED <<buf, r, w, e, killed, read>>

Sleep(p) ==
    /\ Reads(p) /\ Empty /\ ~killed[p]
    /\ lock' = 0
    /\ pc' = [pc EXCEPT ![p] = "asleep"]
    /\ UNCHANGED <<buf, r, w, e, n, some, killed, read>>

NextChar == buf[Slot(r)]
Take == r' = Plus(r, 1) /\ read' = <<NextChar>> /\ UNCHANGED <<buf, w, e, killed>>

(* The end of the file: of this read if it has nothing, else of the next.  *)
Eof(p) ==
    /\ Reads(p) /\ ~Empty /\ NextChar = "^D"
    /\ Return(p)
    /\ IF some[p] THEN UNCHANGED <<buf, r, w, e, killed, read>> ELSE Take

Char(p) ==
    /\ Reads(p) /\ ~Empty /\ NextChar # "^D"
    /\ Take
    /\ IF NextChar = "nl" \/ n[p] = 1 THEN Return(p)
       ELSE /\ n' = [n EXCEPT ![p] = @ - 1] /\ some' = [some EXCEPT ![p] = TRUE]
            /\ UNCHANGED <<lock, pc>>

(* either_copyout fails: the character is gone. *)
BadAddress(p) ==
    /\ Reads(p) /\ ~Empty /\ NextChar # "^D"
    /\ Take
    /\ Return(p)

(* kkill; the process exits when it is back in user mode. *)
Kill(p) ==
    /\ ~killed[p] /\ Cardinality({q \in Procs : killed[q]}) < MaxKilled
    /\ killed' = [killed EXCEPT ![p] = TRUE]
    /\ pc' = [pc EXCEPT ![p] = IF @ = "asleep" THEN "woken" ELSE @]
    /\ UNCHANGED <<buf, r, w, e, lock, n, some, read>>

Next ==
    \/ KillLine \/ Backspace \/ \E c \in Keys \cup {"cr"} : Key(c)
    \/ \E p \in Procs :
         \/ \E count \in 1..MaxCount : Call(p, count)
         \/ Reacquire(p) \/ Killed(p) \/ Sleep(p) \/ Eof(p) \/ Char(p) \/ BadAddress(p)
         \/ Kill(p)

Spec == Init /\ [][Next]_vars

-----------------------------------------------------------------------------
(* Properties.                                                             *)

Slice(from, to) == [j \in 1..Distance(from, to) |-> buf[Slot(Plus(from, j - 1))]]
lines == Slice(r, w)
typing == Slice(w, e)

(* What the head of console.c promises its readers: input comes a line at  *)
(* a time.  What is being typed can be taken back; once a line has ended,  *)
(* or the buffer is full, it is the readers', in order and for good.       *)
Type(c) ==
    /\ Len(lines) + Len(typing) < INPUT_BUF_SIZE
    /\ IF c \in {"nl", "^D"} \/ Len(lines) + Len(typing) + 1 = INPUT_BUF_SIZE
       THEN lines' = lines \o Append(typing, c) /\ typing' = <<>>
       ELSE typing' = Append(typing, c) /\ lines' = lines
    /\ UNCHANGED read

Erase ==
    /\ typing # <<>>
    /\ typing' \in {SubSeq(typing, 1, Len(typing) - 1), <<>>}
    /\ lines' = lines /\ UNCHANGED read

Deliver ==
    /\ lines # <<>>
    /\ read' = <<Head(lines)>>
    /\ lines' = Tail(lines) /\ typing' = typing

LineInput ==
    /\ lines = <<>> /\ typing = <<>> /\ read = <<>>
    /\ [][(\E c \in Keys : Type(c)) \/ Erase \/ Deliver]_<<lines, typing, read>>

(* Whatever is typed and taken back, wherever the ring is full or its      *)
(* indices wrap, the readers get the lines in order and nothing else.      *)
ImplementsLineInput == LineInput

(* When nobody is inside, a reader sleeps only if there is no line. *)
SleepersHaveNothing == lock = 0 => \A p \in Procs : pc[p] = "asleep" => Empty

(* What the users of the console rely on. *)
ConsoleWorks == ImplementsLineInput /\ []SleepersHaveNothing
=============================================================================
