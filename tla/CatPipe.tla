------------------------------- MODULE CatPipe -------------------------------
(***************************************************************************)
(* cpp_src/wrap.cpp: a pipe, a child that becomes cat and reads from it,   *)
(* and a parent that makes the pipe's write end its standard output,       *)
(* writes two strings, closes the original descriptors and waits for cat.  *)
(***************************************************************************)
EXTENDS Integers, Sequences

CONSTANT PIPESIZE  \* strings the pipe holds

PipeAssumption == PIPESIZE \in Nat \ {0}

Strings == <<"cnmm", "cnmmxx">>

VARIABLES
  parent,      \* "fork", "write", "wait", "exited"
  child,       \* "unborn", "close", "exec", "cat", "exited"
  reads,       \* who has the read end open
  writes,      \* who has the write end open, be it as standard output
  pipe,        \* the strings in it
  written,     \* how many the parent has written
  copied       \* how many cat has printed

pvars == <<parent, child, reads, writes, pipe, written, copied>>

Init ==
  /\ parent = "fork" /\ child = "unborn"
  /\ reads = {"parent"} /\ writes = {"parent"}
  /\ pipe = <<>> /\ written = 0 /\ copied = 0
-----------------------------------------------------------------------------
\* The result of fork() is compared with 0 only.
Fork ==
  /\ parent = "fork"
  /\ parent' = "write" /\ child' = "close"
  /\ reads' = reads \union {"child"} /\ writes' = writes \union {"child"}
  /\ UNCHANGED <<pipe, written, copied>>

ForkFails ==
  /\ parent = "fork"
  /\ parent' = "write"
  /\ UNCHANGED <<child, reads, writes, pipe, written, copied>>

\* The parent still has the read end open itself: no SIGPIPE.
Write ==
  /\ parent = "write" /\ written < Len(Strings) /\ Len(pipe) < PIPESIZE
  /\ pipe' = Append(pipe, Strings[written + 1])
  /\ written' = written + 1
  /\ UNCHANGED <<parent, child, reads, writes, copied>>

\* Mutant: standard output is closed as well.
KeepsNothing == {}

\* Standard output is a copy of the write end, and is not closed.
KeepsWrite == {"parent"}

CloseEnds ==
  /\ parent = "write" /\ written = Len(Strings)
  /\ parent' = "wait"
  /\ reads' = reads \ {"parent"}
  /\ writes' = (writes \ {"parent"}) \union KeepsWrite
  /\ UNCHANGED <<child, pipe, written, copied>>

\* A process that exits closes all it has.
Exit(who) == reads' = reads \ {who} /\ writes' = writes \ {who}

\* wait(NULL): the child has exited, or there is none; then exit(1).
Wait ==
  /\ parent = "wait" /\ child \in {"unborn", "exited"}
  /\ parent' = "exited" /\ Exit("parent")
  /\ UNCHANGED <<child, pipe, written, copied>>

Parent == Fork \/ ForkFails \/ Write \/ CloseEnds \/ Wait
-----------------------------------------------------------------------------
\* dup2() and three times close(): standard input is the read end.
ChildCloses ==
  /\ child = "close"
  /\ child' = "exec" /\ writes' = writes \ {"child"}
  /\ UNCHANGED <<parent, reads, pipe, written, copied>>

\* execlp() does not return, or returns and the child falls through to wait(NULL),
\* which has nobody to wait for, and exit(1).
Exec ==
  /\ child = "exec"
  /\ \/ child' = "cat" /\ UNCHANGED <<reads, writes>>
     \/ child' = "exited" /\ Exit("child")
  /\ UNCHANGED <<parent, pipe, written, copied>>

CatCopies ==
  /\ child = "cat" /\ pipe # <<>>
  /\ pipe' = Tail(pipe) /\ copied' = copied + 1
  /\ UNCHANGED <<parent, child, reads, writes, written>>

\* cat ends at the end of the pipe.
CatEnds ==
  /\ child = "cat" /\ pipe = <<>> /\ writes = {}
  /\ child' = "exited" /\ Exit("child")
  /\ UNCHANGED <<parent, pipe, written, copied>>

Child == ChildCloses \/ Exec \/ CatCopies \/ CatEnds

Next == Parent \/ Child

Fairness == WF_pvars(Parent) /\ WF_pvars(Child)

Spec == Init /\ [][Next]_pvars /\ Fairness
-----------------------------------------------------------------------------
(* Properties.                                                             *)

TypeOK ==
  /\ parent \in {"fork", "write", "wait", "exited"}
  /\ child \in {"unborn", "close", "exec", "cat", "exited"}
  /\ reads \subseteq {"parent", "child"} /\ writes \subseteq {"parent", "child"}
  /\ pipe \in Seq({"cnmm", "cnmmxx"}) /\ written \in 0 .. Len(Strings) /\ copied \in Nat

\* The two wait for each other: once cat runs it never ends, for want of an end of
\* file, and the parent never ends, for want of cat's end; the strings are printed
\* nevertheless.
WaitForEachOther ==
  child = "cat" ~> [](child = "cat" /\ parent = "wait" /\ copied = Len(Strings))
=============================================================================
