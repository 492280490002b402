-------------------------------- MODULE Shell --------------------------------
(***************************************************************************)
(* The shell of cpp_src/shell.h: class Shell reads a line, split()s it at  *)
(* blanks, "|" and ">" into argsBuffer, and runs one command, one command  *)
(* with its output in a file, or two commands joined by a pipe, and waits  *)
(* for them.                                                               *)
(*                                                                         *)
(* A line is a sequence of characters; "c" and "e" stand for the words cd  *)
(* and exit.  The children and the pipe are the kernel's.                  *)
(***************************************************************************)
EXTENDS Integers, Sequences, FiniteSets, SequencesExt

CONSTANTS
  TypedLines, \* lines the user may type: sequences of characters
  NARGS,      \* pointers in argsBuffer, 10
  PIPESIZE,   \* items a pipe holds
  MaxOut      \* bound: items the left command of a pipe writes

Blanks     == {" "}
Separators == {" ", "|", ">"}
Chars      == Separators \union {"a", "c", "e"}
Children   == {"left", "right", "only"}
Failed     == "-1"

ASSUME ShellAssumption ==
  /\ TypedLines \subseteq Seq(Chars)
  /\ NARGS \in Nat \ {0} /\ PIPESIZE \in Nat \ {0} /\ MaxOut \in Nat

VARIABLES
  pc,         \* where Run() and what it calls is, or how it ended
  line,       \* the line being run
  s,          \* what split() has still to look at
  argsBuffer, \* the tokens so far
  places,     \* history: where in the line they begin
  pid1, pid2, \* results of the fork() calls of Fork_Execute_Pipe
  child,      \* "none", "born", "running" or "zombie", for each child
  holdR,      \* who has the pipe's read end open
  holdW,      \* who has its write end open
  fill,       \* items in the pipe
  written     \* items the left command has written

lineVars == <<line, s, argsBuffer, places>>
pipeVars == <<holdR, holdW, fill, written>>
vars == <<pc, lineVars, pid1, pid2, child, pipeVars>>

Down == {"exited", "overrun", "crashed"}

Init ==
  /\ pc = "prompt" /\ line = <<>> /\ s = <<>> /\ argsBuffer = <<>> /\ places = <<>>
  /\ pid1 = Failed /\ pid2 = Failed
  /\ child = [c \in Children |-> "none"]
  /\ holdR = {} /\ holdW = {} /\ fill = 0 /\ written = 0
-----------------------------------------------------------------------------
(* Reading and splitting a line.                                           *)

\* _start() and isSp(): a blank line is asked for again.
TypeLine ==
  /\ pc = "prompt"
  /\ \E l \in TypedLines :
       /\ line' = l /\ s' = l /\ argsBuffer' = <<>> /\ places' = <<>>
       /\ pc' = IF \A k \in DOMAIN l : l[k] \in Blanks THEN "prompt" ELSE "split"
  /\ UNCHANGED <<pid1, pid2, child, pipeVars>>

\* At end of file getchar() returns EOF, which is stored as a character, again
\* and again, until buf is left behind.
TypeEof ==
  /\ pc = "prompt"
  /\ pc' = "overrun"
  /\ UNCHANGED <<lineVars, pid1, pid2, child, pipeVars>>

\* strstr(s, c): the first place of c, 0 for NULL.
Place(c) ==
  IF \E k \in DOMAIN s : s[k] = c
  THEN CHOOSE k \in DOMAIN s : s[k] = c /\ \A j \in 1 .. k - 1 : s[j] # c
  ELSE 0

\* p is before q, or there is no q.
Before(p, q) == p # 0 /\ (p < q \/ q = 0)

\* Mutant: a blank is preferred to what comes before it.
CutAtBlank ==
  IF Place(" ") # 0 THEN Place(" ")
  ELSE IF Place("|") # 0 THEN Place("|") ELSE Place(">")

\* Where the next token ends; "|" is preferred to ">" even if it comes later.
Cut ==
  LET p == Place(" ") IN
  IF Before(Place("|"), p) \/ Before(Place(">"), p)
  THEN IF Place("|") # 0 THEN Place("|") ELSE Place(">")
  ELSE p

\* The tokens one iteration of split() adds: the text before the cut unless it
\* is empty, and the separator unless it is a blank.
Found ==
  (IF Cut = 1 THEN <<>> ELSE <<SubSeq(s, 1, Cut - 1)>>)
  \o (IF s[Cut] = " " THEN <<>> ELSE <<<<s[Cut]>>>>)

\* How much of the line split() has been through.
Done == Len(line) - Len(s)

FoundAt ==
  (IF Cut = 1 THEN <<>> ELSE <<Done + 1>>) \o (IF s[Cut] = " " THEN <<>> ELSE <<Done + Cut>>)

\* Mutant: an empty last token is left out.
LastTokenFull == IF s = <<>> THEN <<>> ELSE <<s>>

LastToken == <<s>>

\* Mutant: the limit of the array is not reached.
StoreAlways(tokens, next) == argsBuffer' = argsBuffer \o tokens /\ pc' = next

\* *tmp++ = ... without a look at the end of argsBuffer, which needs room for a
\* NULL after the last token.
Store(tokens, next) ==
  /\ argsBuffer' = argsBuffer \o tokens
  /\ pc' = IF Len(argsBuffer \o tokens) + (IF next = "run" THEN 1 ELSE 0) > NARGS
           THEN "overrun" ELSE next

Split ==
  /\ pc = "split" /\ Cut # 0
  /\ Store(Found, "split")
  /\ s' = SubSeq(s, Cut + 1, Len(s))
  /\ places' = places \o FoundAt
  /\ UNCHANGED <<line, pid1, pid2, child, pipeVars>>

EndSplit ==
  /\ pc = "split" /\ Cut = 0
  /\ Store(LastToken, "run")
  /\ places' = places \o <<Done + 1>>
  /\ UNCHANGED <<line, s, pid1, pid2, child, pipeVars>>
-----------------------------------------------------------------------------
(* Run(): which of the Fork_Execute functions is called.                   *)

Has(token, c) == \E k \in DOMAIN token : token[k] = c

\* The first token with a "|" or a ">" in it, 0 if there is none.
Special(args) ==
  LET found == {k \in DOMAIN args : Has(args[k], "|") \/ Has(args[k], ">")}
  IN  IF found = {} THEN 0 ELSE CHOOSE k \in found : \A j \in found : k <= j

\* cd changes the directory, exit ends the loop; strcmp() of a missing token
\* after ">" is a crash.
Run ==
  /\ pc = "run"
  /\ LET t == Special(argsBuffer)
     IN  pc' = CASE argsBuffer[1] = <<"c">>           -> "prompt"
                 [] argsBuffer[1] = <<"e">>           -> "exited"
                 [] OTHER ->
                      IF t = 0 THEN "fork"
                      ELSE IF Has(argsBuffer[t], "|") THEN "pipe"
                      ELSE IF t + 1 > Len(argsBuffer) THEN "crashed"
                      ELSE "open"
  /\ UNCHANGED <<lineVars, pid1, pid2, child, pipeVars>>

\* The path is the token after ">" or ">>"; NULL or an empty path cannot be opened.
Open ==
  /\ pc = "open"
  /\ LET t    == Special(argsBuffer)
         k    == IF argsBuffer[t + 1] = <<">">> THEN t + 2 ELSE t + 1
         path == IF k > Len(argsBuffer) THEN <<>> ELSE argsBuffer[k]
     IN  pc' \in IF path = <<>> THEN {"prompt"} ELSE {"fork", "prompt"}
  /\ UNCHANGED <<lineVars, pid1, pid2, child, pipeVars>>

Alive == {c \in Children : child[c] # "none"}

\* fork() in Fork_Execute and Fork_Execute_Redirect; -1 is not looked for.
ForkOnly ==
  /\ pc = "fork"
  /\ child' \in {child, [child EXCEPT !["only"] = "running"]}
  /\ pc' = "wait"
  /\ UNCHANGED <<lineVars, pid1, pid2, pipeVars>>

\* wait(NULL) and waitpid(-1) take whichever child has ended; without children
\* they return at once, and so does waitpid() of a process that is no child.
ReapAny ==
  \/ Alive = {} /\ UNCHANGED child
  \/ \E c \in Alive : child[c] = "zombie" /\ child' = [child EXCEPT ![c] = "none"]

\* Mutant: waitpid() does not wait for a child that is still running.
ReapNoWait(pid) ==
  IF pid # Failed /\ child[pid] = "zombie" THEN child' = [child EXCEPT ![pid] = "none"]
                                           ELSE UNCHANGED child

Reap(pid) ==
  IF pid = Failed THEN ReapAny
  ELSE /\ child[pid] \in {"none", "zombie"}
       /\ child' = [child EXCEPT ![pid] = "none"]

WaitOnly ==
  /\ pc = "wait" /\ ReapAny
  /\ pc' = "prompt"
  /\ UNCHANGED <<lineVars, pid1, pid2, pipeVars>>
-----------------------------------------------------------------------------
(* Fork_Execute_Pipe().                                                    *)

Pipe ==
  /\ pc = "pipe"
  /\ holdR' = {"shell"} /\ holdW' = {"shell"} /\ fill' = 0 /\ written' = 0
  /\ pc' = "fork1"
  /\ UNCHANGED <<lineVars, pid1, pid2, child>>

PipeFails ==
  /\ pc = "pipe"
  /\ pc' = "prompt"
  /\ UNCHANGED <<lineVars, pid1, pid2, child, pipeVars>>

\* A child has the descriptors its parent has.
Born(c) ==
  /\ child' = [child EXCEPT ![c] = "born"]
  /\ holdR' = holdR \union {c} /\ holdW' = holdW \union {c}

Fork1 ==
  /\ pc = "fork1"
  /\ \/ Born("left") /\ pid1' = "left"
     \/ pid1' = Failed /\ UNCHANGED <<child, holdR, holdW>>
  /\ pc' = "fork2"
  /\ UNCHANGED <<lineVars, pid2, fill, written>>

\* Also when the first fork() has failed.
Fork2 ==
  /\ pc = "fork2"
  /\ \/ Born("right") /\ pid2' = "right"
     \/ pid2' = Failed /\ UNCHANGED <<child, holdR, holdW>>
  /\ pc' = "close"
  /\ UNCHANGED <<lineVars, pid1, fill, written>>

BothForked == pid1 # Failed /\ pid2 # Failed

\* Mutant: the parent closes the read end only.
CloseReadEnd == holdR' = holdR \ {"shell"} /\ UNCHANGED holdW

CloseBothEnds == holdR' = holdR \ {"shell"} /\ holdW' = holdW \ {"shell"}

\* The parent keeps both ends if one fork() failed.
CloseEnds ==
  /\ pc = "close"
  /\ IF BothForked THEN CloseBothEnds ELSE UNCHANGED <<holdR, holdW>>
  /\ pc' = "wait1"
  /\ UNCHANGED <<lineVars, pid1, pid2, child, fill, written>>

Wait1 ==
  /\ pc = "wait1" /\ Reap(pid1)
  /\ pc' = "wait2"
  /\ UNCHANGED <<lineVars, pid1, pid2, pipeVars>>

Wait2 ==
  /\ pc = "wait2" /\ Reap(pid2)
  /\ pc' = "prompt"
  /\ UNCHANGED <<lineVars, pid1, pid2, pipeVars>>
-----------------------------------------------------------------------------
(* The children.  The left command writes and ends; the right one reads to *)
(* the end of its input, or ends before (RightQuits).                      *)

shellVars == <<pc, lineVars, pid1, pid2>>

Ends(c) ==
  /\ child' = [child EXCEPT ![c] = "zombie"]
  /\ holdR' = holdR \ {c} /\ holdW' = holdW \ {c}
  /\ UNCHANGED <<shellVars, fill, written>>

\* dup2(), close() and close(): one end is left, as standard output or input.
Exec(c) ==
  /\ child[c] = "born"
  /\ child' = [child EXCEPT ![c] = "running"]
  /\ holdR' = IF c = "left" THEN holdR \ {c} ELSE holdR
  /\ holdW' = IF c = "left" THEN holdW ELSE holdW \ {c}
  /\ UNCHANGED <<shellVars, fill, written>>

ExecFails(c) == child[c] = "born" /\ Ends(c)

LeftWrites ==
  /\ child["left"] = "running" /\ written < MaxOut
  /\ holdR # {} /\ fill < PIPESIZE
  /\ fill' = fill + 1 /\ written' = written + 1
  /\ UNCHANGED <<shellVars, child, holdR, holdW>>

\* It has written all it wanted, or gets SIGPIPE.
LeftEnds ==
  /\ child["left"] = "running"
  /\ written = MaxOut \/ holdR = {}
  /\ Ends("left")

RightReads ==
  /\ child["right"] = "running" /\ fill > 0
  /\ fill' = fill - 1
  /\ UNCHANGED <<shellVars, child, holdR, holdW, written>>

RightEnds ==
  /\ child["right"] = "running" /\ fill = 0 /\ holdW = {}
  /\ Ends("right")

RightQuits == child["right"] = "running" /\ Ends("right")

OnlyEnds == child["only"] = "running" /\ Ends("only")

ReadLine == TypeLine \/ TypeEof

Steps ==
  \/ Split \/ EndSplit \/ Run \/ Open \/ ForkOnly \/ WaitOnly
  \/ Pipe \/ PipeFails \/ Fork1 \/ Fork2 \/ CloseEnds \/ Wait1 \/ Wait2

Left  == Exec("left") \/ ExecFails("left") \/ LeftWrites \/ LeftEnds
Right == Exec("right") \/ ExecFails("right") \/ RightReads \/ RightEnds

Next == ReadLine \/ Steps \/ Left \/ Right \/ RightQuits \/ OnlyEnds

\* The kernel runs the shell and both commands; nobody has to type.
Spec == Init /\ [][Next]_vars /\ WF_vars(Steps) /\ WF_vars(Left) /\ WF_vars(Right)
-----------------------------------------------------------------------------
(* Properties.                                                             *)

\* Every variable stays in its range, argsBuffer in its bounds.
TypeOK ==
  /\ pc \in {"prompt", "split", "run", "open", "fork", "wait", "pipe", "fork1", "fork2",
             "close", "wait1", "wait2"} \union Down
  /\ line \in Seq(Chars) /\ s \in Seq(Chars) /\ argsBuffer \in Seq(Seq(Chars))
  /\ places \in Seq(Nat)
  /\ pc \notin Down => Len(argsBuffer) <= NARGS
  /\ pc \notin Down \union {"prompt", "split"} => Len(argsBuffer) < NARGS
  /\ pid1 \in {"left", Failed} /\ pid2 \in {"right", Failed}
  /\ child \in [Children -> {"none", "born", "running", "zombie"}]
  /\ holdR \subseteq {"shell", "left", "right"} /\ holdW \subseteq {"shell", "left", "right"}
  /\ fill \in 0 .. PIPESIZE /\ written \in 0 .. MaxOut

\* The words of a line: "|" and ">" by themselves, other characters up to the next
\* separator; after a separator at the end of the line there is an empty word.
IsWord(l, i, j) ==
  IF i = j /\ l[i] \in {"|", ">"} THEN TRUE
  ELSE /\ \A k \in i .. j : l[k] \notin Separators
       /\ i = 1 \/ l[i - 1] \in Separators
       /\ j = Len(l) \/ l[j + 1] \in Separators

EmptyEnd(l) == l[Len(l)] \in Separators

WordAt(l, i, token) ==
  IF token = <<>> THEN i = Len(l) + 1 /\ EmptyEnd(l)
  ELSE LET j == i + Len(token) - 1
       IN  j <= Len(l) /\ token = SubSeq(l, i, j) /\ IsWord(l, i, j)

\* argsBuffer holds the words of the line, each once and in their order.
AllWords ==
  /\ \A k \in DOMAIN argsBuffer : WordAt(line, places[k], argsBuffer[k])
  /\ \A j, k \in DOMAIN places : j < k => places[j] < places[k]
  /\ \A i, j \in DOMAIN line : i <= j /\ IsWord(line, i, j) => i \in Range(places)
  /\ EmptyEnd(line) => Len(line) + 1 \in Range(places)

\* Each of the first n characters that is a ">" and has a "|" after it begins a word
\* and is directly before the "|".
Splittable(l, n) ==
  \A i \in 1 .. n, j \in DOMAIN l :
    l[i] = ">" /\ l[j] = "|" /\ i < j /\ (\A k \in i .. j - 1 : l[k] # "|")
      => j = i + 1 /\ (i = 1 \/ l[i - 1] \in Separators)

\* split() finds the words of exactly the lines in which each ">" that has a "|"
\* after it begins a word and is directly before the "|".
SplitExact == pc = "run" => (AllWords <=> Splittable(line, Len(line)))

\* Run() never compares a missing token: what follows ">" is never NULL.
TargetThere == pc # "crashed"

\* When the prompt comes back all children have been waited for, so that wait(NULL)
\* never takes the end of an earlier command for that of its own; although
\* waitpid() is called with -1 after a failed fork().
AllReaped == pc \in {"prompt", "run", "fork"} => Alive = {}

\* If both fork() calls succeed the pipeline ends and the prompt comes back,
\* whichever command ends first, and whether or not exec succeeds.
PipelineEnds == pc = "wait1" /\ BothForked ~> pc = "prompt"
=============================================================================
