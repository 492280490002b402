-------------------------- MODULE Processes_proofs --------------------------
(***************************************************************************)
(* The shell, the thread-per-connection server and the threads that print, *)
(* for any number of threads, clients and descriptors, any lines, any pipe *)
(* and any failures of fork(), accept() and pthread_create().              *)
(***************************************************************************)
EXTENDS Shell, ThreadServer, CountThreads, SequenceFacts, TLAPS

(* The shell's children and tokens.                                        *)

\* Where in its life each child may be, by the place the shell is at.
Absent(ch) == child[ch] = "none"

ChildrenAt ==
  /\ pc = "wait" => Absent("left") /\ Absent("right")
  /\ pc = "fork2" => Absent("right")
  /\ pc = "wait2" => Absent("left")
  /\ pc \in {"fork2", "close", "wait1", "wait2"} =>
       /\ Absent("only")
       /\ ~Absent("left") => pid1 = "left"
       /\ ~Absent("right") => pid2 = "right"
  /\ pc \notin {"wait", "fork2", "close", "wait1", "wait2"} =>
       Absent("left") /\ Absent("right") /\ Absent("only")

\* The children exist, the process ids are theirs, and ChildrenAt.
ShellInv ==
  /\ child \in [Children -> {"none", "born", "running", "zombie"}]
  /\ pid1 \in {"left", Failed} /\ pid2 \in {"right", Failed}
  /\ ChildrenAt

\* A child that was alive and goes on, or ends, does not change who is alive.
LEMMA ChildStep ==
  ASSUME ShellInv, NEW ch \in Children, child[ch] # "none",
         UNCHANGED <<pc, pid1, pid2>>,
         NEW state \in {"running", "zombie"}, child' = [child EXCEPT ![ch] = state]
  PROVE  ShellInv'
<1>1. \A d \in Children : child'[d] = "none" <=> child[d] = "none"
  BY DEF ShellInv
<1>2. ChildrenAt'
  BY <1>1 DEF ShellInv, ChildrenAt, Absent, Children
<1> QED BY <1>2 DEF ShellInv

\* What waitpid() leaves: it has reaped the process asked for, or whichever was there.
LEMMA ReapIs ==
  ASSUME ShellInv, NEW pid \in Children \union {Failed}, Reap(pid)
  PROVE  /\ child' \in [Children -> {"none", "born", "running", "zombie"}]
         /\ \A d \in Children : child[d] = "none" => child'[d] = "none"
         /\ pid # Failed => child'[pid] = "none"
<1>1. CASE pid = Failed
  BY <1>1 DEF Reap, ReapAny, Alive, ShellInv
<1>2. CASE pid # Failed
  BY <1>2 DEF Reap, ShellInv
<1> QED BY <1>1, <1>2

\* The steps of a child.
LEMMA ChildrenKeep ==
  ASSUME ShellInv, Left \/ Right \/ RightQuits \/ OnlyEnds
  PROVE  ShellInv'
<1>1. ASSUME NEW ch \in Children, child[ch] # "none", Ends(ch) PROVE ShellInv'
  BY <1>1, ChildStep DEF Ends, shellVars
<1>2. ASSUME NEW ch \in Children, Exec(ch) PROVE ShellInv'
  BY <1>2, ChildStep DEF Exec, shellVars
<1>3. CASE LeftWrites \/ RightReads
  BY <1>3 DEF LeftWrites, RightReads, shellVars, ShellInv, ChildrenAt, Absent
<1>4. CASE Exec("left") \/ Exec("right")
  BY <1>4, <1>2 DEF Children
<1>5. CASE ExecFails("left") \/ ExecFails("right") \/ LeftEnds \/ RightEnds \/ RightQuits \/ OnlyEnds
  BY <1>5, <1>1 DEF ExecFails, LeftEnds, RightEnds, RightQuits, OnlyEnds, Children
<1> QED BY <1>3, <1>4, <1>5 DEF Left, Right

\* The steps of the shell that start or reap nobody.
LEMMA QuietKeep ==
  ASSUME ShellInv, \/ ReadLine \/ Split \/ EndSplit \/ Run \/ Open \/ Pipe \/ PipeFails \/ CloseEnds
  PROVE  ShellInv'
<1>1. CASE TypeLine
  BY <1>1 DEF TypeLine, ShellInv, ChildrenAt, Absent
<1>2. CASE TypeEof
  BY <1>2 DEF TypeEof, ShellInv, ChildrenAt, Absent
<1>3. CASE Split
  BY <1>3 DEF Split, Store, ShellInv, ChildrenAt, Absent
<1>4. CASE EndSplit
  BY <1>4 DEF EndSplit, Store, ShellInv, ChildrenAt, Absent
<1>5. CASE Run
  <2>1. pc = "run" /\ pc' \in {"prompt", "exited", "fork", "pipe", "crashed", "open"}
    BY <1>5 DEF Run
  <2> QED BY <1>5, <2>1 DEF Run, ShellInv, ChildrenAt, Absent
<1>6. CASE Open
  <2>1. pc = "open" /\ pc' \in {"prompt", "fork"}
    BY <1>6 DEF Open
  <2> QED BY <1>6, <2>1 DEF Open, ShellInv, ChildrenAt, Absent
<1>7. CASE Pipe
  BY <1>7 DEF Pipe, ShellInv, ChildrenAt, Absent
<1>8. CASE PipeFails
  BY <1>8 DEF PipeFails, ShellInv, ChildrenAt, Absent
<1>9. CASE CloseEnds
  BY <1>9 DEF CloseEnds, ShellInv, ChildrenAt, Absent
<1> QED BY <1>1, <1>2, <1>3, <1>4, <1>5, <1>6, <1>7, <1>8, <1>9 DEF ReadLine

\* fork().
LEMMA ForkKeep ==
  ASSUME ShellInv, ForkOnly \/ Fork1 \/ Fork2
  PROVE  ShellInv'
<1>1. CASE ForkOnly
  BY <1>1 DEF ForkOnly, ShellInv, ChildrenAt, Absent, Children
<1>2. CASE Fork1
  BY <1>2 DEF Fork1, Born, ShellInv, ChildrenAt, Absent, Children, Failed
<1>3. CASE Fork2
  BY <1>3 DEF Fork2, Born, ShellInv, ChildrenAt, Absent, Children, Failed
<1> QED BY <1>1, <1>2, <1>3

\* wait() and waitpid().
LEMMA WaitKeep ==
  ASSUME ShellInv, WaitOnly \/ Wait1 \/ Wait2
  PROVE  ShellInv'
<1>1. CASE WaitOnly
  <2>1. child["left"] = "none" /\ child["right"] = "none"
    BY <1>1 DEF WaitOnly, ShellInv, ChildrenAt, Absent
  <2>2. \A d \in Children : child'[d] = "none"
    BY <1>1, <2>1 DEF WaitOnly, ReapAny, Alive, ShellInv, Children
  <2>3. child' \in [Children -> {"none", "born", "running", "zombie"}]
    BY <1>1 DEF WaitOnly, ReapAny, ShellInv
  <2> QED BY <1>1, <2>2, <2>3 DEF WaitOnly, ShellInv, ChildrenAt, Absent, Children
<1>2. CASE Wait1
  <2>1. /\ child' \in [Children -> {"none", "born", "running", "zombie"}]
        /\ \A d \in Children : child[d] = "none" => child'[d] = "none"
        /\ pid1 # Failed => child'[pid1] = "none"
    BY <1>2, ReapIs DEF Wait1, ShellInv, Children
  <2>2. child'["left"] = "none"
    BY <1>2, <2>1 DEF Wait1, ShellInv, ChildrenAt, Absent, Children, Failed
  <2> QED BY <1>2, <2>1, <2>2 DEF Wait1, ShellInv, ChildrenAt, Absent, Children
<1>3. CASE Wait2
  <2>1. /\ child' \in [Children -> {"none", "born", "running", "zombie"}]
        /\ \A d \in Children : child[d] = "none" => child'[d] = "none"
        /\ pid2 # Failed => child'[pid2] = "none"
    BY <1>3, ReapIs DEF Wait2, ShellInv, Children
  <2>2. child'["right"] = "none"
    BY <1>3, <2>1 DEF Wait2, ShellInv, ChildrenAt, Absent, Children, Failed
  <2> QED BY <1>3, <2>1, <2>2 DEF Wait2, ShellInv, ChildrenAt, Absent, Children
<1> QED BY <1>1, <1>2, <1>3

\* Every state has the children the place of the shell allows.
THEOREM ChildrenInvariant == Spec => []ShellInv
<1>1. Init => ShellInv
  BY DEF Init, ShellInv, ChildrenAt, Absent, Children
<1>2. ShellInv /\ [Next]_vars => ShellInv'
  <2> SUFFICES ASSUME ShellInv, [Next]_vars PROVE ShellInv'
    OBVIOUS
  <2>1. CASE Next
    BY <2>1, ChildrenKeep, QuietKeep, ForkKeep, WaitKeep DEF Next, Steps
  <2>2. CASE UNCHANGED vars
    BY <2>2 DEF vars, ShellInv, ChildrenAt, Absent
  <2> QED BY <2>1, <2>2
<1> QED BY <1>1, <1>2, PTL DEF Spec

\* AllReaped of Shell.tla: when the prompt comes back, and when a single command is
\* started, no child of an earlier command is left (wait() calls of shell.h).
THEOREM Reaped == Spec => []AllReaped
<1>1. ShellInv => AllReaped
  BY DEF ShellInv, ChildrenAt, Absent, AllReaped, Alive, Children
<1> QED BY <1>1, ChildrenInvariant, PTL
-----------------------------------------------------------------------------
\* The last token split() stores has neither "|" nor ">" in it.
LastPlain ==
  /\ Len(argsBuffer) > 0
  /\ \A ch \in {"|", ">"} : ~Has(argsBuffer[Len(argsBuffer)], ch)

InvSplit ==
  /\ line \in Seq(Chars) /\ s \in Seq(Chars) /\ Len(s) <= Len(line)
  /\ argsBuffer \in Seq(Seq(Chars)) /\ places \in Seq(Nat)
  /\ pc # "crashed"
  /\ pc = "run" => LastPlain

\* The steps of the children leave the shell and its line alone.
LEMMA ChildrenQuiet ==
  ASSUME Left \/ Right \/ RightQuits \/ OnlyEnds
  PROVE  UNCHANGED <<pc, line, s, argsBuffer, places, pid1, pid2>>
<1>1. UNCHANGED shellVars
  BY DEF Left, Right, RightQuits, OnlyEnds, Exec, ExecFails, Ends, LeftWrites, LeftEnds,
     RightReads, RightEnds
<1> QED BY <1>1 DEF shellVars, lineVars

\* A place is one of s, or 0 if the character does not occur.
LEMMA PlaceIs ==
  ASSUME NEW ch, s \in Seq(Chars)
  PROVE  /\ Place(ch) \in 0 .. Len(s)
         /\ Place(ch) = 0 => \A i \in DOMAIN s : s[i] # ch
         /\ Place(ch) # 0 => s[Place(ch)] = ch /\ \A j \in 1 .. Place(ch) - 1 : s[j] # ch
<1>1. CASE \E i \in DOMAIN s : s[i] = ch
  <2>1. \E i \in DOMAIN s : s[i] = ch /\ \A j \in 1 .. i - 1 : s[j] # ch
    <3> DEFINE found == {i \in 1 .. Len(s) : s[i] = ch}
    <3>1. found \subseteq Nat /\ found # {}
      BY <1>1
    <3>2. PICK i \in found : \A j \in found : i <= j
      BY <3>1, LeastOf
    <3>3. ASSUME NEW j \in 1 .. i - 1 PROVE s[j] # ch
      <4>1. i \in 1 .. Len(s) /\ Len(s) \in Nat
        OBVIOUS
      <4>2. j \in 1 .. Len(s) /\ ~(i <= j)
        BY <4>1
      <4> QED BY <3>2, <4>2
    <3> QED BY <3>2, <3>3
  <2>2. /\ Place(ch) \in DOMAIN s /\ s[Place(ch)] = ch
        /\ \A j \in 1 .. Place(ch) - 1 : s[j] # ch
    BY <1>1, <2>1 DEF Place
  <2> QED BY <2>2
<1>2. CASE ~\E i \in DOMAIN s : s[i] = ch
  BY <1>2 DEF Place
<1> QED BY <1>1, <1>2

\* The cut is a place of s; without one no "|" and no ">" is left.
LEMMA CutIs ==
  ASSUME s \in Seq(Chars)
  PROVE  /\ Cut \in 0 .. Len(s)
         /\ Cut = 0 => \A i \in DOMAIN s : s[i] # "|" /\ s[i] # ">"
<1>1. /\ Place(" ") \in 0 .. Len(s) /\ Place("|") \in 0 .. Len(s) /\ Place(">") \in 0 .. Len(s)
      /\ Place("|") = 0 => \A i \in DOMAIN s : s[i] # "|"
      /\ Place(">") = 0 => \A i \in DOMAIN s : s[i] # ">"
  BY PlaceIs
<1>2. Cut \in 0 .. Len(s)
  BY <1>1 DEF Cut
<1>3. Cut = 0 => Place("|") = 0 /\ Place(">") = 0
  BY <1>1 DEF Cut, Before
<1> QED BY <1>1, <1>2, <1>3

\* What split() stores are tokens, and the last one has no separator.
LEMMA SplitKeeps ==
  ASSUME InvSplit, Split \/ EndSplit
  PROVE  InvSplit'
<1>1. CASE Split
  <2>1. Cut \in 1 .. Len(s) /\ Len(s) \in Nat
    BY <1>1, CutIs DEF Split, InvSplit
  <2>2. SubSeq(s, 1, Cut - 1) \in Seq(Chars) /\ s[Cut] \in Chars
    BY <2>1, Piece DEF InvSplit
  <2>3. Found \in Seq(Seq(Chars))
    <3>1. /\ (IF Cut = 1 THEN <<>> ELSE <<SubSeq(s, 1, Cut - 1)>>) \in Seq(Seq(Chars))
          /\ (IF s[Cut] = " " THEN <<>> ELSE <<<<s[Cut]>>>>) \in Seq(Seq(Chars))
      <4>1. /\ <<>> \in Seq(Seq(Chars))
            /\ <<SubSeq(s, 1, Cut - 1)>> \in Seq(Seq(Chars))
        BY <2>2
      <4>2. <<s[Cut]>> \in Seq(Chars)
        BY <2>2
      <4>3. <<<<s[Cut]>>>> \in Seq(Seq(Chars))
        BY <4>2
      <4> QED BY <4>1, <4>3, Zenon
    <3> QED BY <3>1, Joined DEF Found
  <2>4. /\ SubSeq(s, Cut + 1, Len(s)) \in Seq(Chars)
        /\ Len(SubSeq(s, Cut + 1, Len(s))) <= Len(s)
    BY <2>1, Piece DEF InvSplit
  <2>5. argsBuffer \o Found \in Seq(Seq(Chars))
    BY <2>3, Joined DEF InvSplit
  <2>6. pc' \in {"split", "overrun"}
    BY <1>1 DEF Split, Store
  <2>7. places \o FoundAt \in Seq(Nat)
    <3>1. Done \in Nat
      BY DEF Done, InvSplit
    <3>2. Done + 1 \in Nat /\ Done + Cut \in Nat
      BY <2>1, <3>1
    <3>3. <<>> \in Seq(Nat) /\ <<Done + 1>> \in Seq(Nat) /\ <<Done + Cut>> \in Seq(Nat)
      BY <3>2
    <3>4. FoundAt \in Seq(Nat)
      <4>1. /\ (IF Cut = 1 THEN <<>> ELSE <<Done + 1>>) \in Seq(Nat)
            /\ (IF s[Cut] = " " THEN <<>> ELSE <<Done + Cut>>) \in Seq(Nat)
        BY <3>3, Zenon
      <4> QED BY <4>1, Joined DEF FoundAt
    <3> QED BY <3>4, Joined DEF InvSplit
  <2>8. Len(s') <= Len(line)
    <3>1. Len(s') \in Nat /\ Len(s') <= Len(s)
      BY <1>1, <2>4 DEF Split
    <3> QED BY <2>1, <3>1 DEF InvSplit
  <2> QED BY <1>1, <2>4, <2>5, <2>6, <2>7, <2>8 DEF Split, Store, InvSplit
<1>2. CASE EndSplit
  <2>1. \A i \in DOMAIN s : s[i] # "|" /\ s[i] # ">"
    BY <1>2, CutIs DEF EndSplit, InvSplit
  <2>2. <<s>> \in Seq(Seq(Chars)) /\ Len(<<s>>) = 1 /\ <<s>>[1] = s
    BY DEF InvSplit
  <2>3. /\ argsBuffer \o <<s>> \in Seq(Seq(Chars)) /\ Len(argsBuffer) \in Nat
        /\ Len(argsBuffer \o <<s>>) = Len(argsBuffer) + 1
        /\ (argsBuffer \o <<s>>)[Len(argsBuffer) + 1] = s
    BY <2>2, Joined DEF InvSplit
  <2>4. argsBuffer' = argsBuffer \o <<s>> /\ pc' \in {"run", "overrun"}
    BY <1>2 DEF EndSplit, Store, LastToken
  <2>5. LastPlain'
    BY <2>1, <2>3, <2>4 DEF LastPlain, Has
  <2>6. places' \in Seq(Nat)
    <3>1. Done + 1 \in Nat
      BY DEF Done, InvSplit
    <3>2. places \o <<Done + 1>> \in Seq(Nat)
      <4>1. <<Done + 1>> \in Seq(Nat)
        BY <3>1
      <4> QED BY <4>1, Joined DEF InvSplit
    <3> QED BY <1>2, <3>2 DEF EndSplit
  <2> QED BY <1>2, <2>3, <2>4, <2>5, <2>6 DEF EndSplit, InvSplit
<1> QED BY <1>1, <1>2

\* A "|" or ">" is never in the last token, so that Run() finds another one after it.
LEMMA RunKeeps ==
  ASSUME InvSplit, Run
  PROVE  pc' # "crashed"
<1> DEFINE t     == Special(argsBuffer)
           found == {i \in DOMAIN argsBuffer : Has(argsBuffer[i], "|") \/ Has(argsBuffer[i], ">")}
<1>1. pc = "run" /\ LastPlain /\ Len(argsBuffer) \in Nat
  BY DEF Run, InvSplit
<1>2. ASSUME t # 0 PROVE t \in Nat /\ t + 1 <= Len(argsBuffer)
  <2>1. found # {} /\ found \subseteq 1 .. Len(argsBuffer)
    BY <1>2 DEF Special, InvSplit
  <2>2. \E i \in found : \A j \in found : i <= j
    <3>1. found # {} /\ found \subseteq Nat
      BY <2>1
    <3> QED BY <3>1, LeastOf
  <2>3. t \in found
    BY <2>1, <2>2 DEF Special
  <2>4. t # Len(argsBuffer)
    BY <1>1, <2>3 DEF LastPlain
  <2> QED BY <1>1, <2>1, <2>3, <2>4
<1> HIDE DEF t
<1>3. \/ pc' \in {"prompt", "exited", "fork", "pipe", "open"}
      \/ pc' = "crashed" /\ t # 0 /\ t + 1 > Len(argsBuffer)
  BY DEF Run, t
<1>4. t # 0 => t \in Nat
  BY <1>2
<1> QED BY <1>1, <1>2, <1>3, <1>4

\* The tokens are sequences of characters, and Run() finds the last of them plain.
LEMMA TokensInvariant == Spec => []InvSplit
<1>1. Init => InvSplit
  BY DEF Init, InvSplit
<1>2. InvSplit /\ [Next]_vars => InvSplit'
  <2> SUFFICES ASSUME InvSplit, [Next]_vars PROVE InvSplit'
    OBVIOUS
  <2>1. CASE TypeLine
    <3>1. /\ line' \in Seq(Chars) /\ s' = line' /\ argsBuffer' = <<>> /\ places' = <<>>
          /\ pc' \in {"prompt", "split"}
      BY <2>1, ShellAssumption DEF TypeLine
    <3>2. Len(line') \in Nat
      BY <3>1
    <3> QED BY <3>1, <3>2 DEF InvSplit
  <2>2. CASE Split \/ EndSplit
    BY <2>2, SplitKeeps
  <2>3. CASE Run
    <3>1. pc' # "crashed" /\ pc' # "run"
      BY <2>3, RunKeeps DEF Run
    <3> QED BY <2>3, <3>1 DEF Run, lineVars, InvSplit
  <2>4. CASE TypeEof \/ ForkOnly \/ WaitOnly \/ Pipe \/ PipeFails \/ Fork1 \/ Fork2
             \/ CloseEnds \/ Wait1 \/ Wait2
    BY <2>4 DEF TypeEof, ForkOnly, WaitOnly, Pipe, PipeFails, Fork1, Fork2, CloseEnds,
       Wait1, Wait2, lineVars, InvSplit
  <2>5. CASE Open
    <3>1. pc' \in {"prompt", "fork"}
      BY <2>5 DEF Open
    <3> QED BY <2>5, <3>1 DEF Open, lineVars, InvSplit
  <2>6. CASE Left \/ Right \/ RightQuits \/ OnlyEnds
    BY <2>6, ChildrenQuiet DEF InvSplit, LastPlain
  <2>7. CASE UNCHANGED vars
    BY <2>7 DEF vars, lineVars, InvSplit, LastPlain
  <2> QED BY <2>1, <2>2, <2>3, <2>4, <2>5, <2>6, <2>7 DEF Next, ReadLine, Steps
<1> QED BY <1>1, <1>2, PTL DEF Spec

\* TargetThere of Shell.tla: what follows a ">" is never NULL (shell.h:179).
THEOREM Target == Spec => []TargetThere
<1>1. InvSplit => TargetThere
  BY DEF InvSplit, TargetThere
<1> QED BY <1>1, TokensInvariant, PTL

-----------------------------------------------------------------------------
(* What is cut off the line, for a line l split up to character o, whose next cut is at n. *)

\* What lies before the cut: either no separator at all, or, before a "|", other
\* characters than "|", and no blank without a ">" before it.
LEMMA CutMeans ==
  ASSUME s \in Seq(Chars), Cut # 0
  PROVE  /\ Cut \in 1 .. Len(s) /\ s[Cut] \in Separators
         /\ s[Cut] # "|" => \A i \in 1 .. Cut - 1 : s[i] \notin Separators
         /\ s[Cut] = ">" => \A i \in 1 .. Len(s) : s[i] # "|"
         /\ s[Cut] = "|" => /\ \A i \in 1 .. Cut - 1 : s[i] # "|"
                            /\ \A i \in 1 .. Cut - 1 :
                                 s[i] = " " => \E h \in 1 .. i - 1 : s[h] = ">"
<1>1. Len(s) \in Nat /\ DOMAIN s = 1 .. Len(s)
  OBVIOUS
<1>2. \A ch \in Separators :
        /\ Place(ch) \in 0 .. Len(s)
        /\ Place(ch) # 0 => s[Place(ch)] = ch
        /\ \A i \in 1 .. Len(s) : s[i] = ch => Place(ch) # 0 /\ Place(ch) <= i
  <2>1. ASSUME NEW ch, NEW i \in 1 .. Len(s), s[i] = ch PROVE Place(ch) # 0 /\ Place(ch) <= i
    <3>1. Place(ch) # 0 /\ \A j \in 1 .. Place(ch) - 1 : s[j] # ch
      BY <1>1, <2>1, PlaceIs
    <3>2. Place(ch) \in 1 .. Len(s)
      BY <3>1, PlaceIs
    <3>3. ~(i \in 1 .. Place(ch) - 1)
      BY <2>1, <3>1
    <3> QED BY <1>1, <3>1, <3>2, <3>3
  <2> QED BY <2>1, PlaceIs
<1> DEFINE b == Place(" ")
           p == Place("|")
           g == Place(">")
           First(q, ch) == /\ q \in 0 .. Len(s)
                           /\ q # 0 => s[q] = ch
                           /\ \A i \in 1 .. Len(s) : s[i] = ch => q # 0 /\ q <= i
<1>3. First(b, " ") /\ First(p, "|") /\ First(g, ">")
  BY <1>2 DEF Separators
<1>4. \/ (Before(p, b) \/ Before(g, b)) /\ p # 0 /\ Cut = p
      \/ Before(g, b) /\ p = 0 /\ Cut = g
      \/ ~Before(p, b) /\ ~Before(g, b) /\ Cut = b
  BY DEF Cut, Before
<1> HIDE DEF b, p, g
<1>8. ASSUME NEW q, NEW ch, First(q, ch), q # 0 PROVE q \in 1 .. Len(s) /\ s[q] = ch
  <2>1. q \in 0 .. Len(s) /\ s[q] = ch
    BY <1>8
  <2>2. q \in 1 .. Len(s)
    BY <1>1, <1>8, <2>1
  <2> QED BY <2>1, <2>2
<1>9. ASSUME NEW q, NEW ch, First(q, ch), NEW i \in 1 .. Len(s), s[i] = ch
      PROVE  q # 0 /\ q <= i /\ q \in 1 .. Len(s)
  <2>1. q # 0 /\ q <= i /\ q \in 0 .. Len(s)
    BY <1>9
  <2> QED BY <1>1, <2>1
<1> HIDE DEF First
<1>5. CASE (Before(p, b) \/ Before(g, b)) /\ p # 0 /\ Cut = p
  <2>1. p \in 1 .. Len(s) /\ s[p] = "|"
    BY <1>3, <1>5, <1>8
  <2>2. ASSUME NEW i \in 1 .. p - 1
        PROVE  s[i] # "|" /\ (s[i] = " " => \E h \in 1 .. i - 1 : s[h] = ">")
    <3>1. i \in 1 .. Len(s) /\ i < p
      BY <1>1, <2>1
    <3>2. s[i] # "|"
      <4>1. s[i] = "|" => p <= i
        BY <1>3, <1>9, <3>1
      <4> QED BY <1>1, <2>1, <3>1, <4>1
    <3>3. ASSUME s[i] = " " PROVE g \in 1 .. i - 1 /\ s[g] = ">"
      <4>1. b # 0 /\ b <= i /\ b \in 1 .. Len(s)
        BY <1>3, <1>9, <3>1, <3>3
      <4>2. ~Before(p, b)
        BY <1>1, <2>1, <3>1, <4>1 DEF Before
      <4>3. g # 0 /\ g < b
        BY <1>5, <4>1, <4>2 DEF Before
      <4>4. g \in 1 .. Len(s) /\ s[g] = ">"
        BY <1>3, <1>8, <4>3
      <4> QED BY <1>1, <3>1, <4>1, <4>3, <4>4
    <3> QED BY <3>2, <3>3
  <2>3. Cut = p /\ s[Cut] = "|"
    BY <1>5, <2>1
  <2>4. s[Cut] # ">"
    BY <2>3
  <2> QED BY <2>1, <2>2, <2>3, <2>4 DEF Separators
<1>6. CASE Before(g, b) /\ p = 0 /\ Cut = g
  <2>1. g \in 1 .. Len(s) /\ s[g] = ">"
    <3>1. g # 0
      BY <1>6 DEF Before
    <3> QED BY <1>3, <1>8, <3>1
  <2>2. ASSUME NEW i \in 1 .. Len(s) PROVE s[i] # "|" /\ (i < g => s[i] \notin Separators)
    <3>1. s[i] # "|"
      BY <1>3, <1>6, <1>9
    <3>2. ASSUME i < g PROVE s[i] # ">" /\ s[i] # " "
      <4>1. s[i] # ">"
        <5>1. s[i] = ">" => g <= i
          BY <1>3, <1>9
        <5> QED BY <1>1, <2>1, <3>2, <5>1
      <4>2. ASSUME s[i] = " " PROVE FALSE
        <5>1. b # 0 /\ b <= i /\ b \in 1 .. Len(s)
          BY <1>3, <1>9, <4>2
        <5>2. g < b
          BY <1>6, <5>1 DEF Before
        <5> QED BY <1>1, <2>1, <3>2, <5>1, <5>2
      <4> QED BY <4>1, <4>2
    <3> QED BY <3>1, <3>2 DEF Separators
  <2>3. Cut = g /\ s[Cut] = ">"
    BY <1>6, <2>1
  <2>4. s[Cut] # "|"
    BY <2>3
  <2>5. \A i \in 1 .. g - 1 : i \in 1 .. Len(s) /\ i < g
    BY <1>1, <2>1
  <2> QED BY <2>1, <2>2, <2>3, <2>4, <2>5 DEF Separators
<1>7. CASE ~Before(p, b) /\ ~Before(g, b) /\ Cut = b
  <2>1. b \in 1 .. Len(s) /\ s[b] = " "
    <3>1. b # 0
      BY <1>7
    <3> QED BY <1>3, <1>8, <3>1
  <2>2. ASSUME NEW i \in 1 .. b - 1 PROVE s[i] \notin Separators
    <3>0. b \in 1 .. Len(s)
      BY <2>1
    <3>1. i \in 1 .. Len(s) /\ i < b /\ i \in Nat /\ b \in Nat
      BY <1>1, <3>0
    <3>2. s[i] # " "
      <4>1. ~(b <= i)
        BY <3>1
      <4> QED BY <1>3, <1>9, <3>1, <4>1
    <3>3. ASSUME NEW q, NEW ch, First(q, ch), ~Before(q, b), s[i] = ch PROVE FALSE
      <4>1. q # 0 /\ q <= i /\ q \in 1 .. Len(s)
        BY <1>9, <3>1, <3>3
      <4>2. ~(q < b)
        BY <3>3, <4>1 DEF Before
      <4> QED BY <1>1, <3>1, <4>1, <4>2
    <3>4. s[i] # "|" /\ s[i] # ">"
      BY <1>3, <1>7, <3>3
    <3> QED BY <3>2, <3>4 DEF Separators
  <2>3. Cut = b /\ s[Cut] = " "
    BY <1>7, <2>1
  <2>4. s[Cut] # "|" /\ s[Cut] # ">"
    BY <2>3
  <2> QED BY <2>1, <2>2, <2>3, <2>4 DEF Separators
<1> QED BY <1>4, <1>5, <1>6, <1>7

\* n is the cut that follows o, with what CutMeans says.
NextCut(l, o, n) ==
  /\ l[n] \in Separators
  /\ l[n] # "|" => \A i \in o + 1 .. n - 1 : l[i] \notin Separators
  /\ l[n] = ">" => \A i \in o + 1 .. Len(l) : l[i] # "|"
  /\ l[n] = "|" => /\ \A i \in o + 1 .. n - 1 : l[i] # "|"
                   /\ \A i \in o + 1 .. n - 1 :
                        l[i] = " " => \E h \in o + 1 .. i - 1 : l[h] = ">"

\* Without a cut no separator is left.
LEMMA NoCut ==
  ASSUME s \in Seq(Chars), Cut = 0
  PROVE  \A i \in DOMAIN s : s[i] \notin Separators
<1>1. Place(" ") = 0 /\ Place("|") = 0 /\ Place(">") = 0
  BY PlaceIs DEF Cut, Before
<1>2. \A ch \in Separators : \A i \in DOMAIN s : s[i] # ch
  BY <1>1, PlaceIs DEF Separators
<1> QED BY <1>2

\* What is before the cut is a word and all words of this part of the line are cut off, or
\* it is no word and the line cannot be split.
LEMMA NextWord ==
  ASSUME NEW l \in Seq(Chars), NEW o \in 0 .. Len(l), NEW n \in o + 1 .. Len(l),
         o = 0 \/ l[o] \in Separators, NextCut(l, o, n)
  PROVE  \/ /\ Splittable(l, n) <=> Splittable(l, o)
            /\ n # o + 1 => IsWord(l, o + 1, n - 1)
            /\ \A i, j \in DOMAIN l : /\ o < i /\ i <= n /\ i <= j
                                      /\ IsWord(l, i, j)
                                      => \/ (i = o + 1 /\ n # o + 1)
                                         \/ (i = n /\ l[n] # " ")
         \/ ~Splittable(l, n) /\ n # o + 1 /\ ~IsWord(l, o + 1, n - 1)
<1>1. Len(l) \in Nat /\ DOMAIN l = 1 .. Len(l) /\ o \in Nat /\ n \in Nat /\ n <= Len(l) /\ o + 1 <= n
  OBVIOUS
<1>2. CASE \A i \in o + 1 .. n - 1 : l[i] \notin Separators
  <2>1. Splittable(l, n) <=> Splittable(l, o)
    <3>1. ASSUME Splittable(l, n) PROVE Splittable(l, o)
      <4>1. 1 .. o \subseteq 1 .. n
        BY <1>1
      <4> QED BY <3>1, <4>1 DEF Splittable
    <3>2. ASSUME Splittable(l, o) PROVE Splittable(l, n)
      <4>1. ASSUME NEW i \in 1 .. n, l[i] = ">", NEW j \in DOMAIN l, l[j] = "|", i < j
            PROVE  i \in 1 .. o
        <5>1. i \in 1 .. o \/ i \in o + 1 .. n - 1 \/ i = n
          BY <1>1
        <5>2. j \in o + 1 .. Len(l) \/ i \in 1 .. o
          BY <1>1, <4>1, <5>1
        <5>3. ~(i \in o + 1 .. n - 1)
          BY <1>2, <4>1 DEF Separators
        <5>4. ~(i = n /\ j \in o + 1 .. Len(l))
          BY <4>1 DEF NextCut
        <5> QED BY <5>1, <5>2, <5>3, <5>4
      <4> QED BY <3>2, <4>1 DEF Splittable
    <3> QED BY <3>1, <3>2
  <2>2. ASSUME n # o + 1 PROVE IsWord(l, o + 1, n - 1)
    <3>1. o + 1 - 1 = o /\ n - 1 + 1 = n
      BY <1>1
    <3>2. o + 1 = 1 \/ l[(o + 1) - 1] \in Separators
      BY <1>1, <3>1
    <3>3. l[n - 1 + 1] \in Separators
      BY <3>1 DEF NextCut
    <3> QED BY <1>2, <3>2, <3>3 DEF IsWord
  <2>3. ASSUME NEW i \in DOMAIN l, NEW j \in DOMAIN l, o < i, i <= n, i <= j, IsWord(l, i, j)
        PROVE  (i = o + 1 /\ n # o + 1) \/ (i = n /\ l[n] # " ")
    <3>1. CASE i = n
      <4>1. i \in i .. j
        BY <1>1, <2>3
      <4>2. l[i] # " "
        BY <2>3, <4>1 DEF IsWord, Separators
      <4> QED BY <3>1, <4>2
    <3>2. CASE i # n /\ i # o + 1
      <4>1. i \in o + 1 .. n - 1 /\ i - 1 \in o + 1 .. n - 1 /\ i # 1
        BY <1>1, <2>3, <3>2
      <4>2. l[i] \notin Separators /\ l[i - 1] \notin Separators
        BY <1>2, <4>1
      <4> QED BY <2>3, <4>1, <4>2 DEF IsWord, Separators
    <3>3. CASE i = o + 1 /\ i # n
      BY <3>3
    <3> QED BY <3>1, <3>2, <3>3
  <2> QED BY <2>1, <2>2, <2>3
<1>3. CASE \E i \in o + 1 .. n - 1 : l[i] \in Separators
  <2>1. l[n] = "|" /\ \A i \in o + 1 .. n - 1 : l[i] # "|"
    BY <1>3 DEF NextCut
  <2>2. PICK g \in o + 1 .. n - 1 : l[g] = ">"
    <3>1. PICK i \in o + 1 .. n - 1 : l[i] \in {" ", ">"}
      BY <1>3, <2>1 DEF Separators
    <3>2. CASE l[i] = " "
      <4>1. PICK h \in o + 1 .. i - 1 : l[h] = ">"
        BY <2>1, <3>2 DEF NextCut
      <4>2. h \in o + 1 .. n - 1
        BY <1>1
      <4> QED BY <4>1, <4>2
    <3> QED BY <3>1, <3>2
  <2>3. n # o + 1 /\ g \in Nat /\ g < n
    BY <1>1
  <2>4. CASE n = o + 2
    <3>1. o + 1 \in Nat /\ n - 1 = o + 1 /\ g = o + 1
      BY <1>1, <2>4
    <3>2. IsWord(l, o + 1, n - 1)
      BY <2>2, <3>1 DEF IsWord
    <3>3. Splittable(l, n) <=> Splittable(l, o)
      <4>1. ASSUME Splittable(l, n) PROVE Splittable(l, o)
        <5>1. 1 .. o \subseteq 1 .. n
          BY <1>1
        <5> QED BY <4>1, <5>1 DEF Splittable
      <4>2. ASSUME Splittable(l, o), NEW i \in 1 .. n, NEW j \in DOMAIN l, l[i] = ">", l[j] = "|",
                   i < j, \A h \in i .. j - 1 : l[h] # "|"
            PROVE  j = i + 1 /\ (i = 1 \/ l[i - 1] \in Separators)
        <5>1. i \in 1 .. o \/ i = o + 1 \/ i = n
          BY <1>1, <2>4
        <5>2. CASE i \in 1 .. o
          BY <4>2, <5>2 DEF Splittable
        <5>3. CASE i = o + 1
          <6>1. j = n
            <7>1. j \in Nat /\ n = i + 1 /\ i \in Nat
              BY <1>1, <2>4, <5>3
            <7>2. j > n => n \in i .. j - 1
              BY <1>1, <7>1
            <7>3. ~(j > n)
              BY <2>1, <4>2, <7>2
            <7> QED BY <4>2, <7>1, <7>3
          <6>2. o # 0 => l[i - 1] \in Separators
            BY <1>1, <5>3
          <6> QED BY <1>1, <2>4, <5>3, <6>1, <6>2
        <5>4. CASE i = n
          BY <2>1, <4>2, <5>4
        <5> QED BY <5>1, <5>2, <5>3, <5>4
      <4>3. ASSUME Splittable(l, o) PROVE Splittable(l, n)
        BY <4>2, <4>3 DEF Splittable
      <4> QED BY <4>1, <4>3
    <3>4. ASSUME NEW i \in DOMAIN l, o < i, i <= n PROVE i = o + 1 \/ i = n
      BY <1>1, <2>4, <3>4
    <3> QED BY <2>1, <2>3, <3>2, <3>3, <3>4
  <2>5. CASE n # o + 2
    <3>1. ~IsWord(l, o + 1, n - 1)
      <4>1. g \in o + 1 .. n - 1 /\ l[g] \in Separators
        BY <2>2 DEF Separators
      <4>2. o + 1 # n - 1
        BY <1>1, <2>5
      <4> QED BY <4>1, <4>2 DEF IsWord
    <3>2. ASSUME Splittable(l, n) PROVE FALSE
      <4>1. ASSUME NEW i \in o + 1 .. n - 1, l[i] = ">"
            PROVE  i = n - 1 /\ l[i - 1] \in Separators
        <5>1. i \in 1 .. n /\ i < n /\ n \in DOMAIN l
          BY <1>1
        <5>2. \A h \in i .. n - 1 : l[h] # "|"
          <6>1. i .. n - 1 \subseteq o + 1 .. n - 1
            BY <1>1
          <6> QED BY <2>1, <6>1
        <5>3. n = i + 1 /\ (i = 1 \/ l[i - 1] \in Separators)
          BY <2>1, <3>2, <4>1, <5>1, <5>2 DEF Splittable
        <5>4. i # 1
          BY <1>1, <2>5, <5>3
        <5> QED BY <1>1, <5>3, <5>4
      <4>2. g = n - 1 /\ l[g - 1] \in Separators
        BY <2>2, <4>1
      <4>3. g - 1 \in o + 1 .. n - 1 /\ g - 1 # n - 1
        BY <1>1, <2>3, <2>5, <4>2
      <4>4. l[g - 1] = " "
        BY <2>1, <4>1, <4>2, <4>3 DEF Separators
      <4>5. PICK h \in o + 1 .. (g - 1) - 1 : l[h] = ">"
        BY <2>1, <4>3, <4>4 DEF NextCut
      <4>6. h \in o + 1 .. n - 1 /\ h # n - 1
        BY <1>1, <2>3
      <4> QED BY <4>1, <4>5, <4>6
    <3> QED BY <2>3, <3>1, <3>2
  <2> QED BY <2>4, <2>5
<1> QED BY <1>2, <1>3

-----------------------------------------------------------------------------
\* Each place is after the one before it; the tokens are words of l at their places.
Rising(p) == \A i, j \in DOMAIN p : i < j => p[i] < p[j]

AllAt(l, p, tokens) == \A i \in DOMAIN tokens : WordAt(l, p[i], tokens[i])

\* One list of places after another.
LEMMA JoinedPlaces ==
  ASSUME NEW p \in Seq(Nat), NEW q \in Seq(Nat)
  PROVE  /\ p \o q \in Seq(Nat) /\ Len(p \o q) = Len(p) + Len(q)
         /\ \A i \in 1 .. Len(p) : (p \o q)[i] = p[i]
         /\ \A i \in 1 .. Len(q) : (p \o q)[Len(p) + i] = q[i]
BY Joined

\* Tokens from behind a place are added to those from before it.
LEMMA Longer ==
  ASSUME NEW l, NEW x \in Seq(Seq(Chars)), NEW y \in Seq(Seq(Chars)),
         NEW p \in Seq(Nat), NEW q \in Seq(Nat), Len(p) = Len(x), Len(q) = Len(y),
         NEW o \in Nat, \A i \in DOMAIN p : p[i] <= o, \A i \in DOMAIN q : o < q[i],
         Rising(p), Rising(q)
  PROVE  /\ Len(p \o q) = Len(x \o y)
         /\ Rising(p \o q)
         /\ AllAt(l, p \o q, x \o y) <=> AllAt(l, p, x) /\ AllAt(l, q, y)
<1> DEFINE a == Len(x)
           b == Len(y)
           r == p \o q
           z == x \o y
<1>1. /\ a \in Nat /\ b \in Nat /\ r \in Seq(Nat) /\ z \in Seq(Seq(Chars))
      /\ Len(r) = a + b /\ Len(z) = a + b
      /\ \A i \in 1 .. a : r[i] = p[i] /\ z[i] = x[i]
      /\ \A i \in 1 .. b : r[a + i] = q[i] /\ z[a + i] = y[i]
  <2>1. /\ a \in Nat /\ b \in Nat /\ z \in Seq(Seq(Chars)) /\ Len(z) = a + b
        /\ \A i \in 1 .. a : z[i] = x[i]
        /\ \A i \in 1 .. b : z[a + i] = y[i]
    BY Joined
  <2>2. /\ r \in Seq(Nat) /\ Len(r) = a + b
        /\ \A i \in 1 .. a : r[i] = p[i]
        /\ \A i \in 1 .. b : r[a + i] = q[i]
    <3>1. /\ r \in Seq(Nat) /\ Len(r) = Len(p) + Len(q)
          /\ \A i \in 1 .. Len(p) : r[i] = p[i]
          /\ \A i \in 1 .. Len(q) : r[Len(p) + i] = q[i]
      BY JoinedPlaces
    <3> QED BY <3>1
  <2> QED BY <2>1, <2>2
<1>2. /\ DOMAIN p = 1 .. a /\ DOMAIN x = 1 .. a /\ DOMAIN q = 1 .. b /\ DOMAIN y = 1 .. b
      /\ DOMAIN r = 1 .. a + b /\ DOMAIN z = 1 .. a + b
  BY <1>1
<1>3. \A i \in 1 .. a : p[i] \in Nat
  BY <1>2
<1>4. \A i \in 1 .. b : q[i] \in Nat
  BY <1>2
<1> HIDE DEF a, b, r, z
<1>5. ASSUME NEW i \in 1 .. a + b
      PROVE  i \in 1 .. a \/ \E j \in 1 .. b : i = a + j
  <2>1. CASE i <= a
    BY <1>1, <2>1
  <2>2. CASE ~(i <= a)
    <3>1. i - a \in 1 .. b /\ i = a + (i - a)
      BY <1>1, <2>2
    <3> QED BY <3>1
  <2> QED BY <2>1, <2>2
<1>6. \A i \in 1 .. a : i \in 1 .. a + b
  BY <1>1
<1>7. \A i \in 1 .. b : a + i \in 1 .. a + b /\ ~(a + i \in 1 .. a)
  BY <1>1
<1>8. Rising(r)
  <2>1. ASSUME NEW i \in 1 .. a + b, NEW j \in 1 .. a + b, i < j PROVE r[i] < r[j]
    <3>1. CASE j \in 1 .. a
      <4>1. i \in 1 .. a
        BY <1>1, <2>1, <3>1
      <4>2. p[i] < p[j]
        BY <1>2, <2>1, <3>1, <4>1 DEF Rising
      <4> QED BY <1>1, <3>1, <4>1, <4>2
    <3>2. CASE j \notin 1 .. a
      <4>1. PICK m \in 1 .. b : j = a + m
        BY <1>5, <3>2
      <4>2. r[j] = q[m] /\ o < q[m] /\ q[m] \in Nat
        BY <1>1, <1>2, <1>4, <4>1
      <4>3. CASE i \in 1 .. a
        <5>1. r[i] = p[i] /\ p[i] <= o /\ p[i] \in Nat
          BY <1>1, <1>2, <1>3, <4>3
        <5> QED BY <4>2, <5>1
      <4>4. CASE i \notin 1 .. a
        <5>1. PICK n \in 1 .. b : i = a + n
          BY <1>5, <4>4
        <5>2. n < m
          BY <1>1, <2>1, <4>1, <5>1
        <5>3. q[n] < q[m]
          BY <1>2, <5>2 DEF Rising
        <5> QED BY <1>1, <4>2, <5>1, <5>3
      <4> QED BY <4>3, <4>4
    <3> QED BY <3>1, <3>2
  <2> QED BY <1>2, <2>1 DEF Rising
<1>9. AllAt(l, r, z) <=> AllAt(l, p, x) /\ AllAt(l, q, y)
  <2>1. ASSUME AllAt(l, r, z) PROVE AllAt(l, p, x) /\ AllAt(l, q, y)
    <3>1. \A i \in 1 .. a : WordAt(l, p[i], x[i])
      BY <1>1, <1>2, <1>6, <2>1 DEF AllAt
    <3>2. \A i \in 1 .. b : WordAt(l, q[i], y[i])
      BY <1>1, <1>2, <1>7, <2>1 DEF AllAt
    <3> QED BY <1>2, <3>1, <3>2 DEF AllAt
  <2>2. ASSUME AllAt(l, p, x), AllAt(l, q, y), NEW i \in 1 .. a + b PROVE WordAt(l, r[i], z[i])
    <3>1. CASE i \in 1 .. a
      <4>1. r[i] = p[i] /\ z[i] = x[i]
        BY <1>1, <3>1
      <4>2. WordAt(l, p[i], x[i])
        BY <1>2, <2>2, <3>1 DEF AllAt
      <4> QED BY <4>1, <4>2
    <3>2. CASE \E j \in 1 .. b : i = a + j
      <4>1. PICK j \in 1 .. b : i = a + j
        BY <3>2
      <4>2. r[i] = q[j] /\ z[i] = y[j]
        BY <1>1, <4>1
      <4>3. WordAt(l, q[j], y[j])
        BY <1>2, <2>2 DEF AllAt
      <4> QED BY <4>2, <4>3
    <3> QED BY <1>5, <3>1, <3>2
  <2> QED BY <1>2, <2>1, <2>2 DEF AllAt
<1>10. Len(r) = Len(z)
  BY <1>1
<1> QED BY <1>8, <1>9, <1>10 DEF r, z

\* The places of both parts are those of the whole.
LEMMA RangeJoined ==
  ASSUME NEW p \in Seq(Nat), NEW q \in Seq(Nat)
  PROVE  Range(p \o q) = Range(p) \union Range(q)
<1> DEFINE a == Len(p)
           b == Len(q)
           r == p \o q
<1>1. /\ a \in Nat /\ b \in Nat /\ r \in Seq(Nat) /\ Len(r) = a + b
      /\ \A i \in 1 .. a : r[i] = p[i]
      /\ \A i \in 1 .. b : r[a + i] = q[i]
  BY JoinedPlaces
<1>2. DOMAIN p = 1 .. a /\ DOMAIN q = 1 .. b /\ DOMAIN r = 1 .. a + b
  BY <1>1
<1> HIDE DEF a, b, r
<1>3. ASSUME NEW i \in 1 .. a + b PROVE r[i] \in Range(p) \union Range(q)
  <2>1. CASE i <= a
    <3>1. i \in 1 .. a
      BY <1>1, <2>1
    <3> QED BY <1>1, <1>2, <3>1 DEF Range
  <2>2. CASE ~(i <= a)
    <3>1. i - a \in 1 .. b /\ i = a + (i - a)
      BY <1>1, <2>2
    <3>2. r[i] = q[i - a]
      BY <1>1, <3>1
    <3> QED BY <1>2, <3>1, <3>2 DEF Range
  <2> QED BY <2>1, <2>2
<1>4. ASSUME NEW i \in 1 .. a PROVE p[i] \in Range(r)
  <2>1. i \in 1 .. a + b
    BY <1>1
  <2> QED BY <1>1, <1>2, <2>1 DEF Range
<1>5. ASSUME NEW i \in 1 .. b PROVE q[i] \in Range(r)
  <2>1. a + i \in 1 .. a + b
    BY <1>1
  <2> QED BY <1>1, <1>2, <2>1 DEF Range
<1> QED BY <1>2, <1>3, <1>4, <1>5 DEF Range, r

\* While split() works: what is still to do is the rest of the line and begins after a
\* separator; each token so far has its place, in order; and as long as the line can be
\* split they are words, all that begin in this part of the line; otherwise some token
\* is no word.
SplitInv ==
  /\ line # <<>>
  /\ \A i \in 1 .. Len(s) : s[i] = line[Done + i]
  /\ Done = 0 \/ line[Done] \in Separators
  /\ Len(places) = Len(argsBuffer)
  /\ \A i \in DOMAIN places : places[i] <= Done
  /\ Rising(places)
  /\ AllAt(line, places, argsBuffer) <=> Splittable(line, Done)
  /\ Splittable(line, Done) =>
       \A i, j \in DOMAIN line :
         i <= Done /\ i <= j /\ IsWord(line, i, j) => i \in Range(places)

\* How much of the line has been done.
LEMMA DoneIs ==
  ASSUME InvSplit
  PROVE  /\ Len(line) \in Nat /\ DOMAIN line = 1 .. Len(line) /\ Len(s) \in Nat
         /\ Done \in 0 .. Len(line) /\ Len(line) = Done + Len(s)
BY DEF InvSplit, Done

\* The cut in terms of the line.
LEMMA CutInLine ==
  ASSUME InvSplit, SplitInv, Cut # 0
  PROVE  /\ Done + Cut \in Done + 1 .. Len(line) /\ Cut \in 1 .. Len(s)
         /\ s[Cut] = line[Done + Cut]
         /\ NextCut(line, Done, Done + Cut)
<1> DEFINE o == Done
<1>1. /\ Len(line) \in Nat /\ Len(s) \in Nat /\ o \in 0 .. Len(line) /\ Len(line) = o + Len(s)
  BY DoneIs
<1>2. s \in Seq(Chars)
  BY DEF InvSplit
<1>3. Cut \in 1 .. Len(s) /\ Cut \in Nat
  <2>1. Cut \in 1 .. Len(s)
    BY <1>2, CutMeans
  <2> QED BY <2>1
<1>4. \A i \in 1 .. Len(s) : s[i] = line[o + i]
  BY DEF SplitInv
<1> HIDE DEF o
<1>5. \A i \in o + 1 .. Len(line) : i - o \in 1 .. Len(s) /\ line[i] = s[i - o]
  <2>1. ASSUME NEW i \in o + 1 .. Len(line) PROVE i - o \in 1 .. Len(s) /\ o + (i - o) = i
    BY <1>1
  <2> QED BY <1>4, <2>1
<1>6. s[Cut] = line[o + Cut] /\ s[Cut] \in Separators
  BY <1>2, <1>3, <1>4, CutMeans
<1>7. ASSUME NEW i \in o + 1 .. (o + Cut) - 1
      PROVE  i - o \in 1 .. Cut - 1 /\ i \in o + 1 .. Len(line)
  BY <1>1, <1>3
<1>8. ASSUME s[Cut] # "|", NEW i \in o + 1 .. (o + Cut) - 1 PROVE line[i] \notin Separators
  <2>1. s[i - o] \notin Separators
    BY <1>2, <1>7, <1>8, CutMeans
  <2> QED BY <1>5, <1>7, <2>1
<1>9. ASSUME s[Cut] = ">", NEW i \in o + 1 .. Len(line) PROVE line[i] # "|"
  BY <1>2, <1>5, <1>9, CutMeans
<1>10. ASSUME s[Cut] = "|", NEW i \in o + 1 .. (o + Cut) - 1
       PROVE  line[i] # "|" /\ (line[i] = " " => \E h \in o + 1 .. i - 1 : line[h] = ">")
  <2>1. line[i] # "|"
    <3>1. s[i - o] # "|"
      BY <1>2, <1>7, <1>10, CutMeans
    <3> QED BY <1>5, <1>7, <3>1
  <2>2. ASSUME line[i] = " " PROVE \E h \in o + 1 .. i - 1 : line[h] = ">"
    <3>1. s[i - o] = " " /\ i - o \in 1 .. Cut - 1
      BY <1>5, <1>7, <2>2
    <3>2. PICK h \in 1 .. (i - o) - 1 : s[h] = ">"
      BY <1>2, <1>10, <3>1, CutMeans
    <3>3. o + h \in o + 1 .. i - 1 /\ h \in 1 .. Len(s)
      <4>1. i - o \in 1 .. Len(s) /\ i \in Nat /\ o \in Nat
        BY <1>1, <1>5, <1>7
      <4> QED BY <1>1, <4>1
    <3> QED BY <1>4, <3>2, <3>3
  <2> QED BY <2>1, <2>2
<1>11. NextCut(line, o, o + Cut)
  BY <1>6, <1>8, <1>9, <1>10 DEF NextCut
<1>12. o + Cut \in o + 1 .. Len(line)
  BY <1>1, <1>3
<1> QED BY <1>3, <1>6, <1>11, <1>12 DEF o

\* One place, or none.
LEMMA OnePlace ==
  ASSUME NEW i1 \in Nat, NEW p, p = <<>> \/ p = <<i1>>
  PROVE  /\ p \in Seq(Nat) /\ Rising(p)
         /\ p # <<>> => i1 \in Range(p)
         /\ \A i \in DOMAIN p : p # <<>> /\ p[i] = i1
<1>1. CASE p = <<>>
  <2>1. DOMAIN p = {} /\ p \in Seq(Nat)
    BY <1>1
  <2> QED BY <1>1, <2>1 DEF Rising
<1>2. CASE p = <<i1>>
  <2>1. DOMAIN p = {1} /\ p[1] = i1 /\ p \in Seq(Nat) /\ p # <<>>
    BY <1>2
  <2> QED BY <2>1 DEF Rising, Range
<1> QED BY <1>1, <1>2

\* One token at one place, or none.
LEMMA OneToken ==
  ASSUME NEW l, NEW token \in Seq(Chars), NEW i1 \in Nat, NEW x, NEW p,
         \/ x = <<>> /\ p = <<>>
         \/ x = <<token>> /\ p = <<i1>>
  PROVE  /\ x \in Seq(Seq(Chars)) /\ Len(p) = Len(x)
         /\ AllAt(l, p, x) <=> x = <<>> \/ WordAt(l, i1, token)
<1>1. CASE x = <<>> /\ p = <<>>
  <2>1. DOMAIN x = {} /\ x \in Seq(Seq(Chars)) /\ Len(p) = Len(x)
    BY <1>1
  <2> QED BY <1>1, <2>1 DEF AllAt
<1>2. CASE x = <<token>> /\ p = <<i1>>
  <2>1. /\ DOMAIN x = {1} /\ x[1] = token /\ x \in Seq(Seq(Chars)) /\ Len(x) = 1 /\ x # <<>>
    BY <1>2
  <2>2. p[1] = i1 /\ Len(p) = 1
    BY <1>2
  <2>3. AllAt(l, p, x) <=> WordAt(l, i1, token)
    BY <2>1, <2>2 DEF AllAt
  <2> QED BY <2>1, <2>2, <2>3
<1> QED BY <1>1, <1>2

\* split() is at o and cuts at n.
CutAt(o, n) == o = Done /\ n = o + Cut

\* The tokens of one iteration and where they are.
LEMMA FoundIs ==
  ASSUME InvSplit, SplitInv, Cut # 0, NEW o, NEW n, CutAt(o, n)
  PROVE  /\ Found \in Seq(Seq(Chars)) /\ FoundAt \in Seq(Nat) /\ Len(Found) = Len(FoundAt)
         /\ \A i \in DOMAIN FoundAt : o < FoundAt[i] /\ FoundAt[i] <= n
         /\ Rising(FoundAt)
         /\ Cut # 1 => o + 1 \in Range(FoundAt)
         /\ line[n] # " " => n \in Range(FoundAt)
         /\ AllAt(line, FoundAt, Found) <=> (Cut # 1 => IsWord(line, o + 1, n - 1))
<1> DEFINE text == SubSeq(s, 1, Cut - 1)
           sep == <<s[Cut]>>
<1>1. /\ Len(line) \in Nat /\ Len(s) \in Nat /\ o \in 0 .. Len(line) /\ o \in Nat
      /\ Cut \in 1 .. Len(s) /\ Cut \in Nat /\ n \in o + 1 .. Len(line) /\ n \in Nat
      /\ s[Cut] = line[n] /\ line[n] \in Separators
  <2>1. /\ n \in o + 1 .. Len(line) /\ Cut \in 1 .. Len(s) /\ s[Cut] = line[n]
        /\ NextCut(line, o, n)
    BY CutInLine DEF CutAt
  <2>2. /\ Len(line) \in Nat /\ Len(s) \in Nat /\ o \in 0 .. Len(line)
    BY DoneIs DEF CutAt
  <2>3. line[n] \in Separators
    BY <2>1 DEF NextCut
  <2> QED BY <2>1, <2>2, <2>3
<1>2. line \in Seq(Chars) /\ s \in Seq(Chars) /\ s[Cut] \in Chars
  BY <1>1 DEF InvSplit
<1>3. /\ text \in Seq(Chars) /\ Len(text) = Cut - 1
      /\ \A i \in 1 .. Cut - 1 : text[i] = s[i]
  BY <1>1, <1>2, Piece
<1>4. sep \in Seq(Chars) /\ Len(sep) = 1 /\ sep[1] = line[n]
  BY <1>1, <1>2
<1>5. n = o + Cut
  BY DEF CutAt
<1>6. \A i \in 1 .. Len(s) : s[i] = line[o + i]
  <2>1. \A i \in 1 .. Len(s) : s[i] = line[Done + i]
    BY DEF SplitInv
  <2> QED BY <2>1 DEF CutAt
<1>7. /\ Found = (IF Cut = 1 THEN <<>> ELSE <<text>>) \o (IF s[Cut] = " " THEN <<>> ELSE <<sep>>)
      /\ FoundAt = (IF Cut = 1 THEN <<>> ELSE <<o + 1>>) \o (IF s[Cut] = " " THEN <<>> ELSE <<n>>)
  BY DEF Found, FoundAt, CutAt
<1> HIDE DEF text, sep
<1>8. ASSUME Cut # 1 PROVE WordAt(line, o + 1, text) <=> IsWord(line, o + 1, n - 1)
  <2>1. text # <<>> /\ (o + 1) + Len(text) - 1 = n - 1 /\ n - 1 <= Len(line)
    BY <1>1, <1>3, <1>5, <1>8
  <2>2. text = SubSeq(line, o + 1, n - 1)
    <3>1. /\ SubSeq(line, o + 1, n - 1) \in Seq(Chars)
          /\ Len(SubSeq(line, o + 1, n - 1)) = Cut - 1
          /\ \A i \in 1 .. Cut - 1 : SubSeq(line, o + 1, n - 1)[i] = line[(o + 1) + i - 1]
      <4>1. n - 1 \in 0 .. Len(line) /\ o + 1 \in Nat \ {0} /\ o + 1 <= n - 1
            /\ (n - 1) - (o + 1) + 1 = Cut - 1
        BY <1>1, <1>5, <1>8
      <4>2. SubSeq(line, o + 1, n - 1) \in Seq(Chars)
        BY <1>2, <4>1, Piece
      <4>3. Len(SubSeq(line, o + 1, n - 1)) = Cut - 1
        BY <1>2, <4>1, Piece
      <4>4. \A i \in 1 .. Len(SubSeq(line, o + 1, n - 1)) :
              SubSeq(line, o + 1, n - 1)[i] = line[(o + 1) + i - 1]
        BY <1>2, <4>1, Piece
      <4> QED BY <4>2, <4>3, <4>4, Zenon
    <3>2. ASSUME NEW i \in 1 .. Cut - 1 PROVE text[i] = line[(o + 1) + i - 1]
      <4>1. i \in 1 .. Len(s) /\ (o + 1) + i - 1 = o + i
        BY <1>1
      <4> QED BY <1>3, <1>6, <4>1
    <3> QED BY <1>3, <3>1, <3>2, SeqEqual
  <2> QED BY <2>1, <2>2 DEF WordAt
<1>9. ASSUME s[Cut] # " " PROVE WordAt(line, n, sep)
  <2>1. sep # <<>> /\ n + Len(sep) - 1 = n /\ n <= Len(line)
    <3>1. sep # <<>>
      BY DEF sep
    <3> QED BY <1>1, <1>4, <3>1
  <2>2. sep = SubSeq(line, n, n)
    <3>1. /\ SubSeq(line, n, n) \in Seq(Chars) /\ Len(SubSeq(line, n, n)) = 1
          /\ \A i \in 1 .. 1 : SubSeq(line, n, n)[i] = line[n + i - 1]
      <4>1. n \in Nat \ {0} /\ n \in 0 .. Len(line) /\ n - n + 1 = 1
        BY <1>1
      <4>2. SubSeq(line, n, n) \in Seq(Chars)
        BY <1>2, <4>1, Piece
      <4>3. Len(SubSeq(line, n, n)) = IF n <= n THEN n - n + 1 ELSE 0
        BY <1>2, <4>1, Piece
      <4>5. Len(SubSeq(line, n, n)) = 1
        BY <4>1, <4>3
      <4>4. \A i \in 1 .. Len(SubSeq(line, n, n)) : SubSeq(line, n, n)[i] = line[n + i - 1]
        BY <1>2, <4>1, Piece
      <4> QED BY <4>2, <4>4, <4>5, Zenon
    <3>2. SubSeq(line, n, n)[1] = line[n]
      BY <1>1, <3>1
    <3> QED BY <1>4, <3>1, <3>2, SeqEqual
  <2>3. IsWord(line, n, n)
    <3>1. line[n] \in {"|", ">"}
      BY <1>1, <1>9 DEF Separators
    <3> QED BY <3>1 DEF IsWord
  <2> QED BY <2>1, <2>2, <2>3 DEF WordAt
<1> DEFINE x == IF Cut = 1 THEN <<>> ELSE <<text>>
           y == IF s[Cut] = " " THEN <<>> ELSE <<sep>>
           p == IF Cut = 1 THEN <<>> ELSE <<o + 1>>
           q == IF s[Cut] = " " THEN <<>> ELSE <<n>>
<1>10. /\ x \in Seq(Seq(Chars)) /\ p \in Seq(Nat) /\ Len(p) = Len(x) /\ Rising(p)
       /\ AllAt(line, p, x) <=> Cut = 1 \/ WordAt(line, o + 1, text)
       /\ Cut # 1 => o + 1 \in Range(p)
       /\ \A i \in DOMAIN p : Cut # 1 /\ p[i] = o + 1
  <2>1. o + 1 \in Nat /\ text \in Seq(Chars)
    BY <1>1, <1>3
  <2>2. <<text>> # <<>> /\ <<o + 1>> # <<>>
    OBVIOUS
  <2>3. /\ x = <<>> <=> Cut = 1
        /\ (x = <<>> /\ p = <<>>) \/ (x = <<text>> /\ p = <<o + 1>>)
    BY <2>2
  <2> HIDE DEF x, p
  <2>4. p = <<>> \/ p = <<o + 1>>
    BY <2>3
  <2>5. /\ p \in Seq(Nat) /\ Rising(p)
        /\ p # <<>> => o + 1 \in Range(p)
        /\ \A i \in DOMAIN p : p # <<>> /\ p[i] = o + 1
    BY <2>1, <2>4, OnePlace
  <2>6. x \in Seq(Seq(Chars)) /\ Len(p) = Len(x)
    BY <2>1, <2>3, OneToken
  <2>7. AllAt(line, p, x) <=> x = <<>> \/ WordAt(line, o + 1, text)
    BY <2>1, <2>3, OneToken
  <2>8. p = <<>> <=> x = <<>>
    BY <2>2, <2>3
  <2> QED BY <2>3, <2>5, <2>6, <2>7, <2>8
<1>11. /\ y \in Seq(Seq(Chars)) /\ q \in Seq(Nat) /\ Len(q) = Len(y) /\ Rising(q)
       /\ AllAt(line, q, y) <=> s[Cut] = " " \/ WordAt(line, n, sep)
       /\ s[Cut] # " " => n \in Range(q)
       /\ \A i \in DOMAIN q : s[Cut] # " " /\ q[i] = n
  <2>1. n \in Nat /\ sep \in Seq(Chars)
    BY <1>1, <1>4
  <2>2. <<sep>> # <<>> /\ <<n>> # <<>>
    OBVIOUS
  <2>3. /\ y = <<>> <=> s[Cut] = " "
        /\ (y = <<>> /\ q = <<>>) \/ (y = <<sep>> /\ q = <<n>>)
    BY <2>2
  <2> HIDE DEF y, q
  <2>4. q = <<>> \/ q = <<n>>
    BY <2>3
  <2>5. /\ q \in Seq(Nat) /\ Rising(q)
        /\ q # <<>> => n \in Range(q)
        /\ \A i \in DOMAIN q : q # <<>> /\ q[i] = n
    BY <2>1, <2>4, OnePlace
  <2>6. y \in Seq(Seq(Chars)) /\ Len(q) = Len(y)
    BY <2>1, <2>3, OneToken
  <2>7. AllAt(line, q, y) <=> y = <<>> \/ WordAt(line, n, sep)
    BY <2>1, <2>3, OneToken
  <2>8. q = <<>> <=> y = <<>>
    BY <2>2, <2>3
  <2> QED BY <2>3, <2>5, <2>6, <2>7, <2>8
<1>12. Found = x \o y /\ FoundAt = p \o q
  BY <1>7
<1> HIDE DEF x, y, p, q
<1>13. /\ Len(p \o q) = Len(x \o y) /\ Rising(p \o q)
       /\ AllAt(line, p \o q, x \o y) <=> AllAt(line, p, x) /\ AllAt(line, q, y)
       /\ Range(p \o q) = Range(p) \union Range(q)
  <2> DEFINE m == n - 1
  <2>1. m \in Nat /\ \A i \in DOMAIN p : p[i] <= m
    <3>1. n - 1 \in Nat /\ (Cut # 1 => o + 1 <= n - 1)
      BY <1>1, <1>5
    <3> QED BY <1>10, <3>1
  <2>2. \A i \in DOMAIN q : m < q[i]
    <3>1. n - 1 < n
      BY <1>1
    <3> QED BY <1>11, <3>1
  <2>3. Len(p) = Len(x) /\ Len(q) = Len(y) /\ Rising(p) /\ Rising(q)
    BY <1>10, <1>11
  <2>4. x \in Seq(Seq(Chars)) /\ y \in Seq(Seq(Chars)) /\ p \in Seq(Nat) /\ q \in Seq(Nat)
    BY <1>10, <1>11
  <2> HIDE DEF m
  <2>5. Len(p \o q) = Len(x \o y)
    BY <2>1, <2>2, <2>3, <2>4, Longer
  <2>8. Rising(p \o q)
    BY <2>1, <2>2, <2>3, <2>4, Longer
  <2>6. AllAt(line, p \o q, x \o y) <=> AllAt(line, p, x) /\ AllAt(line, q, y)
    BY <2>1, <2>2, <2>3, <2>4, Longer
  <2>7. Range(p \o q) = Range(p) \union Range(q)
    BY <2>4, RangeJoined
  <2> QED BY <2>5, <2>6, <2>7, <2>8
<1>14. AllAt(line, FoundAt, Found) <=> (Cut # 1 => IsWord(line, o + 1, n - 1))
  BY <1>8, <1>9, <1>10, <1>11, <1>12, <1>13
<1>15. ASSUME NEW i \in DOMAIN FoundAt PROVE o < FoundAt[i] /\ FoundAt[i] <= n
  <2>1. FoundAt[i] \in Range(p) \union Range(q)
    BY <1>12, <1>13 DEF Range
  <2>2. FoundAt[i] = o + 1 \/ FoundAt[i] = n
    <3>1. Range(p) \subseteq {o + 1} /\ Range(q) \subseteq {n}
      BY <1>10, <1>11 DEF Range
    <3> QED BY <2>1, <3>1
  <2> QED BY <1>1, <2>2
<1>16. Found \in Seq(Seq(Chars)) /\ FoundAt \in Seq(Nat) /\ Len(Found) = Len(FoundAt)
  <2>1. x \o y \in Seq(Seq(Chars))
    BY <1>10, <1>11, Joined
  <2>2. p \o q \in Seq(Nat)
    BY <1>10, <1>11, Joined
  <2> QED BY <1>12, <1>13, <2>1, <2>2
<1>17. (Cut # 1 => o + 1 \in Range(FoundAt)) /\ (line[n] # " " => n \in Range(FoundAt))
  BY <1>1, <1>10, <1>11, <1>12, <1>13
<1>18. Rising(FoundAt)
  BY <1>12, <1>13
<1> QED BY <1>14, <1>15, <1>16, <1>17, <1>18

\* A line that can be split up to n can be up to o.
LEMMA SplittableBefore ==
  ASSUME NEW l, NEW o \in Nat, NEW n \in Nat, o <= n, Splittable(l, n)
  PROVE  Splittable(l, o)
<1>1. 1 .. o \subseteq 1 .. n
  OBVIOUS
<1> QED BY <1>1 DEF Splittable

\* One iteration of split().
LEMMA SplitKeepsWords ==
  ASSUME InvSplit, SplitInv, Split
  PROVE  SplitInv'
<1> DEFINE o == Done
           n == Done + Cut
<1>1. /\ Cut # 0 /\ s' = SubSeq(s, Cut + 1, Len(s)) /\ UNCHANGED line
      /\ argsBuffer' = argsBuffer \o Found /\ places' = places \o FoundAt
  BY DEF Split, Store
<1>2. /\ Len(line) \in Nat /\ DOMAIN line = 1 .. Len(line) /\ Len(s) \in Nat
      /\ o \in 0 .. Len(line) /\ o \in Nat /\ Len(line) = o + Len(s)
  BY DoneIs
<1>3. n \in o + 1 .. Len(line) /\ Cut \in 1 .. Len(s) /\ NextCut(line, o, n) /\ n = o + Cut
  BY <1>1, CutInLine
<1>4. CutAt(o, n)
  BY DEF CutAt
<1>5. line[n] \in Separators
  BY <1>3 DEF NextCut
<1>6. /\ line \in Seq(Chars) /\ s \in Seq(Chars) /\ argsBuffer \in Seq(Seq(Chars))
      /\ places \in Seq(Nat)
  BY DEF InvSplit
<1>7. /\ line # <<>> /\ Len(places) = Len(argsBuffer) /\ Rising(places)
      /\ AllAt(line, places, argsBuffer) <=> Splittable(line, o)
      /\ o = 0 \/ line[o] \in Separators
  BY DEF SplitInv
<1>8. \A i \in 1 .. Len(s) : s[i] = line[o + i]
  BY DEF SplitInv
<1>9. \A i \in DOMAIN places : places[i] <= o
  BY DEF SplitInv
<1>10. Splittable(line, o) =>
         \A i, j \in DOMAIN line :
           i <= o /\ i <= j /\ IsWord(line, i, j) => i \in Range(places)
  BY DEF SplitInv
<1>11. /\ Found \in Seq(Seq(Chars)) /\ FoundAt \in Seq(Nat) /\ Len(Found) = Len(FoundAt)
       /\ Rising(FoundAt)
  BY <1>1, <1>4, FoundIs
<1>12. \A i \in DOMAIN FoundAt : o < FoundAt[i] /\ FoundAt[i] <= n
  BY <1>1, <1>4, FoundIs
<1>13. /\ Cut # 1 => o + 1 \in Range(FoundAt)
       /\ line[n] # " " => n \in Range(FoundAt)
       /\ AllAt(line, FoundAt, Found) <=> (Cut # 1 => IsWord(line, o + 1, n - 1))
  BY <1>1, <1>4, FoundIs
<1>14. Len(s') = Len(s) - Cut /\ \A i \in 1 .. Len(s) - Cut : s'[i] = s[Cut + i]
  <2>1. /\ Cut + 1 \in Nat \ {0} /\ Len(s) \in 0 .. Len(s)
        /\ (IF Cut + 1 <= Len(s) THEN Len(s) - (Cut + 1) + 1 ELSE 0) = Len(s) - Cut
    BY <1>2, <1>3
  <2>2. Len(s') = Len(s) - Cut
    BY <1>1, <1>6, <2>1, Piece
  <2>3. \A i \in 1 .. Len(s') : s'[i] = s[(Cut + 1) + i - 1]
    BY <1>1, <1>6, <2>1, Piece
  <2>4. ASSUME NEW i \in 1 .. Len(s) - Cut PROVE (Cut + 1) + i - 1 = Cut + i
    BY <1>3
  <2> QED BY <2>2, <2>3, <2>4
<1>15. Done' = n
  <2>1. Done' = Len(line) - (Len(s) - Cut)
    BY <1>1, <1>14 DEF Done
  <2> QED BY <1>2, <1>3, <2>1
<1> HIDE DEF o, n
<1>16. \A i \in 1 .. Len(s') : s'[i] = line[n + i]
  <2>1. ASSUME NEW i \in 1 .. Len(s') PROVE s'[i] = line[n + i]
    <3>1. i \in 1 .. Len(s) - Cut /\ Cut + i \in 1 .. Len(s) /\ o + (Cut + i) = n + i
      BY <1>2, <1>3, <1>14
    <3>2. s[Cut + i] = line[o + (Cut + i)]
      BY <1>8, <3>1
    <3> QED BY <1>14, <3>1, <3>2
  <2> QED BY <2>1
<1>17. Len(places') = Len(argsBuffer') /\ Rising(places')
  <2>1. Len(places \o FoundAt) = Len(argsBuffer \o Found)
    BY <1>2, <1>6, <1>7, <1>9, <1>11, <1>12, Longer
  <2>2. Rising(places \o FoundAt)
    BY <1>2, <1>6, <1>7, <1>9, <1>11, <1>12, Longer
  <2> QED BY <1>1, <2>1, <2>2
<1>18. AllAt(line, places', argsBuffer')
         <=> AllAt(line, places, argsBuffer) /\ AllAt(line, FoundAt, Found)
  <2>1. AllAt(line, places \o FoundAt, argsBuffer \o Found)
         <=> AllAt(line, places, argsBuffer) /\ AllAt(line, FoundAt, Found)
    BY <1>2, <1>6, <1>7, <1>9, <1>11, <1>12, Longer
  <2> QED BY <1>1, <2>1
<1>19. Range(places') = Range(places) \union Range(FoundAt)
  BY <1>1, <1>6, <1>11, RangeJoined
<1>20. ASSUME NEW i \in DOMAIN places' PROVE places'[i] <= n
  <2>1. places'[i] \in Range(places) \union Range(FoundAt)
    BY <1>19 DEF Range
  <2>2. \A x \in Range(places) : x \in Nat /\ x <= o
    BY <1>6, <1>9 DEF Range
  <2>3. \A x \in Range(FoundAt) : x <= n
    BY <1>12 DEF Range
  <2>4. \A x \in Nat : x <= o => x <= n
    BY <1>2, <1>3
  <2> QED BY <2>1, <2>2, <2>3, <2>4
<1>21. Cut # 1 <=> n # o + 1
  BY <1>2, <1>3
<1>22. \/ /\ Splittable(line, n) <=> Splittable(line, o)
          /\ n # o + 1 => IsWord(line, o + 1, n - 1)
          /\ \A i, j \in DOMAIN line : /\ o < i /\ i <= n /\ i <= j
                                       /\ IsWord(line, i, j)
                                       => \/ (i = o + 1 /\ n # o + 1)
                                          \/ (i = n /\ line[n] # " ")
       \/ ~Splittable(line, n) /\ n # o + 1 /\ ~IsWord(line, o + 1, n - 1)
  BY <1>2, <1>3, <1>6, <1>7, NextWord
<1>23. AllAt(line, places', argsBuffer') <=> Splittable(line, n)
  BY <1>7, <1>13, <1>18, <1>21, <1>22
<1>24. ASSUME Splittable(line, n), NEW i \in DOMAIN line, NEW j \in DOMAIN line,
              i <= n, i <= j, IsWord(line, i, j)
       PROVE  i \in Range(places')
  <2>1. CASE i <= o
    <3>1. Splittable(line, o)
      <4>1. n \in Nat /\ o <= n
        BY <1>2, <1>3
      <4> QED BY <1>2, <1>24, <4>1, SplittableBefore
    <3>2. i \in Range(places)
      BY <1>10, <1>24, <2>1, <3>1
    <3> QED BY <1>19, <3>2
  <2>2. CASE ~(i <= o)
    <3>1. o < i
      BY <1>2, <2>2
    <3>2. (i = o + 1 /\ n # o + 1) \/ (i = n /\ line[n] # " ")
      BY <1>22, <1>24, <3>1
    <3>3. i \in Range(FoundAt)
      BY <1>13, <1>21, <3>2
    <3> QED BY <1>19, <3>3
  <2> QED BY <2>1, <2>2
<1> QED BY <1>1, <1>5, <1>7, <1>15, <1>16, <1>17, <1>20, <1>23, <1>24 DEF SplitInv

\* The last token: what is left has no separator.
LEMMA EndSplitExact ==
  ASSUME InvSplit, SplitInv, EndSplit
  PROVE  (AllWords <=> Splittable(line, Len(line)))'
<1> DEFINE o == Done
           q == <<o + 1>>
           y == <<s>>
<1>1. /\ Cut = 0 /\ UNCHANGED line
      /\ argsBuffer' = argsBuffer \o y /\ places' = places \o q
  BY DEF EndSplit, Store, LastToken
<1>2. /\ Len(line) \in Nat /\ DOMAIN line = 1 .. Len(line) /\ Len(s) \in Nat
      /\ o \in 0 .. Len(line) /\ o \in Nat /\ Len(line) = o + Len(s)
  BY DoneIs
<1>3. /\ line \in Seq(Chars) /\ s \in Seq(Chars) /\ argsBuffer \in Seq(Seq(Chars))
      /\ places \in Seq(Nat)
  BY DEF InvSplit
<1>4. /\ line # <<>> /\ Len(places) = Len(argsBuffer) /\ Rising(places)
      /\ AllAt(line, places, argsBuffer) <=> Splittable(line, o)
      /\ o = 0 \/ line[o] \in Separators
  BY DEF SplitInv
<1>5. \A i \in 1 .. Len(s) : s[i] = line[o + i]
  BY DEF SplitInv
<1>6. \A i \in DOMAIN places : places[i] <= o
  BY DEF SplitInv
<1>7. Splittable(line, o) =>
         \A i, j \in DOMAIN line :
           i <= o /\ i <= j /\ IsWord(line, i, j) => i \in Range(places)
  BY DEF SplitInv
<1>8. \A i \in DOMAIN s : s[i] \notin Separators
  BY <1>1, <1>3, NoCut
<1> HIDE DEF o
<1>9. \A i \in o + 1 .. Len(line) : line[i] \notin Separators
  <2>1. ASSUME NEW i \in o + 1 .. Len(line) PROVE line[i] \notin Separators
    <3>1. i - o \in 1 .. Len(s) /\ o + (i - o) = i
      BY <1>2
    <3>2. i - o \in DOMAIN s
      BY <1>2, <1>3, <3>1
    <3> QED BY <1>5, <1>8, <3>1, <3>2
  <2> QED BY <2>1
<1>10. /\ q \in Seq(Nat) /\ y \in Seq(Seq(Chars)) /\ Len(q) = 1 /\ Len(y) = 1
       /\ DOMAIN q = {1} /\ DOMAIN y = {1} /\ q[1] = o + 1 /\ y[1] = s
  BY <1>2, <1>3
<1> HIDE DEF q, y
<1>11. Rising(q) /\ Len(q) = Len(y) /\ (\A i \in DOMAIN q : o < q[i]) /\ Range(q) = {o + 1}
  BY <1>2, <1>10 DEF Rising, Range
<1>12. AllAt(line, q, y)
  <2>1. CASE s = <<>>
    <3>1. o = Len(line) /\ o # 0
      <4>1. Len(s) = 0
        BY <2>1
      <4>2. Len(line) # 0
        BY <1>3, <1>4
      <4> QED BY <1>2, <4>1, <4>2
    <3>2. EmptyEnd(line)
      BY <1>4, <3>1 DEF EmptyEnd
    <3> QED BY <1>10, <2>1, <3>1, <3>2 DEF AllAt, WordAt
  <2>2. CASE s # <<>>
    <3>1. Len(s) # 0
      BY <1>3, <2>2
    <3>2. (o + 1) + Len(s) - 1 = Len(line) /\ o + 1 <= Len(line) /\ Len(line) \in 0 .. Len(line)
          /\ o + 1 \in Nat \ {0} /\ Len(line) - (o + 1) + 1 = Len(s)
      BY <1>2, <3>1
    <3>3. SubSeq(line, o + 1, Len(line)) \in Seq(Chars)
      BY <1>3, <3>2, Piece
    <3>4. Len(SubSeq(line, o + 1, Len(line))) = Len(s)
      BY <1>3, <3>2, Piece
    <3>5. \A i \in 1 .. Len(SubSeq(line, o + 1, Len(line))) :
            SubSeq(line, o + 1, Len(line))[i] = line[(o + 1) + i - 1]
      BY <1>3, <3>2, Piece
    <3>6. ASSUME NEW i \in 1 .. Len(s) PROVE s[i] = line[(o + 1) + i - 1]
      <4>1. (o + 1) + i - 1 = o + i
        BY <1>2
      <4> QED BY <1>5, <4>1
    <3>7. s = SubSeq(line, o + 1, Len(line))
      BY <1>3, <3>3, <3>4, <3>5, <3>6, SeqEqual
    <3>8. IsWord(line, o + 1, Len(line))
      <4>1. o + 1 = 1 \/ line[(o + 1) - 1] \in Separators
        <5>1. (o + 1) - 1 = o
          BY <1>2
        <5> QED BY <1>2, <1>4, <5>1
      <4> QED BY <1>9, <4>1 DEF IsWord
    <3> QED BY <1>10, <2>2, <3>2, <3>7, <3>8 DEF AllAt, WordAt
  <2> QED BY <2>1, <2>2
<1>13. AllAt(line, places', argsBuffer') <=> Splittable(line, o)
  <2>1. AllAt(line, places \o q, argsBuffer \o y)
         <=> AllAt(line, places, argsBuffer) /\ AllAt(line, q, y)
    BY <1>2, <1>3, <1>4, <1>6, <1>10, <1>11, Longer
  <2> QED BY <1>1, <1>4, <1>12, <2>1
<1>14. Rising(places')
  <2>1. Rising(places \o q)
    BY <1>2, <1>3, <1>4, <1>6, <1>10, <1>11, Longer
  <2> QED BY <1>1, <2>1
<1>15. Range(places') = Range(places) \union {o + 1}
  BY <1>1, <1>3, <1>10, <1>11, RangeJoined
<1>16. Splittable(line, Len(line)) <=> Splittable(line, o)
  <2>1. ASSUME Splittable(line, o), NEW i \in 1 .. Len(line), line[i] = ">" PROVE i \in 1 .. o
    <3>1. ~(i \in o + 1 .. Len(line))
      BY <1>9, <2>1 DEF Separators
    <3> QED BY <1>2, <3>1
  <2>2. ASSUME Splittable(line, o) PROVE Splittable(line, Len(line))
    BY <2>1, <2>2 DEF Splittable
  <2>3. ASSUME Splittable(line, Len(line)) PROVE Splittable(line, o)
    <3>1. o <= Len(line)
      BY <1>2
    <3> QED BY <1>2, <2>3, <3>1, SplittableBefore
  <2> QED BY <2>2, <2>3
<1>17. ASSUME Splittable(line, o), NEW i \in DOMAIN line, NEW j \in DOMAIN line, i <= j,
              IsWord(line, i, j)
       PROVE  i \in Range(places')
  <2>1. CASE i <= o
    <3>1. i \in Range(places)
      BY <1>7, <1>17, <2>1
    <3> QED BY <1>15, <3>1
  <2>2. CASE i = o + 1
    BY <1>15, <2>2
  <2>3. CASE ~(i <= o) /\ i # o + 1
    <3>1. i \in o + 1 .. Len(line) /\ i - 1 \in o + 1 .. Len(line) /\ i # 1
      BY <1>2, <2>3
    <3>2. line[i] \notin Separators /\ line[i - 1] \notin Separators
      BY <1>9, <3>1
    <3> QED BY <1>17, <3>1, <3>2 DEF IsWord, Separators
  <2> QED BY <2>1, <2>2, <2>3
<1>18. ASSUME EmptyEnd(line) PROVE Len(line) + 1 \in Range(places')
  <2>1. o = Len(line)
    <3>1. ~(Len(line) \in o + 1 .. Len(line))
      BY <1>9, <1>18 DEF EmptyEnd
    <3> QED BY <1>2, <3>1
  <2> QED BY <1>15, <2>1
<1>19. AllWords' <=>
         /\ AllAt(line, places', argsBuffer') /\ Rising(places')
         /\ \A i, j \in DOMAIN line : i <= j /\ IsWord(line, i, j) => i \in Range(places')
         /\ EmptyEnd(line) => Len(line) + 1 \in Range(places')
  BY <1>1 DEF AllWords, AllAt, Rising
<1>20. AllWords' <=> Splittable(line, Len(line))
  BY <1>13, <1>14, <1>16, <1>17, <1>18, <1>19
<1> QED BY <1>1, <1>20

\* SplitExact of Shell.tla: for lines of any length, split() finds the words of exactly the
\* lines it can split (shell.h:69).
THEOREM Words == Spec => []SplitExact
<1>1. Init => (pc = "split" => SplitInv) /\ SplitExact
  BY DEF Init, SplitExact
<1>2. ASSUME InvSplit, InvSplit', (pc = "split" => SplitInv) /\ SplitExact, [Next]_vars
      PROVE  ((pc = "split" => SplitInv) /\ SplitExact)'
  <2>1. CASE TypeLine
    <3>1. PICK l \in TypedLines :
            /\ line' = l /\ s' = l /\ argsBuffer' = <<>> /\ places' = <<>>
            /\ pc' = IF \A i \in DOMAIN l : l[i] \in Blanks THEN "prompt" ELSE "split"
      BY <2>1 DEF TypeLine
    <3>2. ASSUME pc' = "split" PROVE SplitInv'
      <4>1. l \in Seq(Chars) /\ Len(l) \in Nat /\ DOMAIN l = 1 .. Len(l)
        BY ShellAssumption
      <4>2. l # <<>>
        <5>1. PICK i \in DOMAIN l : l[i] \notin Blanks
          BY <3>1, <3>2
        <5>2. DOMAIN <<>> = {}
          OBVIOUS
        <5> QED BY <5>1, <5>2
      <4>3. Done' = 0
        BY <3>1, <4>1 DEF Done
      <4>4. /\ DOMAIN places' = {} /\ DOMAIN argsBuffer' = {}
            /\ Len(places') = 0 /\ Len(argsBuffer') = 0
        BY <3>1
      <4>5. Rising(places') /\ AllAt(line', places', argsBuffer')
        BY <4>4 DEF Rising, AllAt
      <4>6. Splittable(line', 0)
        BY DEF Splittable
      <4>7. \A i \in 1 .. Len(s') : s'[i] = line'[0 + i]
        BY <3>1, <4>1
      <4>8. \A i, j \in DOMAIN line' : ~(i <= 0)
        BY <3>1, <4>1
      <4> QED BY <3>1, <4>2, <4>3, <4>4, <4>5, <4>6, <4>7, <4>8 DEF SplitInv
    <3>3. pc' # "run"
      BY <3>1
    <3> QED BY <3>2, <3>3 DEF SplitExact
  <2>2. CASE Split
    <3>1. pc = "split" /\ pc' # "run"
      BY <2>2 DEF Split, Store
    <3> QED BY <1>2, <2>2, <3>1, SplitKeepsWords DEF SplitExact
  <2>3. CASE EndSplit
    <3>1. pc = "split" /\ pc' # "split"
      BY <2>3 DEF EndSplit, Store
    <3> QED BY <1>2, <2>3, <3>1, EndSplitExact DEF SplitExact
  <2>4. CASE \/ TypeEof \/ Run \/ Open \/ ForkOnly \/ WaitOnly \/ Pipe \/ PipeFails \/ Fork1
             \/ Fork2 \/ CloseEnds \/ Wait1 \/ Wait2
    <3>1. pc' # "split" /\ pc' # "run"
      BY <2>4 DEF TypeEof, Run, Open, ForkOnly, WaitOnly, Pipe, PipeFails, Fork1, Fork2,
         CloseEnds, Wait1, Wait2
    <3> QED BY <3>1 DEF SplitExact
  <2>5. CASE Left \/ Right \/ RightQuits \/ OnlyEnds
    BY <1>2, <2>5, ChildrenQuiet DEF SplitInv, SplitExact, AllWords, Done
  <2>6. CASE UNCHANGED vars
    BY <1>2, <2>6 DEF vars, lineVars, SplitInv, SplitExact, AllWords, Done
  <2> QED BY <1>2, <2>1, <2>2, <2>3, <2>4, <2>5, <2>6 DEF Next, ReadLine, Steps
<1> QED BY <1>1, <1>2, TokensInvariant, PTL DEF Spec
-----------------------------------------------------------------------------
\* No step takes a variable of the shell out of its range.
LEMMA ShellTypesNext ==
  ASSUME TypeOK, InvSplit', [Next]_vars
  PROVE  TypeOK'
<1> USE ShellAssumption
<1>0. /\ line' \in Seq(Chars) /\ s' \in Seq(Chars)
      /\ argsBuffer' \in Seq(Seq(Chars)) /\ places' \in Seq(Nat)
  BY DEF InvSplit
<1>1. CASE TypeLine
  <2>1. line' \in Seq(Chars) /\ argsBuffer' = <<>> /\ pc' \in {"prompt", "split"}
    BY <1>1 DEF TypeLine
  <2> QED BY <1>0, <1>1, <2>1 DEF TypeLine, TypeOK, pipeVars, Down
<1>2. CASE TypeEof
  BY <1>0, <1>2 DEF TypeEof, TypeOK, lineVars, pipeVars, Down
<1>3. CASE Split \/ EndSplit
  <2>1. \/ pc' = "overrun"
        \/ pc' = "split" /\ Len(argsBuffer') <= NARGS
        \/ pc' = "run" /\ Len(argsBuffer') < NARGS /\ Len(argsBuffer') <= NARGS
    <3>1. Len(argsBuffer') \in Nat /\ NARGS \in Nat
      BY <1>0
    <3> QED BY <1>3, <3>1 DEF Split, EndSplit, Store
  <2> QED BY <1>0, <1>3, <2>1 DEF Split, EndSplit, TypeOK, pipeVars, Down
<1>4. CASE Run \/ Open
  <2>1. /\ pc \in {"run", "open"}
        /\ pc' \in {"prompt", "exited", "fork", "pipe", "crashed", "open"}
        /\ UNCHANGED <<line, s, argsBuffer, places, pid1, pid2, child, holdR, holdW, fill, written>>
    BY <1>4 DEF Run, Open, lineVars, pipeVars
  <2> QED BY <1>0, <2>1 DEF TypeOK, Down
<1>5. CASE ForkOnly \/ Pipe \/ PipeFails \/ Fork1 \/ Fork2 \/ CloseEnds
  <2>1. CASE ForkOnly
    BY <1>0, <2>1 DEF ForkOnly, TypeOK, lineVars, pipeVars, Down, Children
  <2>2. CASE Pipe \/ PipeFails
    <3>1. CASE Pipe
      <4>1. 0 \in 0 .. PIPESIZE /\ 0 \in 0 .. MaxOut /\ {"shell"} \subseteq {"shell", "left", "right"}
        OBVIOUS
      <4> QED BY <1>0, <3>1, <4>1 DEF Pipe, TypeOK, lineVars, Down
    <3>2. CASE PipeFails
      BY <1>0, <3>2 DEF PipeFails, TypeOK, lineVars, pipeVars, Down
    <3> QED BY <2>2, <3>1, <3>2
  <2>3. CASE Fork1
    BY <1>0, <2>3 DEF Fork1, Born, TypeOK, lineVars, Down, Children, Failed
  <2>4. CASE Fork2
    BY <1>0, <2>4 DEF Fork2, Born, TypeOK, lineVars, Down, Children, Failed
  <2>5. CASE CloseEnds
    BY <1>0, <2>5 DEF CloseEnds, CloseBothEnds, TypeOK, lineVars, Down
  <2> QED BY <1>5, <2>1, <2>2, <2>3, <2>4, <2>5
<1>6. CASE WaitOnly \/ Wait1 \/ Wait2
  <2>1. child' \in [Children -> {"none", "born", "running", "zombie"}]
    BY <1>6 DEF WaitOnly, Wait1, Wait2, Reap, ReapAny, Alive, TypeOK
  <2>2. pc' \in {"prompt", "wait2"} /\ pc \in {"wait", "wait1", "wait2"}
    BY <1>6 DEF WaitOnly, Wait1, Wait2
  <2> QED BY <1>0, <1>6, <2>1, <2>2 DEF WaitOnly, Wait1, Wait2, TypeOK, lineVars, pipeVars, Down
<1>7. CASE Left \/ Right \/ RightQuits \/ OnlyEnds
  <2>1. UNCHANGED <<pc, line, s, argsBuffer, places, pid1, pid2>>
    BY <1>7, ChildrenQuiet
  <2>2. child' \in [Children -> {"none", "born", "running", "zombie"}]
    <3>1. \/ child' = child
          \/ \E ch \in Children, state \in {"running", "zombie"} :
               child' = [child EXCEPT ![ch] = state]
      <4>1. {"left", "right", "only"} = Children
        BY DEF Children
      <4> QED BY <1>7, <4>1 DEF Left, Right, RightQuits, OnlyEnds, Exec, ExecFails, Ends,
         LeftWrites, LeftEnds, RightReads, RightEnds
    <3>2. child \in [Children -> {"none", "born", "running", "zombie"}]
      BY <1>7 DEF TypeOK
    <3> QED BY <3>1, <3>2
  <2>3. holdR' \subseteq holdR /\ holdW' \subseteq holdW
    BY <1>7 DEF Left, Right, RightQuits, OnlyEnds, Exec, ExecFails, Ends, LeftWrites,
       LeftEnds, RightReads, RightEnds
  <2>4. fill' \in 0 .. PIPESIZE /\ written' \in 0 .. MaxOut
    BY <1>7 DEF Left, Right, RightQuits, OnlyEnds, Exec, ExecFails, Ends, LeftWrites,
       LeftEnds, RightReads, RightEnds, TypeOK
  <2> QED BY <1>0, <2>1, <2>2, <2>3, <2>4 DEF TypeOK
<1>8. CASE UNCHANGED vars
  BY <1>8 DEF vars, lineVars, pipeVars, TypeOK
<1> QED BY <1>1, <1>2, <1>3, <1>4, <1>5, <1>6, <1>7, <1>8 DEF Next, ReadLine, Steps

\* The shell's variables have their types, and argsBuffer is left at its end only by a
\* shell that is lost (shell.h:76, 92).
THEOREM ShellTypes == Spec => []TypeOK
<1>1. Init => TypeOK
  BY ShellAssumption DEF Init, TypeOK, Down, Failed
<1>2. TypeOK /\ InvSplit' /\ [Next]_vars => TypeOK'
  BY ShellTypesNext
<1> QED BY <1>1, <1>2, TokensInvariant, PTL DEF Spec
-----------------------------------------------------------------------------
(* The thread-per-connection server.  As long as main() has not overtaken  *)
(* a thread that copies its arguments, each thread has a connection for    *)
(* itself.  A descriptor is in the hands of main() from accept() on, then  *)
(* in the struct From until a thread has copied it, then in that thread's  *)
(* until it is closed.  The invariant: it is never in two hands.           *)

\* main() has a descriptor that no thread was started for yet.
Held == main \in {"addr", "socket", "create"} /\ c # FAIL

\* The struct is being copied and has a descriptor in it.
Handed == Copying /\ arg.socket # FAIL

Owned(t) == Working(t) /\ sock[t] # FAIL

\* Every descriptor in somebody's hands leads to the peer that is named with it.
HandsLead ==
  /\ Held => from_addr \in Peers /\ conn[c] = from_addr
  /\ Handed => arg.addr \in Peers /\ conn[arg.socket] = arg.addr
  /\ \A t \in Threads : Owned(t) => addr[t] \in Peers /\ conn[sock[t]] = addr[t]

\* No descriptor is in two hands.
HandsApart ==
  /\ Held /\ Handed => c # arg.socket
  /\ \A t \in Threads : Owned(t) => (Held => sock[t] # c) /\ (Handed => sock[t] # arg.socket)
  /\ \A t, u \in Threads : Owned(t) /\ Owned(u) /\ sock[t] = sock[u] => t = u

\* One thread at most is copying, before main() goes on to write to the struct; and
\* what has been written there and copied is what was meant.
StructInOrder ==
  /\ Copying => main \in {"accept", "addr"}
  /\ \A t, u \in Threads : at[t] \in {"addr", "socket"} /\ at[u] \in {"addr", "socket"} => t = u
  /\ \A t \in Threads : at[t] = "socket" => addr[t] = arg.addr
  /\ main \in {"socket", "create"} => arg.addr = from_addr
  /\ main = "create" => arg.socket = c

ServerInv == ServerTypeOK /\ (~overtaken => HandsLead /\ HandsApart /\ StructInOrder)
-----------------------------------------------------------------------------
LEMMA ServerTypesInit ==
  ASSUME ServerInit PROVE ServerTypeOK
BY DEF ServerInit, ServerTypeOK, FAIL

LEMMA ServerTypesNext ==
  ASSUME ServerTypeOK, [ServerNext]_tvars PROVE ServerTypeOK'
<1>1. CASE Accept
  BY <1>1 DEF ServerTypeOK, Accept, Free, threadVars, peerVars, FAIL
<1>2. CASE AcceptFails
  BY <1>2 DEF ServerTypeOK, AcceptFails, threadVars, peerVars, FAIL
<1>3. CASE FillAddr
  BY <1>3 DEF ServerTypeOK, FillAddr, Address, Copying, threadVars, peerVars, FAIL
<1>4. CASE FillSocket
  BY <1>4 DEF ServerTypeOK, FillSocket, Copying, threadVars, peerVars, FAIL
<1>5. CASE Create
  BY <1>5 DEF ServerTypeOK, Create, peerVars, FAIL
<1>6. CASE CreateFails
  BY <1>6 DEF ServerTypeOK, CreateFails, threadVars, peerVars, FAIL
<1>7. ASSUME NEW t \in Threads, Thread(t) PROVE ServerTypeOK'
  <2>1. CASE CopyAddr(t)
    BY <2>1 DEF ServerTypeOK, CopyAddr, Goto, mainVars, peerVars
  <2>2. CASE CopySocket(t)
    BY <2>2 DEF ServerTypeOK, CopySocket, Goto, mainVars, peerVars
  <2>3. CASE Read(t)
    BY <2>3 DEF ServerTypeOK, Read, AfterRead, Behind, Goto, mainVars
  <2>4. CASE ReadEnd(t)
    BY <2>4 DEF ServerTypeOK, ReadEnd, Goto, mainVars, peerVars
  <2>5. CASE Close(t)
    BY <2>5 DEF ServerTypeOK, Close, Goto, mainVars, peerVars
  <2>6. CASE Write(t)
    BY <2>6 DEF ServerTypeOK, Write, Behind, Goto, mainVars
  <2>7. CASE Killed(t)
    BY <2>7 DEF ServerTypeOK, Killed, mainVars, threadVars, peerVars
  <2>. QED  BY <1>7, <2>1, <2>2, <2>3, <2>4, <2>5, <2>6, <2>7 DEF Thread
<1>8. ASSUME NEW p \in Peers, Connect(p) \/ Hello(p) \/ Leave(p) PROVE ServerTypeOK'
  <2>1. CASE Connect(p)
    BY <2>1 DEF ServerTypeOK, Connect, mainVars, threadVars
  <2>2. CASE Hello(p)
    BY <2>2 DEF ServerTypeOK, Hello, mainVars, threadVars
  <2>3. CASE Leave(p)
    BY <2>3 DEF ServerTypeOK, Leave, mainVars, threadVars
  <2>. QED  BY <1>8, <2>1, <2>2, <2>3
<1>9. CASE UNCHANGED tvars
  BY <1>9 DEF ServerTypeOK, tvars, mainVars, threadVars, peerVars
<1>. QED  BY <1>1, <1>2, <1>3, <1>4, <1>5, <1>6, <1>7, <1>8, <1>9 DEF ServerNext, Main

\* The variables of the threads' server have their types.
THEOREM ServerTypes == ServerSpec => []ServerTypeOK
<1>1. ServerInit => ServerTypeOK  BY ServerTypesInit
<1>2. ServerTypeOK /\ [ServerNext]_tvars => ServerTypeOK'  BY ServerTypesNext
<1>. QED  BY <1>1, <1>2, PTL DEF ServerSpec
-----------------------------------------------------------------------------
InOrder == HandsLead /\ HandsApart /\ StructInOrder

\* A step of main() before which nobody has overtaken.
LEMMA MainKeeps ==
  ASSUME ServerTypeOK, InOrder, ~overtaken', Main PROVE InOrder'
<1>. USE DEF FAIL
<1>1. CASE Accept
  <2>1. PICK p \in backlog, fd \in Free :
          conn' = [conn EXCEPT ![fd] = p] /\ c' = fd /\ from_addr' = p
    BY <1>1 DEF Accept
  <2>2. p \in Peers /\ fd \in Sockets /\ conn[fd] = None
    BY <2>1 DEF Free, ServerTypeOK
  <2>3. UNCHANGED <<arg, at, addr, sock>> /\ main = "accept" /\ main' = "addr"
    BY <1>1 DEF Accept, threadVars
  <2>4. conn' \in [Sockets -> Peers \union {None}] /\ arg \in [addr : Peers \union {None}, socket : Sockets \union {FAIL}]
        /\ sock \in [Threads -> Sockets \union {FAIL}]
    BY <2>1, <2>2 DEF ServerTypeOK
  <2>5. (Copying <=> Copying') /\ (Handed <=> Handed') /\ (\A t \in Threads : Owned(t) <=> Owned(t)')
    BY <2>3 DEF Copying, Handed, Owned, Working
  <2>6. Handed => arg.socket # fd
    BY <2>2, <2>4, ThreadAssumption DEF InOrder, HandsLead
  <2>7. \A t \in Threads : Owned(t) => sock[t] # fd
    BY <2>2, <2>4, ThreadAssumption DEF InOrder, HandsLead
  <2>8. HandsLead'
    BY <2>1, <2>2, <2>3, <2>4, <2>5, <2>6, <2>7 DEF InOrder, HandsLead, Handed, Owned, ServerTypeOK
  <2>9. HandsApart'
    BY <2>1, <2>3, <2>5, <2>6, <2>7 DEF InOrder, HandsApart
  <2>10. StructInOrder'
    BY <2>3, <2>5 DEF InOrder, StructInOrder
  <2>. QED  BY <2>8, <2>9, <2>10 DEF InOrder
<1>2. CASE AcceptFails
  BY <1>2 DEF AcceptFails, InOrder, HandsLead, HandsApart, StructInOrder, Held, Handed, Owned,
              Working, Copying, threadVars
<1>3. CASE FillAddr
  BY <1>3 DEF FillAddr, Address, InOrder, HandsLead, HandsApart, StructInOrder, Held, Handed,
              Owned, Working, Copying, threadVars, ServerTypeOK
<1>4. CASE FillSocket
  BY <1>4 DEF FillSocket, InOrder, HandsLead, HandsApart, StructInOrder, Held, Handed,
              Owned, Working, Copying, threadVars, ServerTypeOK
<1>5. CASE Create
  <2>1. PICK t \in Threads : at[t] = "unborn" /\ at' = [at EXCEPT ![t] = "addr"]
    BY <1>5 DEF Create
  <2>2. ~Copying /\ arg.addr = from_addr /\ arg.socket = c
    BY <1>5 DEF Create, InOrder, StructInOrder
  <2>3. \A u \in Threads : Owned(u)' <=> Owned(u)
    BY <1>5, <2>1 DEF Create, Owned, Working, ServerTypeOK
  <2>4. \A u \in Threads : at'[u] \in {"addr", "socket"} <=> u = t
    BY <2>1, <2>2 DEF Copying, ServerTypeOK
  <2>5. UNCHANGED <<c, from_addr, arg, conn, addr, sock>> /\ main = "create" /\ main' = "accept"
    BY <1>5 DEF Create
  <2>6. ~Held' /\ (Handed' => Held) /\ at'[t] = "addr"
    BY <2>1, <2>2, <2>5 DEF Held, Handed, ServerTypeOK
  <2>7. HandsLead'
    BY <2>2, <2>3, <2>5, <2>6 DEF InOrder, HandsLead
  <2>8. HandsApart'
    BY <2>2, <2>3, <2>5, <2>6 DEF InOrder, HandsApart
  <2>9. StructInOrder'
    BY <2>4, <2>5, <2>6 DEF StructInOrder, Copying
  <2>. QED  BY <2>7, <2>8, <2>9 DEF InOrder
<1>6. CASE CreateFails
  BY <1>6 DEF CreateFails, InOrder, HandsLead, HandsApart, StructInOrder, Held, Handed, Owned,
              Working, Copying, threadVars
<1>. QED  BY <1>1, <1>2, <1>3, <1>4, <1>5, <1>6 DEF Main

\* A step of a thread.
LEMMA ThreadKeeps ==
  ASSUME ServerTypeOK, InOrder, NEW t \in Threads, Thread(t) PROVE InOrder'
<1>. USE DEF FAIL
<1>1. CASE CopyAddr(t)
  <2>1. at[t] = "addr" /\ at' = [at EXCEPT ![t] = "socket"] /\ addr' = [addr EXCEPT ![t] = arg.addr]
        /\ UNCHANGED <<main, c, from_addr, arg, conn, sock>>
    BY <1>1 DEF CopyAddr, Goto, mainVars
  <2>2. \A u \in Threads : /\ at'[u] \in {"addr", "socket"} <=> at[u] \in {"addr", "socket"}
                           /\ Owned(u)' <=> Owned(u)
                           /\ Owned(u) => addr'[u] = addr[u]
    BY <2>1 DEF ServerTypeOK, Owned, Working
  <2>3. (Copying' <=> Copying) /\ (Handed' <=> Handed) /\ (Held' <=> Held)
    BY <2>1, <2>2 DEF Copying, Handed, Held
  <2>4. HandsLead' /\ HandsApart'
    BY <2>1, <2>2, <2>3 DEF InOrder, HandsLead, HandsApart
  <2>5. StructInOrder'
    BY <2>1, <2>2, <2>3 DEF InOrder, StructInOrder, ServerTypeOK
  <2>. QED  BY <2>4, <2>5 DEF InOrder
<1>2. CASE CopySocket(t)
  <2>1. at[t] = "socket" /\ at' = [at EXCEPT ![t] = "read"] /\ sock' = [sock EXCEPT ![t] = arg.socket]
        /\ UNCHANGED <<main, c, from_addr, arg, conn, addr>>
    BY <1>2 DEF CopySocket, Goto, mainVars
  <2>2. Copying /\ addr[t] = arg.addr
    BY <2>1 DEF Copying, InOrder, StructInOrder
  <2>3. \A u \in Threads : u # t => /\ at'[u] \notin {"addr", "socket"} /\ at'[u] = at[u] /\ sock'[u] = sock[u]
                                    /\ Owned(u)' <=> Owned(u)
    BY <2>1 DEF ServerTypeOK, Owned, Working, InOrder, StructInOrder
  <2>4. ~Copying' /\ ~Handed' /\ (Held' <=> Held)
    BY <2>1, <2>3 DEF Copying, Handed, Held, ServerTypeOK
  <2>5. Owned(t)' => Handed /\ sock'[t] = arg.socket
    BY <2>1, <2>2 DEF Owned, Working, Handed, ServerTypeOK
  <2>6. HandsLead'
    BY <2>1, <2>2, <2>3, <2>4, <2>5 DEF InOrder, HandsLead
  <2>7. HandsApart'
    BY <2>1, <2>3, <2>4, <2>5 DEF InOrder, HandsApart
  <2>8. StructInOrder'
    BY <2>1, <2>3, <2>4 DEF InOrder, StructInOrder, Copying
  <2>. QED  BY <2>6, <2>7, <2>8 DEF InOrder
<1>3. CASE Read(t) \/ ReadEnd(t) \/ Write(t) \/ Killed(t)
  <2>1. UNCHANGED <<main, c, from_addr, arg, conn, addr, sock>>
    BY <1>3 DEF Read, ReadEnd, Write, Killed, mainVars, threadVars
  <2>2. \A u \in Threads : Working(u) <=> Working(u)'
    BY <1>3 DEF Read, ReadEnd, Write, Killed, Goto, Working, AfterRead, threadVars, ServerTypeOK
  <2>3. \A u \in Threads : /\ at'[u] \in {"addr", "socket"} <=> at[u] \in {"addr", "socket"}
                           /\ at'[u] = "socket" <=> at[u] = "socket"
    BY <1>3 DEF Read, ReadEnd, Write, Killed, Goto, AfterRead, threadVars, ServerTypeOK
  <2>4. (Copying' <=> Copying) /\ (Handed' <=> Handed) /\ (Held' <=> Held)
        /\ \A u \in Threads : Owned(u) <=> Owned(u)'
    BY <2>1, <2>2, <2>3 DEF Copying, Handed, Held, Owned
  <2>. QED  BY <2>1, <2>3, <2>4 DEF InOrder, HandsLead, HandsApart, StructInOrder
<1>4. CASE Close(t)
  <2>1. at[t] = "close" /\ at' = [at EXCEPT ![t] = "ended"]
        /\ UNCHANGED <<main, c, from_addr, arg, addr, sock>>
        /\ conn' = IF sock[t] \in Sockets THEN [conn EXCEPT ![sock[t]] = None] ELSE conn
    BY <1>4 DEF Close, Goto, mainVars
  <2>2. \A u \in Threads : /\ at'[u] \in {"addr", "socket"} <=> at[u] \in {"addr", "socket"}
                           /\ at'[u] = "socket" <=> at[u] = "socket"
                           /\ Owned(u)' <=> Owned(u) /\ u # t
    BY <2>1 DEF ServerTypeOK, Owned, Working
  <2>3. (Copying' <=> Copying) /\ (Handed' <=> Handed) /\ (Held' <=> Held)
    BY <2>1, <2>2 DEF Copying, Handed, Held
  <2>4. sock[t] \in Sockets => Owned(t)
    BY <2>1, ThreadAssumption DEF Owned, Working
  <2>5. \A fd \in Sockets : ~(Owned(t) /\ sock[t] = fd) => conn'[fd] = conn[fd]
    BY <2>1, <2>4 DEF ServerTypeOK
  <2>6. HandsLead'
    BY <2>1, <2>2, <2>3, <2>5 DEF InOrder, HandsLead, HandsApart, Held, Handed, Owned, ServerTypeOK
  <2>7. HandsApart' /\ StructInOrder'
    BY <2>1, <2>2, <2>3 DEF InOrder, HandsApart, StructInOrder
  <2>. QED  BY <2>6, <2>7 DEF InOrder
<1>. QED  BY <1>1, <1>2, <1>3, <1>4 DEF Thread

\* The peers touch nothing of the process.
LEMMA PeersKeep ==
  ASSUME InOrder, UNCHANGED <<mainVars, conn, threadVars>> PROVE InOrder'
BY DEF InOrder, HandsLead, HandsApart, StructInOrder, Held, Handed, Owned, Working, Copying,
       mainVars, threadVars

\* Once main() has overtaken a thread, this is never forgotten.
LEMMA OvertakenStays == ASSUME overtaken, [ServerNext]_tvars PROVE overtaken'
BY DEF ServerNext, Main, Accept, AcceptFails, FillAddr, FillSocket, Create, CreateFails, Thread,
       CopyAddr, CopySocket, Read, ReadEnd, Close, Write, Killed, Connect, Hello, Leave, tvars

LEMMA InOrderKept ==
  ASSUME ServerTypeOK, InOrder, ~overtaken', [ServerNext]_tvars PROVE InOrder'
<1>1. CASE Main
  BY <1>1, MainKeeps
<1>2. ASSUME NEW t \in Threads, Thread(t) PROVE InOrder'
  BY <1>2, ThreadKeeps
<1>3. ASSUME NEW p \in Peers, Connect(p) \/ Hello(p) \/ Leave(p) PROVE InOrder'
  BY <1>3, PeersKeep DEF Connect, Hello, Leave
<1>4. CASE UNCHANGED tvars
  BY <1>4, PeersKeep DEF tvars
<1>. QED  BY <1>1, <1>2, <1>3, <1>4 DEF ServerNext

\* No descriptor is ever in two hands.
THEOREM Hands == ServerSpec => []ServerInv
<1>1. ServerInit => ServerInv
  <2>1. ServerInit => ~Held /\ ~Copying /\ ~Handed /\ (\A t \in Threads : ~Owned(t) /\ at[t] = "unborn")
    BY DEF ServerInit, Held, Copying, Handed, Owned, Working
  <2>. QED  BY <2>1, ServerTypesInit DEF ServerInv, ServerInit, HandsLead, HandsApart, StructInOrder
<1>2. ServerInv /\ [ServerNext]_tvars => ServerInv'
  BY ServerTypesNext, OvertakenStays, InOrderKept DEF ServerInv, InOrder
<1>. QED  BY <1>1, <1>2, PTL DEF ServerSpec

\* For any number of clients, threads and descriptors: unless main() writes to the
\* struct while a thread copies it, each thread has a connection for itself.
THEOREM Own == ServerSpec => []OwnConnection
<1>1. ServerInv => OwnConnection
  BY DEF ServerInv, OwnConnection, HandsLead, HandsApart, Owned
<1>. QED  BY <1>1, Hands, PTL
-----------------------------------------------------------------------------
(* The threads that print.                                                 *)

\* The threads between taking and releasing the mutex, and those that have read count
\* and not yet written their line.
Inside(t)  == pos[t] \in {"load", "store", "print", "unlock"}
Counted(t) == pos[t] \in {"store", "print"}

\* Only the holder of the mutex is inside.
Excluded == \A t \in Ids : Inside(t) => mutex = t /\ left[t] < LOOP

\* count is the number of lines printed, one more while a line has its number and is
\* not yet printed; and that number is the right one.
Numbers ==
  /\ \A i \in DOMAIN output : output[i].count = i - 1
  /\ count = Len(output) + (IF \E t \in Ids : pos[t] = "print" THEN 1 ELSE 0)
  /\ \A t \in Ids : Counted(t) => seen[t] = Len(output)

\* What a thread has done: line l was its turn l, and its turns before are printed.
LinesDone(t) == LOOP - left[t] - (IF pos[t] \in {"load", "store", "print"} THEN 1 ELSE 0)

Printed(t, l) == \E i \in DOMAIN output : output[i].id = t /\ output[i].loop = l

AllPrinted == \A t \in Ids, l \in 1 .. LOOP : l <= LinesDone(t) => Printed(t, l)

\* What the loops of main() know of the threads.
Loops ==
  /\ launcher = "create" => \A t \in Ids : t >= k => pos[t] = "unborn"
  /\ launcher = "join" => \A t \in Ids : t >= thread_num - k => pos[t] = "ended"
  /\ launcher = "done" => \A t \in Ids : pos[t] = "ended"
  /\ \A t \in Ids : pos[t] = "ended" => left[t] = 0

CountInv == CountTypeOK /\ Excluded /\ Numbers /\ AllPrinted /\ Loops
-----------------------------------------------------------------------------
\* While a thread is inside no other one is.
LEMMA OneInside ==
  ASSUME CountInv, NEW t \in Ids, Inside(t)
  PROVE  \A u \in Ids : u # t => ~Inside(u) /\ ~Counted(u) /\ pos[u] # "print"
BY DEF CountInv, Excluded, Inside, Counted

\* What is said of the threads alone stays true while they and their output stay the same.
LEMMA ThreadsSame ==
  ASSUME Excluded, Numbers, AllPrinted, UNCHANGED <<count, mutex, pos, left, seen, output>>
  PROVE  Excluded' /\ Numbers' /\ AllPrinted'
<1>1. Excluded'
  BY DEF Excluded, Inside
<1>2. Numbers'
  BY DEF Numbers, Counted
<1>3. AllPrinted'
  BY DEF AllPrinted, Printed, LinesDone
<1> QED BY <1>1, <1>2, <1>3

\* The steps of main().
LEMMA MainThreadKeeps ==
  ASSUME CountInv, MainThread \/ StartFails
  PROVE  CountInv'
<1> USE CountAssumption DEF Ids
<1>1. CASE Start
  <2>1. /\ k \in Ids /\ pos[k] = "unborn" /\ pos' = [pos EXCEPT ![k] = "loop"] /\ k' = k + 1
        /\ launcher = "create"
        /\ UNCHANGED <<launcher, count, mutex, left, seen, output>>
    BY <1>1 DEF Start, CountInv, Loops, CountTypeOK
  <2>2. \A t \in Ids : /\ Inside(t)' <=> Inside(t)
                       /\ Counted(t)' <=> Counted(t)
                       /\ pos'[t] = "print" <=> pos[t] = "print"
                       /\ pos'[t] = "ended" <=> pos[t] = "ended"
                       /\ LinesDone(t)' = LinesDone(t)
    BY <2>1 DEF Inside, Counted, LinesDone, CountInv, CountTypeOK
  <2>3. CountTypeOK'
    BY <2>1 DEF CountInv, CountTypeOK
  <2>4. Excluded' /\ Numbers'
    BY <2>1, <2>2 DEF CountInv, Excluded, Numbers
  <2>5. AllPrinted'
    BY <2>1, <2>2 DEF CountInv, AllPrinted, Printed
  <2>6. Loops'
    BY <2>1, <2>2 DEF CountInv, Loops, CountTypeOK
  <2> QED BY <2>3, <2>4, <2>5, <2>6 DEF CountInv
<1>2. CASE StartFails
  <2>1. launcher' = "failed" /\ UNCHANGED <<k, count, mutex, pos, left, seen, output>>
    BY <1>2 DEF StartFails
  <2>2. CountTypeOK' /\ Loops'
    BY <2>1 DEF CountInv, CountTypeOK, Loops
  <2> QED BY <2>1, <2>2, ThreadsSame DEF CountInv
<1>3. CASE AllCreated
  <2>1. /\ launcher' = "join" /\ k' = 0
        /\ UNCHANGED <<count, mutex, pos, left, seen, output>>
    BY <1>3 DEF AllCreated
  <2>2. Loops'
    BY <2>1 DEF CountInv, Loops
  <2>3. CountTypeOK'
    BY <2>1 DEF CountInv, CountTypeOK
  <2> QED BY <2>1, <2>2, <2>3, ThreadsSame DEF CountInv
<1>4. CASE Join
  <2>1. UNCHANGED <<count, mutex, pos, left, seen, output>> /\ launcher = "join"
    BY <1>4 DEF Join
  <2>2. k \in 0 .. thread_num /\ \A t \in Ids : t >= thread_num - k => pos[t] = "ended"
    BY <2>1 DEF CountInv, CountTypeOK, Loops
  <2>3. CASE ~AllJoined /\ pos[thread_num - k - 1] = "ended" /\ k' = k + 1 /\ UNCHANGED launcher
    <3>1. k' \in 0 .. thread_num
      BY <2>2, <2>3 DEF AllJoined
    <3>2. \A t \in Ids : t >= thread_num - k' => t >= thread_num - k \/ t = thread_num - k - 1
      BY <2>2, <2>3
    <3>3. CountTypeOK' /\ Loops'
      BY <2>1, <2>2, <2>3, <3>1, <3>2 DEF CountInv, CountTypeOK, Loops
    <3> QED BY <2>1, <3>3, ThreadsSame DEF CountInv
  <2>4. CASE AllJoined /\ launcher' = "done" /\ UNCHANGED k
    <3>1. \A t \in Ids : pos[t] = "ended"
      BY <2>2, <2>4 DEF AllJoined
    <3>2. CountTypeOK' /\ Loops'
      BY <2>1, <2>4, <3>1 DEF CountInv, CountTypeOK, Loops
    <3> QED BY <2>1, <3>2, ThreadsSame DEF CountInv
  <2> QED BY <1>4, <2>3, <2>4 DEF Join
<1> QED BY <1>1, <1>2, <1>3, <1>4 DEF MainThread

\* A step of a thread, in short: it is where it was before main() has joined it.
LEMMA StepIs ==
  ASSUME CountInv, NEW t \in Ids, NEW here, NEW next, Step(t, here, next), here # "unborn",
         here # "ended", UNCHANGED <<launcher, k>>, next = "ended" => left'[t] = 0,
         \A u \in Ids \ {t} : left'[u] = left[u], next # "unborn"
  PROVE  Loops'
BY CountAssumption DEF Step, Running, CountInv, Loops, CountTypeOK, Ids

\* The steps of a thread.
LEMMA PrinterKeeps ==
  ASSUME CountInv, NEW t \in Ids, Printer(t)
  PROVE  CountInv'
<1> USE CountAssumption DEF Step
<1>0. /\ Ids \subseteq Nat /\ Len(output) \in Nat /\ output \in Seq([id : Ids, loop : 1 .. LOOP, count : Nat])
      /\ left[t] \in Nat /\ left[t] <= LOOP
      /\ DOMAIN output = 1 .. Len(output)
  BY DEF CountInv, CountTypeOK, Ids
<1>1. CASE Lock(t)
  <2>1. /\ pos[t] = "loop" /\ pos' = [pos EXCEPT ![t] = "load"] /\ left[t] > 0
        /\ left' = [left EXCEPT ![t] = left[t] - 1] /\ mutex' = t /\ mutex = Nobody
        /\ UNCHANGED <<launcher, k, count, seen, output>>
    BY <1>1 DEF Lock, MayLock
  <2>2. \A u \in Ids : ~Inside(u)
    BY <1>0, <2>1 DEF CountInv, Excluded, Nobody
  <2>3. \A u \in Ids : /\ ~Counted(u) /\ ~Counted(u)' /\ pos[u] # "print" /\ pos'[u] # "print"
                       /\ LinesDone(u)' = LinesDone(u)
                       /\ Inside(u)' => u = t
    BY <1>0, <2>1, <2>2 DEF Inside, Counted, LinesDone, CountInv, CountTypeOK
  <2>4. CountTypeOK'
    BY <1>0, <2>1 DEF CountInv, CountTypeOK
  <2>5. Excluded'
    <3>1. left'[t] < LOOP /\ mutex' = t
      BY <1>0, <2>1 DEF CountInv, CountTypeOK
    <3> QED BY <2>3, <3>1 DEF Excluded
  <2>8. Numbers'
    BY <2>1, <2>3 DEF CountInv, Numbers
  <2>6. AllPrinted'
    BY <2>1, <2>3 DEF CountInv, AllPrinted, Printed
  <2>7. Loops'
    BY <1>1, <2>1, StepIs DEF Lock, CountInv, CountTypeOK
  <2> QED BY <2>4, <2>5, <2>6, <2>7, <2>8 DEF CountInv
<1>2. CASE LoadCount(t)
  <2>1. /\ pos[t] = "load" /\ pos' = [pos EXCEPT ![t] = "store"]
        /\ seen' = [seen EXCEPT ![t] = count]
        /\ UNCHANGED <<launcher, k, count, mutex, left, output>>
    BY <1>2 DEF LoadCount
  <2>2. Inside(t) /\ \A u \in Ids : u # t => ~Inside(u) /\ ~Counted(u) /\ pos[u] # "print"
    BY <2>1, OneInside DEF Inside
  <2>3. \A u \in Ids : /\ pos[u] # "print" /\ pos'[u] # "print"
                       /\ LinesDone(u)' = LinesDone(u)
                       /\ Counted(u)' => u = t
    BY <2>1, <2>2 DEF Inside, Counted, LinesDone, CountInv, CountTypeOK
  <2>4. CountTypeOK'
    BY <1>0, <2>1 DEF CountInv, CountTypeOK
  <2>5. \A u \in Ids : Inside(u)' <=> Inside(u)
    BY <2>1, <2>2 DEF Inside, CountInv, CountTypeOK
  <2>6. Excluded'
    BY <2>1, <2>5 DEF CountInv, Excluded
  <2>9. count = Len(output) /\ seen'[t] = Len(output)
    <3>0. ~\E u \in Ids : pos[u] = "print"
      BY <2>3
    <3>1. count = Len(output)
      <4>1. count = Len(output) + 0
        BY <3>0 DEF CountInv, Numbers
      <4> QED BY <1>0, <4>1
    <3> QED BY <2>1, <3>1 DEF CountInv, CountTypeOK
  <2>10. Numbers'
    BY <2>1, <2>3, <2>9 DEF CountInv, Numbers
  <2>7. AllPrinted'
    BY <2>1, <2>3 DEF CountInv, AllPrinted, Printed
  <2>8. Loops'
    BY <1>2, <2>1, StepIs DEF LoadCount, CountInv, CountTypeOK
  <2> QED BY <2>4, <2>6, <2>7, <2>8, <2>10 DEF CountInv
<1>3. CASE StoreCount(t)
  <2>1. /\ pos[t] = "store" /\ pos' = [pos EXCEPT ![t] = "print"] /\ count' = seen[t] + 1
        /\ UNCHANGED <<launcher, k, mutex, left, seen, output>>
    BY <1>3 DEF StoreCount
  <2>2. Inside(t) /\ \A u \in Ids : u # t => ~Inside(u) /\ ~Counted(u) /\ pos[u] # "print"
    BY <2>1, OneInside DEF Inside
  <2>3. \A u \in Ids : /\ Inside(u)' <=> Inside(u)
                       /\ LinesDone(u)' = LinesDone(u)
                       /\ Counted(u)' <=> Counted(u)
    BY <2>1, <2>2 DEF Inside, Counted, LinesDone, CountInv, CountTypeOK
  <2>4. seen[t] = Len(output) /\ pos'[t] = "print"
    BY <2>1 DEF CountInv, Numbers, Counted, CountTypeOK
  <2>5. CountTypeOK'
    BY <1>0, <2>1, <2>4 DEF CountInv, CountTypeOK
  <2>6. Excluded' /\ Numbers'
    BY <1>0, <2>1, <2>3, <2>4 DEF CountInv, Excluded, Numbers, CountTypeOK
  <2>7. AllPrinted'
    BY <2>1, <2>3 DEF CountInv, AllPrinted, Printed
  <2>8. Loops'
    BY <1>3, <2>1, StepIs DEF StoreCount, CountInv, CountTypeOK
  <2> QED BY <2>5, <2>6, <2>7, <2>8 DEF CountInv
<1>4. CASE PrintLine(t)
  <2> DEFINE e == [id |-> t, loop |-> LOOP - left[t], count |-> seen[t]]
  <2>1. /\ pos[t] = "print" /\ pos' = [pos EXCEPT ![t] = "unlock"] /\ output' = Append(output, e)
        /\ UNCHANGED <<launcher, k, count, mutex, left, seen>>
    BY <1>4 DEF PrintLine
  <2>2. Inside(t) /\ \A u \in Ids : u # t => ~Inside(u) /\ ~Counted(u) /\ pos[u] # "print"
    BY <2>1, OneInside DEF Inside
  <2>3. \A u \in Ids : /\ Inside(u)' <=> Inside(u)
                       /\ ~Counted(u)' /\ pos'[u] # "print"
                       /\ u # t => LinesDone(u)' = LinesDone(u)
    BY <2>1, <2>2 DEF Inside, Counted, LinesDone, CountInv, CountTypeOK
  <2>4. seen[t] = Len(output) /\ count = Len(output) + 1 /\ left[t] < LOOP /\ Counted(t)
    BY <2>1, <2>2 DEF CountInv, Numbers, Counted, Excluded
  <2>5. LinesDone(t) = LOOP - left[t] - 1 /\ LinesDone(t)' = LOOP - left[t]
    BY <1>0, <2>1 DEF LinesDone, CountInv, CountTypeOK
  <2>6. e \in [id : Ids, loop : 1 .. LOOP, count : Nat]
    BY <1>0, <2>4
  <2>7. /\ output' \in Seq([id : Ids, loop : 1 .. LOOP, count : Nat])
        /\ Len(output') = Len(output) + 1 /\ output'[Len(output) + 1] = e
        /\ DOMAIN output' = 1 .. Len(output) + 1
        /\ \A i \in 1 .. Len(output) : output'[i] = output[i]
    BY <1>0, <2>1, <2>6
  <2>8. CountTypeOK'
    BY <2>1, <2>7 DEF CountInv, CountTypeOK
  <2>9. Excluded'
    BY <2>1, <2>3 DEF CountInv, Excluded
  <2>10. Numbers'
    <3>1. ASSUME NEW i \in DOMAIN output' PROVE output'[i].count = i - 1
      <4>1. i \in 1 .. Len(output) \/ i = Len(output) + 1
        BY <1>0, <2>7
      <4>2. CASE i \in 1 .. Len(output)
        BY <1>0, <2>7, <4>2 DEF CountInv, Numbers
      <4>3. CASE i = Len(output) + 1
        BY <1>0, <2>4, <2>7, <4>3
      <4> QED BY <4>1, <4>2, <4>3
    <3> QED BY <1>0, <2>1, <2>3, <2>4, <2>7, <3>1 DEF Numbers
  <2>11. AllPrinted'
    <3>1. ASSUME NEW u \in Ids, NEW l \in 1 .. LOOP, Printed(u, l) PROVE Printed(u, l)'
      <4>1. PICK i \in 1 .. Len(output) : output[i].id = u /\ output[i].loop = l
        BY <1>0, <3>1 DEF Printed
      <4>2. i \in 1 .. Len(output) + 1
        BY <1>0
      <4>3. output'[i] = output[i]
        BY <2>7
      <4> QED BY <2>7, <4>1, <4>2, <4>3 DEF Printed
    <3>2. ASSUME NEW l \in 1 .. LOOP, l = LOOP - left[t] PROVE Printed(t, l)'
      <4> DEFINE i == Len(output) + 1
      <4>1. i \in DOMAIN output' /\ output'[i].id = t /\ output'[i].loop = l
        BY <1>0, <2>7, <3>2
      <4> QED BY <4>1 DEF Printed
    <3>3. ASSUME NEW u \in Ids, NEW l \in 1 .. LOOP, l <= LinesDone(u)', ~(u = t /\ l = LOOP - left[t])
          PROVE  l <= LinesDone(u)
      <4>1. CASE u # t
        BY <2>3, <3>3, <4>1
      <4>2. CASE u = t
        <5>1. l \in Int /\ LOOP - left[t] \in Int /\ l <= LOOP - left[t] /\ l # LOOP - left[t]
          BY <1>0, <2>5, <3>3, <4>2
        <5> QED BY <2>5, <4>2, <5>1
      <4> QED BY <4>1, <4>2
    <3>4. ASSUME NEW u \in Ids, NEW l \in 1 .. LOOP, l <= LinesDone(u)' PROVE Printed(u, l)'
      <4>1. CASE u = t /\ l = LOOP - left[t]
        BY <3>2, <4>1
      <4>2. CASE ~(u = t /\ l = LOOP - left[t])
        BY <3>1, <3>3, <3>4, <4>2 DEF CountInv, AllPrinted
      <4> QED BY <4>1, <4>2
    <3> QED BY <3>4 DEF AllPrinted
  <2>12. Loops'
    BY <1>4, <2>1, StepIs DEF PrintLine, CountInv, CountTypeOK
  <2> QED BY <2>8, <2>9, <2>10, <2>11, <2>12 DEF CountInv
<1>5. CASE Unlock(t)
  <2>1. /\ pos[t] = "unlock" /\ pos' = [pos EXCEPT ![t] = "loop"] /\ mutex' = Nobody
        /\ UNCHANGED <<launcher, k, count, left, seen, output>>
    BY <1>5 DEF Unlock
  <2>2. Inside(t) /\ \A u \in Ids : u # t => ~Inside(u) /\ ~Counted(u) /\ pos[u] # "print"
    BY <2>1, OneInside DEF Inside
  <2>3. \A u \in Ids : /\ ~Inside(u)' /\ ~Counted(u)' /\ pos[u] # "print" /\ pos'[u] # "print"
                       /\ LinesDone(u)' = LinesDone(u)
    BY <2>1, <2>2 DEF Inside, Counted, LinesDone, CountInv, CountTypeOK
  <2>4. CountTypeOK'
    BY <2>1 DEF CountInv, CountTypeOK
  <2>5. Excluded' /\ Numbers'
    BY <2>1, <2>3 DEF CountInv, Excluded, Numbers
  <2>6. AllPrinted'
    BY <2>1, <2>3 DEF CountInv, AllPrinted, Printed
  <2>7. Loops'
    BY <1>5, <2>1, StepIs DEF Unlock, CountInv, CountTypeOK
  <2> QED BY <2>4, <2>5, <2>6, <2>7 DEF CountInv
<1>6. CASE Return(t)
  <2>1. /\ pos[t] = "loop" /\ pos' = [pos EXCEPT ![t] = "ended"] /\ left[t] = 0
        /\ UNCHANGED <<launcher, k, count, mutex, left, seen, output>>
    BY <1>6 DEF Return
  <2>2. \A u \in Ids : /\ Inside(u)' <=> Inside(u)
                       /\ Counted(u)' <=> Counted(u)
                       /\ pos'[u] = "print" <=> pos[u] = "print"
                       /\ LinesDone(u)' = LinesDone(u)
    BY <2>1 DEF Inside, Counted, LinesDone, CountInv, CountTypeOK
  <2>3. CountTypeOK'
    BY <2>1 DEF CountInv, CountTypeOK
  <2>4. Excluded' /\ Numbers'
    BY <2>1, <2>2 DEF CountInv, Excluded, Numbers
  <2>5. AllPrinted'
    BY <2>1, <2>2 DEF CountInv, AllPrinted, Printed
  <2>6. Loops'
    BY <1>6, <2>1, StepIs DEF Return
  <2> QED BY <2>3, <2>4, <2>5, <2>6 DEF CountInv
<1> QED BY <1>1, <1>2, <1>3, <1>4, <1>5, <1>6 DEF Printer

\* Only the holder of the mutex counts and prints, and what it counts is right.
THEOREM CountInvariance == CountSpec => []CountInv
<1>1. CountInit => CountInv
  <2> SUFFICES ASSUME CountInit PROVE CountInv
    OBVIOUS
  <2>1. \A t \in Ids : pos[t] = "unborn" /\ left[t] = LOOP /\ ~Inside(t) /\ ~Counted(t)
    BY DEF CountInit, Inside, Counted
  <2>2. CountTypeOK
    BY CountAssumption DEF CountInit, CountTypeOK
  <2>3. Excluded /\ Numbers /\ Loops
    BY <2>1 DEF CountInit, Excluded, Numbers, Loops
  <2>4. AllPrinted
    BY <2>1, CountAssumption DEF AllPrinted, LinesDone
  <2> QED BY <2>2, <2>3, <2>4 DEF CountInv
<1>2. CountInv /\ [CountNext]_cvars => CountInv'
  <2> SUFFICES ASSUME CountInv, [CountNext]_cvars PROVE CountInv'
    OBVIOUS
  <2>1. CASE CountNext
    BY <2>1, MainThreadKeeps, PrinterKeeps DEF CountNext
  <2>2. CASE UNCHANGED cvars
    <3>1. CountTypeOK' /\ Loops'
      BY <2>2 DEF cvars, CountInv, CountTypeOK, Loops
    <3> QED BY <2>2, <3>1, ThreadsSame DEF cvars, CountInv
  <2> QED BY <2>1, <2>2
<1> QED BY <1>1, <1>2, PTL DEF CountSpec

\* CountsInOrder of CountThreads.tla: for any number of threads and lines the numbers are
\* consecutive, and when main() returns normally no line is missing (pthread_print.cpp:60).
THEOREM Counts == CountSpec => []CountsInOrder
<1>1. CountInv => CountsInOrder
  <2> SUFFICES ASSUME CountInv PROVE CountsInOrder
    OBVIOUS
  <2>1. ASSUME launcher = "done", NEW t \in Ids, NEW l \in 1 .. LOOP
        PROVE  \E i \in DOMAIN output : output[i].id = t /\ output[i].loop = l
    <3>1. LinesDone(t) = LOOP
      BY <2>1, CountAssumption DEF CountInv, Loops, LinesDone
    <3> QED BY <3>1 DEF CountInv, AllPrinted, Printed
  <2> QED BY <2>1 DEF CountsInOrder, CountInv, Numbers
<1> QED BY <1>1, CountInvariance, PTL
=============================================================================
