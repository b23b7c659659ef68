----------------------------- MODULE AcosProofs -----------------------------
(***************************************************************************)
(* Proofs about the two programs that fork.                                *)
(*                                                                         *)
(* ACOS/find.c, for every tree of directories, every template and every    *)
(* number of descriptors: a failed execvp() is noticed in its own call of  *)
(* checkExec(); what is printed is right; and the walk takes no more       *)
(* descriptors than Enough says.  The signal needs nothing but the states  *)
(* of the two processes (IInv).  The rest needs what the walk has seen:    *)
(* the directories opened, the files read (Walked), the descriptors they   *)
(* took (Counted) and what was run and printed of the files (Ran).         *)
(*                                                                         *)
(* Its regExp(), for templates and names of any length over any alphabet:  *)
(* it accepts what the template means.  The template is laid out as items  *)
(* (Laid), the loop over a bracket finds what its body stands for, and the *)
(* loop of regExp() counts what Asked counts.  Then checkExp() and Accepts *)
(* agree where an item begins (Agree), from the last item to the first,    *)
(* for the calls that can come to be (Ready, Room).  Both are recursive    *)
(* functions: that their equations have a solution is proved first, from   *)
(* the end of the template backwards.                                      *)
(*                                                                         *)
(* ACOS/server.c, an instance of Server.tla with variables of its own, for *)
(* any number of clients: an answer ends, or its request says why not.     *)
(***************************************************************************)
EXTENDS MCFind, FiniteSetTheorems, WellFoundedInduction, TLAPS

\* The parts of the state that the argument is about.
TypeOK == /\ file \in SUBSET Files
          /\ exec \in [Files -> {"none", "started", "refused"}]

\* The child lives between fork() and the return of wait(), and execs after the write.
ChildInCall == /\ child # "none" => pc \in {"write", "wait"}
               /\ pc \in {"fork", "write"} => ~written
               /\ child \in {"exec", "program", "kill", "exit", "zombie"} => pc = "wait"

\* The signal is sent after the failure and before the end of the child.
SignalInCall == /\ pending => child \in {"exit", "zombie"}
                /\ pending \/ child = "kill" => \A f \in file : exec[f] = "refused"

(***************************************************************************)
(* SignalMeetsItsCall says nothing of a child that has failed and not yet  *)
(* sent its signal, nor of what keeps the child behind the parent's write. *)
(***************************************************************************)
IInv == TypeOK /\ ChildInCall /\ SignalInCall

\* The invariant holds at the start: there is no child.
LEMMA InitInv == Init => IInv
BY DEF Init, IInv, TypeOK, ChildInCall, SignalInCall

\* Every step of the parent, the child and the handler keeps the invariant.
LEMMA StepInv == IInv /\ [Next]_vars => IInv'
<1> SUFFICES ASSUME IInv, [Next]_vars PROVE IInv'
  OBVIOUS
<1> USE DEF IInv, TypeOK, ChildInCall, SignalInCall
<1>1. ASSUME NEW e \in Files \cup Dirs, ReadDir(e) PROVE IInv'
  BY <1>1 DEF ReadDir, Read, args, call
<1>2. ASSUME NEW e \in Files \cup Dirs, ReadFile(e) PROVE IInv'
  <2>1. e \in Files /\ UNCHANGED <<exec, written, child, pending>> /\ pc = "walk"
    BY <1>2 DEF ReadFile, Read
  <2>2. child = "none" /\ ~pending
    BY <2>1
  <2>3. (pc' = "pipe" /\ file' = {e}) \/ UNCHANGED <<pc, file>>
    BY <1>2 DEF ReadFile
  <2> QED BY <2>1, <2>2, <2>3
<1>3. CASE EndDir
  BY <1>3 DEF EndDir, args, call
<1>4. CASE Pipe
  BY <1>4 DEF Pipe, args
<1>5. CASE Fork
  BY <1>5 DEF Fork, args
<1>6. CASE Write
  BY <1>6 DEF Write, args
<1>7. CASE Return
  BY <1>7 DEF Return, args
<1>8. CASE Deliver
  BY <1>8 DEF Deliver, args
<1>9. CASE ReadPid
  BY <1>9 DEF ReadPid, ChildStep, args
<1>10. CASE Exec
  <2>1. UNCHANGED <<pc, file, written, pending>> /\ child = "exec" /\ child' \in {"program", "kill"}
    BY <1>10 DEF Exec, ChildStep
  <2>2. exec' \in [Files -> {"none", "started", "refused"}]
    BY <1>10 DEF Exec, ChildStep
  <2>3. child' = "kill" => \A f \in file : exec'[f] = "refused"
    BY <1>10 DEF Exec, ChildStep
  <2> QED BY <2>1, <2>2, <2>3
<1>11. CASE Kill
  BY <1>11 DEF Kill, ChildStep, args
<1>12. CASE Exit
  BY <1>12 DEF Exit, ChildStep, args
<1>13. CASE UNCHANGED vars
  BY <1>13 DEF vars, args, call
<1> QED
  BY <1>1, <1>2, <1>3, <1>4, <1>5, <1>6, <1>7, <1>8, <1>9, <1>10, <1>11, <1>12, <1>13
  DEF Next, Parent, Child

\* The invariant gives the property.
LEMMA InvGivesMeeting == IInv => SignalMeetsItsCall
BY DEF IInv, TypeOK, ChildInCall, SignalInCall, SignalMeetsItsCall

(***************************************************************************)
(* SignalMeetsItsCall: the handler of SIGUSR1 never writes the result of a *)
(* call of checkExec() other than the one whose child has failed, and no   *)
(* call leaves its child behind.                                           *)
(***************************************************************************)
THEOREM SignalsMeet == Spec => []SignalMeetsItsCall
<1>1. Spec => []IInv
  BY InitInv, StepInv, PTL DEF Spec
<1> QED BY <1>1, InvGivesMeeting, PTL
-----------------------------------------------------------------------------
(***************************************************************************)
(* What is printed, and how many descriptors it takes.                     *)
(***************************************************************************)
Calling == pc \in {"pipe", "undefined", "fork", "failed", "write", "wait"}

\* The file checkExec() is at work on.
Current == IF Calling THEN file ELSE {}

(***************************************************************************)
(* D are the directories opened, F the files read so far: what readdir()   *)
(* has still to return is none of them, and with enough descriptors all    *)
(* other entries are.                                                      *)
(***************************************************************************)
Walked(D, F) ==
  /\ D \in SUBSET Dirs /\ F \in SUBSET Files /\ Root \in D
  /\ \A x \in D \cup F : x = Root \/ \E d \in D : x \in Entries[d]
  /\ stack \in Seq([dir : D, todo : SUBSET (Files \cup Dirs)])
  /\ \A i \in 1..Len(stack) : /\ stack[i].todo \subseteq Entries[stack[i].dir]
                              /\ stack[i].todo \cap (D \cup F) = {}
  /\ \A i, j \in 1..Len(stack) : stack[i].dir = stack[j].dir => i = j
  /\ Enough => \A d \in D : \A x \in Entries[d] :
       \/ x \in D \cup F
       \/ \E i \in 1..Len(stack) : stack[i].dir = d /\ x \in stack[i].todo

\* The files for which there is a pipe.
Piped(F) == IF ~program THEN {}
            ELSE (F \cap matching) \ (IF pc \in {"pipe", "undefined"} THEN file ELSE {})

Counted(D, F) ==
  /\ limit \in Nat /\ open \in Int
  /\ pc # "done" => open = Cardinality(D) + 2 * Cardinality(Piped(F))
  /\ pc = "undefined" => ~Enough
  /\ pc = "done" => stack = <<>>

\* What has been run and printed; of the current file it depends on the child.
Ran(F) ==
  /\ pc \in {"walk", "done", "pipe", "undefined", "fork", "failed", "write", "wait"}
  /\ matching \in SUBSET Files /\ program \in BOOLEAN
  /\ ~program => ~Calling /\ printed = F \cap matching
  /\ Calling => \E f \in F \cap matching : file = {f}
  /\ program => /\ \A f \in Files \ Current : f \in F \cap matching <=> exec[f] # "none"
                /\ printed = {f \in Files \ Current : exec[f] = "started"}
  /\ pc \in {"write", "wait"} <=> child # "none"
  /\ \A f \in Current :
       /\ child \in {"none", "read", "exec"} => exec[f] = "none"
       /\ child \in {"program", "zombie"} /\ exec[f] # "refused" => exec[f] = "started"
       /\ child = "program" => exec[f] = "started"
       /\ child \in {"kill", "exit"} => exec[f] = "refused"
       /\ child \in {"exit", "zombie"} => (exec[f] = "refused" <=> pending \/ ~res)
       /\ child \notin {"exit", "zombie"} => res

\* The inductive invariant of the walk.
WInv == IInv /\ \E D, F : Walked(D, F) /\ Counted(D, F) /\ Ran(F)
-----------------------------------------------------------------------------
\* Cardinalities of sets of directories and of files, and how one more counts.
LEMMA Sizes ==
  ASSUME NEW S, IsFiniteSet(S), NEW T \in SUBSET S
  PROVE  /\ Cardinality(T) \in Nat /\ Cardinality(S) \in Nat /\ Cardinality(T) <= Cardinality(S)
         /\ \A x \in S \ T : /\ Cardinality(T \cup {x}) = Cardinality(T) + 1
                             /\ Cardinality(T) + 1 <= Cardinality(S)
<1>1. IsFiniteSet(T) /\ Cardinality(T) <= Cardinality(S)
  BY FS_Subset
<1>2. Cardinality(T) \in Nat /\ Cardinality(S) \in Nat
  BY <1>1, FS_CardinalityType
<1>3. ASSUME NEW x \in S \ T PROVE /\ Cardinality(T \cup {x}) = Cardinality(T) + 1
                                   /\ Cardinality(T) + 1 <= Cardinality(S)
  <2>1. Cardinality(T \cup {x}) = Cardinality(T) + 1
    BY <1>1, FS_AddElement
  <2>2. T \cup {x} \in SUBSET S
    OBVIOUS
  <2>3. Cardinality(T \cup {x}) <= Cardinality(S)
    BY <2>2, FS_Subset
  <2> QED BY <2>1, <2>3
<1> QED BY <1>1, <1>2, <1>3

\* What the walk has counted, against what there is.
LEMMA Bounds ==
  ASSUME NEW D \in SUBSET Dirs, NEW F \in SUBSET Files, matching \in SUBSET Files
  PROVE  /\ Cardinality(D) \in Nat /\ Cardinality(Dirs) \in Nat
         /\ Cardinality(D) <= Cardinality(Dirs)
         /\ Cardinality(Piped(F)) \in Nat /\ Cardinality(matching) \in Nat
         /\ Cardinality(Piped(F)) <= Cardinality(matching)
<1>1. IsFiniteSet(Dirs) /\ IsFiniteSet(matching) /\ Piped(F) \in SUBSET matching
  <2>1. IsFiniteSet(matching)
    BY TreeAssumption, FS_Subset
  <2> QED BY <2>1, TreeAssumption DEF Piped
<1> QED BY <1>1, Sizes

\* A function on 1..n is a sequence.
LEMMA FromElements == ASSUME NEW S, NEW n \in Nat, NEW s, s = [i \in 1..n |-> s[i]],
                             \A i \in 1..n : s[i] \in S
                      PROVE  s \in Seq(S) /\ Len(s) = n
OBVIOUS

\* A sequence of elements of a set is one of elements of any larger set.
LEMMA InLarger == ASSUME NEW S, NEW T, S \subseteq T, NEW s \in Seq(S)
                  PROVE  s \in Seq(T)
<1>1. Len(s) \in Nat /\ s = [i \in 1..Len(s) |-> s[i]] /\ \A i \in 1..Len(s) : s[i] \in S
  OBVIOUS
<1> QED BY <1>1, FromElements

\* A sequence without its last element.
LEMMA AllButLast == ASSUME NEW S, NEW s \in Seq(S), Len(s) > 0
                    PROVE  /\ SubSeq(s, 1, Len(s) - 1) \in Seq(S)
                           /\ Len(SubSeq(s, 1, Len(s) - 1)) = Len(s) - 1
                           /\ \A i \in 1..(Len(s) - 1) : SubSeq(s, 1, Len(s) - 1)[i] = s[i]
<1>1. Len(s) \in Nat /\ Len(s) - 1 \in Nat
  OBVIOUS
<1>2. \A i \in 1..Len(s) : s[i] \in S
  OBVIOUS
<1>3. SubSeq(s, 1, Len(s) - 1) = [i \in 1..(Len(s) - 1) |-> s[i]]
  BY <1>1
<1>4. \A i \in 1..(Len(s) - 1) : SubSeq(s, 1, Len(s) - 1)[i] = s[i] /\ s[i] \in S
  BY <1>1, <1>2, <1>3
<1>5. SubSeq(s, 1, Len(s) - 1) \in Seq(S) /\ Len(SubSeq(s, 1, Len(s) - 1)) = Len(s) - 1
  <2> DEFINE u == SubSeq(s, 1, Len(s) - 1)
  <2>1. u = [i \in 1..(Len(s) - 1) |-> u[i]] /\ \A i \in 1..(Len(s) - 1) : u[i] \in S
    BY <1>3, <1>4
  <2>2. u \in Seq(S) /\ Len(u) = Len(s) - 1
    <3> HIDE DEF u
    <3> QED BY <1>1, <2>1, FromElements
  <2> QED BY <2>2
<1> QED BY <1>4, <1>5

\* readdir() takes an entry that nobody has seen, and no other call will see.
LEMMA Reading ==
  ASSUME NEW D, NEW F, Walked(D, F), NEW e \in Files \cup Dirs, Read(e)
  PROVE  /\ Len(stack) \in Nat \ {0} /\ Top = stack[Len(stack)]
         /\ Top.dir \in D /\ e \in Entries[Top.dir] /\ e \notin D \cup F /\ e # Root
         /\ Rest(e) \in Seq([dir : D, todo : SUBSET (Files \cup Dirs)])
         /\ Len(Rest(e)) = Len(stack)
         /\ \A i \in 1..Len(stack) : /\ Rest(e)[i].dir = stack[i].dir
                                     /\ Rest(e)[i].todo = stack[i].todo \ {e}
<1> DEFINE n == Len(stack)
           Frames == [dir : D, todo : SUBSET (Files \cup Dirs)]
<1>1. stack \in Seq(Frames) /\ n \in Nat \ {0} /\ Top = stack[n] /\ e \in Top.todo
  BY DEF Walked, Read, Top
<1>2. \A i \in 1..n : stack[i] \in Frames
  <2> HIDE DEF Frames
  <2> QED BY <1>1
<1>3. /\ Top.dir \in D /\ e \in Entries[Top.dir] /\ e \notin D \cup F /\ Root \in D
      /\ D \in SUBSET Dirs
      /\ \A i, j \in 1..n : stack[i].dir = stack[j].dir => i = j
      /\ \A i \in 1..n : stack[i].todo \subseteq Entries[stack[i].dir]
  BY <1>1, <1>2 DEF Walked
<1>4. Rest(e) = [i \in 1..n |-> IF i = n THEN [stack[n] EXCEPT !.todo = stack[n].todo \ {e}]
                                         ELSE stack[i]]
  <2>1. stack = [i \in 1..n |-> stack[i]]
    <3> HIDE DEF Frames
    <3> QED BY <1>1
  <2> HIDE DEF Frames
  <2> QED BY <1>1, <2>1 DEF Rest
<1>5. \A i \in 1..n : Rest(e)[i] \in Frames
  BY <1>2, <1>4
<1>6. Rest(e) \in Seq(Frames) /\ Len(Rest(e)) = n
  <2>1. Rest(e) = [i \in 1..n |-> Rest(e)[i]]
    BY <1>4
  <2> HIDE DEF Frames
  <2> QED BY <1>1, <1>5, <2>1, FromElements
<1>7. ASSUME NEW i \in 1..n, i # n PROVE e \notin stack[i].todo
  <2>1. stack[i].dir # stack[n].dir /\ stack[i].dir \in Dirs /\ stack[n].dir \in Dirs
    BY <1>1, <1>2, <1>3, <1>7
  <2>2. Entries[stack[i].dir] \cap Entries[stack[n].dir] = {}
    BY <2>1, TreeAssumption
  <2> QED BY <1>1, <1>3, <2>2
<1>8. ASSUME NEW i \in 1..n PROVE /\ Rest(e)[i].dir = stack[i].dir
                                  /\ Rest(e)[i].todo = stack[i].todo \ {e}
  BY <1>2, <1>4, <1>7
<1> QED BY <1>1, <1>3, <1>6, <1>8

\* Nothing that the walk is about has changed.
LEMMA SameWalk ==
  ASSUME NEW D, NEW F, Walked(D, F), UNCHANGED <<args, stack>>
  PROVE  Walked(D, F)'
BY DEF Walked, Enough, args

\* A file has been read.
LEMMA FileRead ==
  ASSUME NEW D, NEW F, Walked(D, F), NEW e \in Files, Read(e),
         stack' = Rest(e), UNCHANGED args
  PROVE  Walked(D, F \cup {e})'
<1>1. Enough' = Enough
  BY DEF Enough, args
<1>2. /\ Len(stack) \in Nat \ {0} /\ Top = stack[Len(stack)]
      /\ Top.dir \in D /\ e \in Entries[Top.dir] /\ e \notin D \cup F
      /\ stack' \in Seq([dir : D, todo : SUBSET (Files \cup Dirs)])
      /\ Len(stack') = Len(stack)
      /\ \A i \in 1..Len(stack) : /\ stack'[i].dir = stack[i].dir
                                  /\ stack'[i].todo = stack[i].todo \ {e}
  <2>1. e \in Files \cup Dirs
    OBVIOUS
  <2> QED BY <2>1, Reading, Zenon
<1>3. \A i \in 1..Len(stack') : /\ stack'[i].todo \subseteq Entries[stack'[i].dir]
                                /\ stack'[i].todo \cap (D \cup (F \cup {e})) = {}
  BY <1>2 DEF Walked
<1>4. \A i, j \in 1..Len(stack') : stack'[i].dir = stack'[j].dir => i = j
  BY <1>2 DEF Walked
<1>5. ASSUME Enough, NEW d \in D, NEW x \in Entries[d]
      PROVE  \/ x \in D \cup (F \cup {e})
             \/ \E i \in 1..Len(stack') : stack'[i].dir = d /\ x \in stack'[i].todo
  BY <1>2, <1>5 DEF Walked
<1>6. \A x \in D \cup (F \cup {e}) : x = Root \/ \E d \in D : x \in Entries[d]
  BY <1>2 DEF Walked
<1>7. D \in SUBSET Dirs /\ F \cup {e} \in SUBSET Files /\ Root \in D
  BY DEF Walked
<1> QED BY <1>1, <1>2, <1>3, <1>4, <1>5, <1>6, <1>7 DEF Walked

\* A directory has been read that cannot be opened.
LEMMA DirMissed ==
  ASSUME NEW D, NEW F, Walked(D, F), NEW e \in Dirs, Read(e),
         stack' = Rest(e), UNCHANGED args, ~Enough
  PROVE  Walked(D, F)'
<1>1. Enough' = Enough
  BY DEF Enough, args
<1>2. /\ Len(stack) \in Nat \ {0}
      /\ stack' \in Seq([dir : D, todo : SUBSET (Files \cup Dirs)])
      /\ Len(stack') = Len(stack)
      /\ \A i \in 1..Len(stack) : /\ stack'[i].dir = stack[i].dir
                                  /\ stack'[i].todo = stack[i].todo \ {e}
  <2>1. e \in Files \cup Dirs
    OBVIOUS
  <2> QED BY <2>1, Reading, Zenon
<1>3. \A i \in 1..Len(stack') : /\ stack'[i].todo \subseteq Entries[stack'[i].dir]
                                /\ stack'[i].todo \cap (D \cup F) = {}
  BY <1>2 DEF Walked
<1>4. \A i, j \in 1..Len(stack') : stack'[i].dir = stack'[j].dir => i = j
  BY <1>2 DEF Walked
<1> QED BY <1>1, <1>2, <1>3, <1>4 DEF Walked

\* A directory has been read and opened.
LEMMA DirOpened ==
  ASSUME NEW D, NEW F, Walked(D, F), NEW e \in Dirs, Read(e),
         stack' = Append(Rest(e), Frame(e)), UNCHANGED args
  PROVE  Walked(D \cup {e}, F)'
<1> DEFINE E == D \cup {e}
           n == Len(stack)
           Frames == [dir : E, todo : SUBSET (Files \cup Dirs)]
<1>1. Enough' = Enough
  BY DEF Enough, args
<1>2. /\ n \in Nat \ {0} /\ Top = stack[n]
      /\ Top.dir \in D /\ e \in Entries[Top.dir] /\ e \notin D \cup F
      /\ Rest(e) \in Seq([dir : D, todo : SUBSET (Files \cup Dirs)])
      /\ Len(Rest(e)) = n
      /\ \A i \in 1..n : /\ Rest(e)[i].dir = stack[i].dir
                         /\ Rest(e)[i].todo = stack[i].todo \ {e}
  BY Reading
<1>3. Frame(e) = [dir |-> e, todo |-> Entries[e]] /\ Frame(e) \in Frames
  BY TreeAssumption DEF Frame
<1>4. Rest(e) \in Seq(Frames)
  <2>1. [dir : D, todo : SUBSET (Files \cup Dirs)] \subseteq Frames
    OBVIOUS
  <2> HIDE DEF Frames
  <2> QED BY <1>2, <2>1, InLarger
<1>5. /\ stack' \in Seq(Frames) /\ Len(stack') = n + 1
      /\ \A i \in 1..n : /\ stack'[i].dir = stack[i].dir
                         /\ stack'[i].todo = stack[i].todo \ {e}
      /\ stack'[n + 1].dir = e /\ stack'[n + 1].todo = Entries[e]
  <2>1. stack' \in Seq(Frames) /\ Len(stack') = n + 1 /\ stack'[n + 1] = Frame(e)
    BY <1>2, <1>3, <1>4
  <2>2. \A i \in 1..n : stack'[i] = Rest(e)[i]
    BY <1>2, <1>4
  <2> QED BY <1>2, <1>3, <2>1, <2>2
<1>6. D \in SUBSET Dirs /\ F \in SUBSET Files /\ Root \in D
  BY DEF Walked
<1>7. Entries[e] \cap (E \cup F) = {}
  <2> SUFFICES ASSUME NEW x \in Entries[e], x \in E \cup F PROVE FALSE
    OBVIOUS
  <2>1. x # Root
    BY TreeAssumption
  <2>2. PICK d \in D : x \in Entries[d]
    <3>1. CASE x = e
      BY <1>2, <3>1
    <3>2. CASE x # e
      BY <2>1, <3>2 DEF Walked
    <3> QED BY <3>1, <3>2
  <2> QED BY <1>2, <1>6, <2>2, TreeAssumption
<1>8. \A i \in 1..(n + 1) : /\ stack'[i].todo \subseteq Entries[stack'[i].dir]
                            /\ stack'[i].todo \cap (E \cup F) = {}
  <2> TAKE i \in 1..(n + 1)
  <2>1. CASE i = n + 1
    BY <1>5, <1>7, <2>1
  <2>2. CASE i # n + 1
    <3>1. i \in 1..n
      BY <1>2, <2>2
    <3> QED BY <1>5, <3>1, SMTT(30) DEF Walked
  <2> QED BY <2>1, <2>2
<1>9. \A i, j \in 1..(n + 1) : stack'[i].dir = stack'[j].dir => i = j
  <2>1. \A i \in 1..n : stack'[i].dir \in D
    <3> DEFINE Old == [dir : D, todo : SUBSET (Files \cup Dirs)]
    <3>1. \A i \in 1..n : stack[i] \in Old
      <4>1. stack \in Seq(Old)
        BY DEF Walked
      <4> HIDE DEF Old
      <4> QED BY <4>1
    <3> QED BY <1>5, <3>1
  <2>2. \A i, j \in 1..n : stack'[i].dir = stack'[j].dir => i = j
    BY <1>5 DEF Walked
  <2>3. \A i \in 1..(n + 1) : i \in 1..n \/ i = n + 1
    BY <1>2
  <2> QED BY <1>2, <1>5, <2>1, <2>2, <2>3
<1>10. ASSUME Enough, NEW d \in E, NEW x \in Entries[d]
       PROVE  \/ x \in E \cup F
              \/ \E i \in 1..(n + 1) : stack'[i].dir = d /\ x \in stack'[i].todo
  <2>1. CASE d = e
    BY <1>2, <1>5, <2>1
  <2>2. CASE d # e /\ x # e
    <3>1. x \in D \cup F \/ \E i \in 1..n : stack[i].dir = d /\ x \in stack[i].todo
      BY <1>10, <2>2 DEF Walked
    <3>2. \A i \in 1..n : i \in 1..(n + 1)
      BY <1>2
    <3> QED BY <1>5, <2>2, <3>1, <3>2
  <2>3. CASE x = e
    BY <2>3
  <2> QED BY <2>1, <2>2, <2>3
<1>11. \A x \in E \cup F : x = Root \/ \E d \in E : x \in Entries[d]
  BY <1>2 DEF Walked
<1>12. E \in SUBSET Dirs /\ Root \in E
  BY <1>6
<1> QED BY <1>1, <1>5, <1>6, <1>8, <1>9, <1>10, <1>11, <1>12 DEF Walked

\* A directory has been read to its end.
LEMMA DirEnds ==
  ASSUME NEW D, NEW F, Walked(D, F), EndDir
  PROVE  Walked(D, F)' /\ (stack' = <<>> \/ pc' = "walk")
<1> DEFINE n == Len(stack)
           Frames == [dir : D, todo : SUBSET (Files \cup Dirs)]
<1>1. /\ stack \in Seq(Frames) /\ n \in Nat \ {0} /\ stack[n].todo = {}
      /\ stack' = SubSeq(stack, 1, n - 1) /\ Enough' = Enough
      /\ stack' = <<>> \/ pc' = "walk"
  BY DEF Walked, EndDir, Top, Enough, args
<1>2. /\ stack' \in Seq(Frames) /\ Len(stack') = n - 1
      /\ \A i \in 1..(n - 1) : stack'[i] = stack[i] /\ i \in 1..n
  <2> HIDE DEF Frames
  <2>1. /\ SubSeq(stack, 1, n - 1) \in Seq(Frames) /\ Len(SubSeq(stack, 1, n - 1)) = n - 1
        /\ \A i \in 1..(n - 1) : SubSeq(stack, 1, n - 1)[i] = stack[i]
    BY <1>1, AllButLast
  <2> QED BY <1>1, <2>1
<1>3. \A i \in 1..n : i \in 1..(n - 1) \/ stack[i].todo = {}
  BY <1>1
<1>4. \A i \in 1..Len(stack') : /\ stack'[i].todo \subseteq Entries[stack'[i].dir]
                                /\ stack'[i].todo \cap (D \cup F) = {}
  BY <1>2 DEF Walked
<1>5. \A i, j \in 1..Len(stack') : stack'[i].dir = stack'[j].dir => i = j
  BY <1>2, SMTT(30) DEF Walked
<1>6. ASSUME Enough, NEW d \in D, NEW x \in Entries[d]
      PROVE  \/ x \in D \cup F
             \/ \E i \in 1..Len(stack') : stack'[i].dir = d /\ x \in stack'[i].todo
  <2>1. CASE x \in D \cup F
    BY <2>1
  <2>2. CASE x \notin D \cup F
    <3>1. PICK i \in 1..n : stack[i].dir = d /\ x \in stack[i].todo
      BY <1>6, <2>2 DEF Walked
    <3>2. i \in 1..(n - 1)
      BY <1>3, <3>1
    <3>3. i \in 1..Len(stack') /\ stack'[i] = stack[i]
      BY <1>2, <3>2
    <3> QED BY <3>1, <3>3
  <2> QED BY <2>1, <2>2
<1>7. /\ D \in SUBSET Dirs /\ F \in SUBSET Files /\ Root \in D
      /\ \A x \in D \cup F : x = Root \/ \E d \in D : x \in Entries[d]
  BY DEF Walked
<1> QED BY <1>1, <1>2, <1>4, <1>5, <1>6, <1>7 DEF Walked
-----------------------------------------------------------------------------
\* Nothing has been seen at the start but the root.
LEMMA InitWalk == Init => WInv
<1> SUFFICES ASSUME Init PROVE WInv
  OBVIOUS
<1>1. IInv
  BY InitInv
<1>2. Walked({Root}, {})
  <2> DEFINE Frames == [dir : {Root}, todo : SUBSET (Files \cup Dirs)]
  <2>1. Frame(Root) \in Frames /\ Frame(Root).dir = Root /\ Frame(Root).todo = Entries[Root]
        /\ Entries[Root] \cap {Root} = {}
    BY TreeAssumption DEF Frame
  <2>2. stack = <<Frame(Root)>>
    BY DEF Init
  <2>3. stack \in Seq(Frames) /\ Len(stack) = 1 /\ stack[1] = Frame(Root)
    <3> HIDE DEF Frames
    <3> QED BY <2>1, <2>2
  <2>4. 1..Len(stack) = {1}
    BY <2>3
  <2> QED BY <2>1, <2>3, <2>4, TreeAssumption DEF Walked
<1>3. Counted({Root}, {})
  <2>1. Cardinality({Root}) = 1 /\ Cardinality({}) = 0
    BY FS_Singleton, FS_EmptySet
  <2>2. Piped({}) = {}
    BY DEF Piped
  <2> QED BY <2>1, <2>2, LimitsAssumption DEF Init, Counted
<1>4. Ran({})
  BY DEF Init, Ran, Calling, Current
<1> QED BY <1>1, <1>2, <1>3, <1>4 DEF WInv

\* readdir() returns a directory.
LEMMA ReadDirKeeps ==
  ASSUME WInv, NEW e \in Files \cup Dirs, ReadDir(e)
  PROVE  \E D, F : Walked(D, F)' /\ Counted(D, F)' /\ Ran(F)'
<1>1. PICK D, F : Walked(D, F) /\ Counted(D, F) /\ Ran(F)
  BY DEF WInv
<1>2. /\ e \in Dirs /\ Read(e) /\ pc = "walk" /\ D \in SUBSET Dirs /\ F \in SUBSET Files
      /\ UNCHANGED <<template, program, matching, limit, pc, file, res, written, child, pending,
                     printed, exec>>
      /\ matching \in SUBSET Files
  BY <1>1 DEF ReadDir, Read, Walked, Ran, args, call
<1>3. Ran(F)' /\ Piped(F)' = Piped(F) /\ (Enough' <=> Enough) /\ UNCHANGED args
  BY <1>1, <1>2 DEF Ran, Calling, Current, Piped, Enough, args
<1>4. e \notin D
  BY <1>1, <1>2, Reading
<1>5. /\ Cardinality(D) \in Nat /\ Cardinality(Dirs) \in Nat
      /\ Cardinality(D \cup {e}) = Cardinality(D) + 1
      /\ Cardinality(D) + 1 <= Cardinality(Dirs)
      /\ Cardinality(Piped(F)) \in Nat /\ Cardinality(matching) \in Nat
      /\ Cardinality(Piped(F)) <= Cardinality(matching)
  BY <1>2, <1>4, Sizes, Bounds, TreeAssumption
<1>6. CASE open < limit
  <2>1. stack' = Append(Rest(e), Frame(e)) /\ open' = open + 1
    BY <1>6 DEF ReadDir
  <2>2. Walked(D \cup {e}, F)'
    BY <1>1, <1>2, <1>3, <2>1, DirOpened
  <2>3. Counted(D \cup {e}, F)'
    BY <1>1, <1>2, <1>3, <1>5, <2>1 DEF Counted
  <2> QED BY <1>3, <2>2, <2>3
<1>7. CASE ~(open < limit)
  <2>1. stack' = Rest(e) /\ open' = open
    BY <1>7 DEF ReadDir
  <2>2. ~Enough
    BY <1>1, <1>2, <1>5, <1>7 DEF Enough, Counted
  <2>3. Walked(D, F)'
    BY <1>1, <1>2, <1>3, <2>1, <2>2, DirMissed
  <2>4. Counted(D, F)'
    BY <1>1, <1>2, <1>3, <2>1 DEF Counted
  <2> QED BY <1>3, <2>3, <2>4
<1> QED BY <1>6, <1>7

\* readdir() returns a file.
LEMMA ReadFileKeeps ==
  ASSUME WInv, NEW e \in Files \cup Dirs, ReadFile(e)
  PROVE  \E D, F : Walked(D, F)' /\ Counted(D, F)' /\ Ran(F)'
<1>1. PICK D, F : Walked(D, F) /\ Counted(D, F) /\ Ran(F)
  BY DEF WInv
<1> DEFINE G == F \cup {e}
<1>2. /\ e \in Files /\ Read(e) /\ pc = "walk" /\ stack' = Rest(e)
      /\ F \in SUBSET Files /\ G \in SUBSET Files
      /\ UNCHANGED <<template, program, matching, limit, open, written, child, pending, exec>>
      /\ UNCHANGED args
  BY <1>1 DEF ReadFile, Read, Walked, args
<1>3. Walked(D, G)' /\ e \notin F
  BY <1>1, <1>2, FileRead, Reading
<1>4. /\ matching \in SUBSET Files /\ child = "none" /\ program \in BOOLEAN
      /\ (program => exec[e] = "none")
  BY <1>1, <1>2, <1>3 DEF Ran, Calling, Current, WInv, IInv, TypeOK
<1>5. Enough' = Enough
  BY <1>2 DEF Enough
<1>6. CASE program /\ e \in matching
  <2>1. pc' = "pipe" /\ file' = {e} /\ res' = TRUE /\ printed' = printed
    BY <1>6 DEF ReadFile
  <2>2. Piped(G)' = Piped(F)
    BY <1>2, <1>3, <1>6, <2>1 DEF Piped
  <2>3. Counted(D, G)'
    BY <1>1, <1>2, <1>5, <2>1, <2>2 DEF Counted
  <2>4. Ran(G)'
    BY <1>1, <1>2, <1>3, <1>4, <1>6, <2>1 DEF Ran, Calling, Current
  <2> QED BY <1>3, <2>3, <2>4
<1>7. CASE ~(program /\ e \in matching)
  <2>1. /\ UNCHANGED <<pc, file, res>>
        /\ printed' = IF e \in matching THEN printed \cup {e} ELSE printed
    BY <1>7 DEF ReadFile
  <2>2. Piped(G)' = Piped(F)
    BY <1>2, <1>3, <1>4, <1>7, <2>1 DEF Piped
  <2>3. Counted(D, G)'
    BY <1>1, <1>2, <1>5, <2>1, <2>2 DEF Counted
  <2>4. Ran(G)'
    BY <1>1, <1>2, <1>3, <1>4, <1>7, <2>1 DEF Ran, Calling, Current
  <2> QED BY <1>3, <2>3, <2>4
<1> QED BY <1>6, <1>7

\* The end of a directory, and the steps that leave the walk as it is.
LEMMA CallKeeps ==
  ASSUME WInv, EndDir \/ Pipe \/ Fork \/ Write \/ Return \/ Deliver \/ Child \/ UNCHANGED vars
  PROVE  \E D, F : Walked(D, F)' /\ Counted(D, F)' /\ Ran(F)'
<1>1. PICK D, F : Walked(D, F) /\ Counted(D, F) /\ Ran(F)
  BY DEF WInv
<1>2. /\ D \in SUBSET Dirs /\ F \in SUBSET Files /\ matching \in SUBSET Files
      /\ IInv
  BY <1>1 DEF Walked, Ran, WInv
<1> SUFFICES Walked(D, F)' /\ Counted(D, F)' /\ Ran(F)'
  OBVIOUS
<1>3. CASE EndDir
  <2>1. Walked(D, F)' /\ (stack' = <<>> \/ pc' = "walk")
    BY <1>1, <1>3, DirEnds
  <2>2. /\ pc = "walk" /\ UNCHANGED <<args, call, printed, exec>>
        /\ (pc' = "done" /\ open' = open - 1 /\ stack' = <<>>) \/ UNCHANGED <<pc, open>>
    BY <1>3 DEF EndDir
  <2>3. Ran(F)'
    BY <1>1, <2>2 DEF Ran, Calling, Current, args, call
  <2>4. Piped(F)' = Piped(F) /\ Enough' = Enough
    BY <2>2 DEF Piped, Enough, args
  <2>5. Counted(D, F)'
    BY <1>1, <2>2, <2>4 DEF Counted, args
  <2> QED BY <2>1, <2>3, <2>5
<1>4. CASE Pipe
  <2>1. /\ UNCHANGED <<args, stack, file, res, child, pending, printed, exec>> /\ pc = "pipe"
        /\ Enough' = Enough
    BY <1>4 DEF Pipe, Enough, args
  <2>2. Walked(D, F)'
    BY <1>1, <2>1, SameWalk
  <2>3. pc' \in {"fork", "undefined"}
    BY <1>4 DEF Pipe
  <2>4. Ran(F)'
    BY <1>1, <2>1, <2>3 DEF Ran, Calling, Current, args
  <2>5. PICK f \in F \cap matching : file = {f}
    BY <1>1, <2>1 DEF Ran, Calling
  <2>6. program /\ Piped(F) = (F \cap matching) \ {f}
    BY <1>1, <2>1, <2>5 DEF Ran, Calling, Piped
  <2>7. /\ Cardinality(F \cap matching) = Cardinality(Piped(F)) + 1
        /\ Cardinality(Piped(F)) + 1 <= Cardinality(matching)
        /\ Cardinality(Piped(F)) \in Nat /\ Cardinality(matching) \in Nat
    <3>1. IsFiniteSet(matching)
      BY <1>2, TreeAssumption, FS_Subset
    <3>2. f \in matching \ Piped(F) /\ Piped(F) \in SUBSET matching
          /\ Piped(F) \cup {f} = F \cap matching
      BY <2>5, <2>6
    <3> QED BY <3>1, <3>2, Sizes
  <2>8. Cardinality(D) \in Nat /\ Cardinality(Dirs) \in Nat /\ Cardinality(D) <= Cardinality(Dirs)
    BY <1>2, TreeAssumption, Sizes
  <2>9. CASE open + 2 <= limit
    <3>1. pc' = "fork" /\ open' = open + 2
      BY <1>4, <2>9 DEF Pipe
    <3>2. Piped(F)' = F \cap matching
      BY <2>1, <2>6, <3>1 DEF Piped, args
    <3>3. Counted(D, F)'
      BY <1>1, <2>1, <2>7, <2>8, <3>1, <3>2 DEF Counted, args
    <3> QED BY <2>2, <2>4, <3>3
  <2>10. CASE ~(open + 2 <= limit)
    <3>1. pc' = "undefined" /\ open' = open
      BY <1>4, <2>10 DEF Pipe
    <3>2. Piped(F)' = Piped(F)
      BY <2>1, <3>1 DEF Piped, args
    <3>3. ~Enough
      BY <1>1, <2>1, <2>7, <2>8, <2>10 DEF Enough, Counted
    <3>4. Counted(D, F)'
      BY <1>1, <2>1, <3>1, <3>2, <3>3 DEF Counted, args
    <3> QED BY <2>2, <2>4, <3>4
  <2> QED BY <2>9, <2>10
<1>5. ASSUME UNCHANGED <<args, stack, open, file>>,
             \/ pc' = pc
             \/ /\ pc \notin {"pipe", "undefined", "done"}
                /\ pc' \in {"walk", "write", "failed", "wait"},
             Ran(F)'
      PROVE  Walked(D, F)' /\ Counted(D, F)' /\ Ran(F)'
  <2>1. Walked(D, F)' /\ Enough' = Enough
    BY <1>1, <1>5, SameWalk DEF Enough, args
  <2>2. Piped(F)' = Piped(F)
    <3>1. CASE pc' = pc
      BY <1>5, <3>1 DEF Piped, args
    <3>2. CASE pc' # pc
      BY <1>5, <3>2 DEF Piped, args
    <3> QED BY <3>1, <3>2
  <2>3. Counted(D, F)'
    BY <1>1, <1>5, <2>1, <2>2 DEF Counted, args
  <2> QED BY <1>5, <2>1, <2>3
<1>6. CASE Fork
  <2>1. /\ UNCHANGED <<args, stack, open, file, res, written, pending, printed, exec>>
        /\ pc = "fork"
        /\ (pc' = "write" /\ child' = "read") \/ (pc' = "failed" /\ child' = child)
    BY <1>6 DEF Fork
  <2>2. PICK f \in F \cap matching : file = {f}
    BY <1>1, <2>1 DEF Ran, Calling
  <2>3. child = "none" /\ Calling /\ Calling' /\ Current = {f} /\ Current' = {f}
    <3>1. child = "none"
      BY <1>1, <2>1 DEF Ran
    <3>2. Calling /\ Calling'
      BY <2>1 DEF Calling
    <3> QED BY <2>1, <2>2, <3>1, <3>2 DEF Current
  <2>4. pc' \in {"write", "wait"} <=> child' # "none"
    BY <2>1, <2>3
  <2>5. Ran(F)'
    BY <1>1, <2>1, <2>2, <2>3, <2>4 DEF Ran, args
  <2> QED BY <1>5, <2>1, <2>5
<1>7. CASE Write
  <2>1. /\ UNCHANGED <<args, stack, open, file, res, child, pending, printed, exec>>
        /\ pc = "write" /\ pc' = "wait"
    BY <1>7 DEF Write
  <2>2. Ran(F)'
    BY <1>1, <2>1 DEF Ran, Calling, Current, args
  <2> QED BY <1>5, <2>1, <2>2
<1>8. CASE Return
  <2>1. /\ UNCHANGED <<args, stack, open, file, res, written, pending, exec>>
        /\ pc = "wait" /\ pc' = "walk" /\ child = "zombie" /\ child' = "none" /\ ~pending
        /\ printed' = IF res THEN printed \cup file ELSE printed
    BY <1>8 DEF Return
  <2>2. PICK f \in F \cap matching : file = {f}
    BY <1>1, <2>1 DEF Ran, Calling
  <2>3. /\ program /\ Current = {f} /\ Current' = {} /\ ~Calling'
        /\ exec[f] = IF res THEN "started" ELSE "refused"
    <3>1. Calling /\ Current = {f} /\ Current' = {} /\ ~Calling'
      BY <2>1, <2>2 DEF Current, Calling
    <3>2. program
      BY <1>1, <3>1 DEF Ran
    <3>3. /\ exec[f] # "refused" => exec[f] = "started"
          /\ exec[f] = "refused" <=> ~res
      BY <1>1, <2>1, <3>1 DEF Ran
    <3> QED BY <3>1, <3>2, <3>3
  <2>4. Ran(F)'
    <3>1. printed' = {g \in Files : exec[g] = "started"}
      BY <1>1, <1>2, <2>1, <2>2, <2>3 DEF Ran
    <3>2. \A g \in Files : g \in F \cap matching <=> exec[g] # "none"
      BY <1>1, <1>2, <2>2, <2>3 DEF Ran
    <3> QED BY <1>1, <2>1, <2>3, <3>1, <3>2 DEF Ran, Calling, Current, args
  <2> QED BY <1>5, <2>1, <2>4
<1>9. CASE Deliver
  <2>1. /\ UNCHANGED <<args, stack, open, pc, file, written, child, printed, exec>>
        /\ pending /\ ~pending' /\ ~res' /\ child \in {"exit", "zombie"}
        /\ \A f \in file : exec[f] = "refused"
    BY <1>2, <1>9 DEF Deliver, IInv, SignalInCall
  <2>2. Ran(F)'
    BY <1>1, <2>1 DEF Ran, Calling, Current, args
  <2> QED BY <1>5, <2>1, <2>2
<1>10. CASE ReadPid
  <2>1. /\ UNCHANGED <<args, stack, open, pc, file, res, written, pending, printed, exec>>
        /\ child = "read" /\ child' = "exec"
    BY <1>10 DEF ReadPid, ChildStep
  <2>2. Ran(F)'
    BY <1>1, <2>1 DEF Ran, Calling, Current, args
  <2> QED BY <1>5, <2>1, <2>2
<1>11. CASE Exec
  <2>1. /\ UNCHANGED <<args, stack, open, pc, file, res, written, pending, printed>>
        /\ child = "exec" /\ pc \in {"write", "wait"}
        /\ \/ /\ child' = "program"
              /\ exec' = [f \in Files |-> IF f \in file THEN "started" ELSE exec[f]]
           \/ /\ child' = "kill"
              /\ exec' = [f \in Files |-> IF f \in file THEN "refused" ELSE exec[f]]
    BY <1>1, <1>11 DEF Exec, ChildStep, Ran
  <2>2. PICK f \in F \cap matching : file = {f}
    BY <1>1, <2>1 DEF Ran, Calling
  <2>3. /\ Current = {f} /\ Current' = {f}
        /\ \A g \in Files \ {f} : exec'[g] = exec[g]
        /\ exec'[f] = IF child' = "program" THEN "started" ELSE "refused"
    BY <1>2, <2>1, <2>2 DEF Current, Calling
  <2>4. Ran(F)'
    BY <1>1, <2>1, <2>2, <2>3 DEF Ran, Calling, args
  <2> QED BY <1>5, <2>1, <2>4
<1>12. CASE Kill
  <2>1. /\ UNCHANGED <<args, stack, open, pc, file, res, written, printed, exec>>
        /\ child = "kill" /\ child' = "exit" /\ pending'
    BY <1>12 DEF Kill, ChildStep
  <2>2. Ran(F)'
    BY <1>1, <2>1 DEF Ran, Calling, Current, args
  <2> QED BY <1>5, <2>1, <2>2
<1>13. CASE Exit
  <2>1. /\ UNCHANGED <<args, stack, open, pc, file, res, written, pending, printed, exec>>
        /\ child \in {"exit", "program"} /\ child' = "zombie"
        /\ child = "program" => ~pending
    BY <1>2, <1>13 DEF Exit, ChildStep, IInv, SignalInCall
  <2>2. Ran(F)'
    BY <1>1, <2>1 DEF Ran, Calling, Current, args
  <2> QED BY <1>5, <2>1, <2>2
<1>14. CASE UNCHANGED vars
  <2>1. UNCHANGED <<args, stack, open, pc, file, res, written, child, pending, printed, exec>>
    BY <1>14 DEF vars, call
  <2>2. Ran(F)'
    BY <1>1, <2>1 DEF Ran, Calling, Current, args
  <2> QED BY <1>5, <2>1, <2>2
<1> QED
  BY <1>3, <1>4, <1>6, <1>7, <1>8, <1>9, <1>10, <1>11, <1>12, <1>13, <1>14 DEF Child

\* The walk keeps its books: the invariant holds in every state of every execution.
LEMMA WalkInvariance == Spec => []WInv
<1>1. WInv /\ [Next]_vars => WInv'
  <2> SUFFICES ASSUME WInv, [Next]_vars PROVE WInv'
    OBVIOUS
  <2>1. IInv'
    BY StepInv DEF WInv
  <2>2. \E D, F : Walked(D, F)' /\ Counted(D, F)' /\ Ran(F)'
    BY ReadDirKeeps, ReadFileKeeps, CallKeeps DEF Next, Parent
  <2> QED BY <2>1, <2>2 DEF WInv
<1> QED BY <1>1, InitWalk, PTL DEF Spec

(***************************************************************************)
(* PrintedIsRight: what is printed matches, and its program, if there is   *)
(* one, could be started; with enough descriptors the walk misses nothing. *)
(***************************************************************************)
THEOREM Printing == Spec => []PrintedIsRight
<1>1. WInv => PrintedIsRight
  <2> SUFFICES ASSUME WInv PROVE PrintedIsRight
    OBVIOUS
  <2>1. PICK D, F : Walked(D, F) /\ Counted(D, F) /\ Ran(F)
    BY DEF WInv
  <2>2. printed \subseteq matching
    BY <2>1 DEF Ran
  <2>3. pc = "walk" /\ program => printed = {f \in Files : exec[f] = "started"}
    BY <2>1 DEF Ran, Current, Calling
  <2>4. ASSUME pc = "done", Enough
        PROVE  matching = IF program THEN {f \in Files : exec[f] # "none"} ELSE printed
    <3>1. /\ Len(stack) = 0 /\ D \in SUBSET Dirs /\ F \in SUBSET Files /\ Root \in D
          /\ \A d \in D : \A x \in Entries[d] : x \in D \cup F
      BY <2>1, <2>4 DEF Counted, Walked
    <3>2. D \cup F = Files \cup Dirs
      <4>1. \A d \in (D \cup F) \cap Dirs : Entries[d] \subseteq D \cup F
        BY <3>1, TreeAssumption
      <4> QED BY <3>1, <4>1, TreeAssumption
    <3>3. F = Files
      <4>1. Files \cap Dirs = {}
        BY TreeAssumption
      <4> QED BY <3>1, <3>2, <4>1
    <3> QED BY <2>1, <2>4, <3>3 DEF Ran, Current, Calling
  <2> QED BY <2>2, <2>3, <2>4 DEF PrintedIsRight
<1> QED BY <1>1, WalkInvariance, PTL

\* DescriptorsSuffice: a pipe fails only if there are too few descriptors for all of the walk.
THEOREM Descriptors == Spec => []DescriptorsSuffice
<1>1. WInv => DescriptorsSuffice
  BY DEF WInv, Counted, DescriptorsSuffice
<1> QED BY <1>1, WalkInvariance, PTL
-----------------------------------------------------------------------------
(***************************************************************************)
(* The templates of find.                                                  *)
(***************************************************************************)
\* A set of natural numbers has a least element.
LEMMA Least == ASSUME NEW T \in SUBSET Nat, T # {}
               PROVE  \E x \in T : \A y \in T : x <= y
<1>1. IsWellFoundedOn(OpToRel(<, Nat), Nat)
  BY NatLessThanWellFounded
<1>2. PICK x \in T : \A y \in T : ~ (<<y, x>> \in OpToRel(<, Nat))
  BY <1>1, WFMin, Zenon
<1>3. \A y \in T : ~ (y < x)
  BY <1>2, Zenon DEF OpToRel
<1> QED BY <1>3

\* Induction over the natural numbers.
LEMMA InductionOverNat ==
  ASSUME NEW S, 0 \in S, \A n \in Nat : n \in S => n + 1 \in S
  PROVE  Nat \subseteq S
<1> SUFFICES ASSUME Nat \ S # {} PROVE FALSE
  OBVIOUS
<1>1. PICK x \in Nat \ S : \A y \in Nat \ S : x <= y
  BY Least
<1>2. x - 1 \in Nat /\ x - 1 \in S
  BY <1>1
<1> QED BY <1>1, <1>2
-----------------------------------------------------------------------------
(***************************************************************************)
(* The items of a template, over an alphabet C.  The body of a bracket has *)
(* a character on both sides of each dash; it stands for the characters    *)
(* that are in it and for those between the neighbours of a dash.          *)
(***************************************************************************)
IsBody(body) ==
  /\ body \in Seq(Nat \ {NUL, Close})
  /\ \A k \in 1..Len(body) : body[k] = Dash => /\ 1 < k /\ k < Len(body)
                                               /\ body[k - 1] # Dash /\ body[k + 1] # Dash

Stands(body, k, ch) == \/ body[k] = Dash /\ ch \in body[k - 1]..body[k + 1]
                       \/ body[k] # Dash /\ (k = 1 \/ body[k - 1] # Dash) /\ ch = body[k]

BodySet(body) == {ch \in Nat : \E k \in 1..Len(body) : Stands(body, k, ch)}

\* The equation that defines the recursive function of InBracket.
Round(f, t, ch, j) == CASE At(t, j) = Close -> FALSE
                        [] At(t, j) = Dash  -> ch \in At(t, j - 1)..At(t, j + 1) \/ f[j + 2]
                        [] OTHER            -> ch = At(t, j) \/ f[j + 1]

Rounds(f, t, ch) == f = [j \in Nat |-> Round(f, t, ch, j)]

\* What comes after the end of a string is NUL.
LEMMA PastTheEnd == ASSUME NEW t, NEW j \in Nat, Len(t) \in Nat, Len(t) <= j
                    PROVE  At(t, j) = NUL
BY DEF At

\* It has a solution: from the end of the template backwards.
LEMMA RoundsExist == ASSUME NEW t, Len(t) \in Nat, NEW ch PROVE \E f : Rounds(f, t, ch)
<1> DEFINE D(m) == {j \in Nat : j + m >= Len(t)}
           S == {m \in Nat : \E f : f = [j \in D(m) |-> Round(f, t, ch, j)]}
<1>1. 0 \in S
  <2> DEFINE f == [j \in D(0) |-> ch = NUL]
  <2>1. ASSUME NEW j \in D(0) PROVE Round(f, t, ch, j) = (ch = NUL)
    <3>1. j \in Nat /\ j + 1 \in D(0) /\ Len(t) <= j
      OBVIOUS
    <3>2. At(t, j) = NUL
      BY <3>1, PastTheEnd
    <3>3. f[j + 1] = (ch = NUL)
      BY <3>1
    <3>4. Round(f, t, ch, j) = (ch = At(t, j) \/ f[j + 1])
      <4>1. At(t, j) # Close /\ At(t, j) # Dash
        BY <3>2 DEF NUL, Close, Dash
      <4> HIDE DEF f, D
      <4> QED BY <4>1, Zenon DEF Round
    <3>5. (ch = NUL \/ f[j + 1]) = (ch = NUL)
      <4> HIDE DEF f, D
      <4> QED BY <3>3, Zenon
    <3> HIDE DEF f, D
    <3> QED BY <3>2, <3>4, <3>5, Zenon
  <2>2. f = [j \in D(0) |-> Round(f, t, ch, j)]
    <3> HIDE DEF D
    <3> QED BY <2>1
  <2> HIDE DEF f, D
  <2> QED BY <2>2
<1>2. ASSUME NEW m \in Nat, m \in S PROVE m + 1 \in S
  <2>1. PICK g : g = [j \in D(m) |-> Round(g, t, ch, j)]
    BY <1>2
  <2> DEFINE f == [j \in D(m + 1) |-> IF j \in D(m) THEN g[j] ELSE Round(g, t, ch, j)]
  <2>2. \A j \in D(m) : f[j] = g[j] /\ j \in D(m + 1)
    OBVIOUS
  <2>3. \A j \in D(m + 1) : j \in Nat /\ j + 1 \in D(m) /\ j + 2 \in D(m)
    OBVIOUS
  <2>4. ASSUME NEW j \in D(m + 1) PROVE f[j] = Round(f, t, ch, j)
    <3>1. f[j] = Round(g, t, ch, j)
      <4>1. CASE j \in D(m)
        <5>1. f[j] = g[j]
          BY <2>2, <4>1
        <5> HIDE DEF f, D
        <5> QED BY <2>1, <4>1, <5>1
      <4>2. CASE j \notin D(m)
        <5> HIDE DEF D
        <5> QED BY <4>2
      <4> QED BY <4>1, <4>2
    <3>2. f[j + 1] = g[j + 1] /\ f[j + 2] = g[j + 2]
      <4> HIDE DEF f, D
      <4> QED BY <2>2, <2>3
    <3> HIDE DEF f, D
    <3> QED BY <3>1, <3>2, Zenon DEF Round
  <2>5. f = [j \in D(m + 1) |-> Round(f, t, ch, j)]
    <3>1. f = [j \in D(m + 1) |-> f[j]]
      <4> HIDE DEF D
      <4> QED OBVIOUS
    <3> HIDE DEF f, D
    <3> QED BY <2>4, <3>1
  <2>6. m + 1 \in Nat
    OBVIOUS
  <2> HIDE DEF f, D
  <2> QED BY <2>5, <2>6
<1>3. Nat \subseteq S
  <2> HIDE DEF S
  <2> QED BY <1>1, <1>2, InductionOverNat
<1>4. Len(t) \in S
  <2> HIDE DEF S
  <2> QED BY <1>3
<1>5. PICK f : f = [j \in D(Len(t)) |-> Round(f, t, ch, j)]
  BY <1>4
<1>6. D(Len(t)) = Nat
  OBVIOUS
<1> QED BY <1>5, <1>6 DEF Rounds

\* The three cases of the loop over a bracket.
LEMMA RoundIs ==
  ASSUME NEW f, NEW t, NEW ch, NEW j
  PROVE  /\ At(t, j) = Close => (Round(f, t, ch, j) <=> FALSE)
         /\ At(t, j) = Dash =>
              (Round(f, t, ch, j) <=> ch \in At(t, j - 1)..At(t, j + 1) \/ f[j + 2])
         /\ At(t, j) # Close /\ At(t, j) # Dash =>
              (Round(f, t, ch, j) <=> ch = At(t, j) \/ f[j + 1])
<1>1. Close # Dash
  BY DEF Close, Dash
<1> QED BY <1>1 DEF Round

\* The loop over a bracket finds the characters that it stands for.
LEMMA BracketReads ==
  ASSUME NEW body, IsBody(body), NEW t, Len(t) \in Nat, NEW i \in Nat, NEW ch \in Nat,
         \A k \in 1..Len(body) : At(t, i + k) = body[k],
         At(t, i + Len(body) + 1) = Close
  PROVE  InBracket(t, i + 1, ch) <=> ch \in BodySet(body)
<1> DEFINE n == Len(body)
           Later(k) == \E m \in k..n : Stands(body, m, ch)
           Begins(k) == k = 1 \/ body[k - 1] # Dash
<1>1. n \in Nat /\ \A k \in 1..n : body[k] \in Nat /\ body[k] # Close
  BY DEF IsBody
<1>2. PICK f : Rounds(f, t, ch) /\ InBracket(t, i + 1, ch) = f[i + 1]
  <2>1. InBracket(t, i + 1, ch) = (CHOOSE f : Rounds(f, t, ch))[i + 1]
    BY Zenon DEF InBracket, Rounds, Round
  <2>2. Rounds(CHOOSE f : Rounds(f, t, ch), t, ch)
    BY RoundsExist, Zenon
  <2> QED BY <2>1, <2>2
<1>3. \A j \in Nat : f[j] = Round(f, t, ch, j)
  BY <1>2 DEF Rounds
<1>4. ~ f[i + (n + 1)]
  <2>1. i + (n + 1) \in Nat /\ i + (n + 1) = i + n + 1
    BY <1>1
  <2>2. At(t, i + (n + 1)) = Close
    BY <2>1
  <2>3. f[i + (n + 1)] = Round(f, t, ch, i + (n + 1))
    BY <1>3, <2>1
  <2>4. ~ Round(f, t, ch, i + (n + 1))
    <3> HIDE DEF n
    <3> QED BY <2>2, RoundIs
  <2> HIDE DEF n
  <2> QED BY <2>3, <2>4, Zenon
<1>5. ASSUME NEW k \in 1..n, body[k] # Dash, Begins(k), f[i + (k + 1)] <=> Later(k + 1)
      PROVE  f[i + k] <=> Later(k)
  <2>1. At(t, i + k) = body[k] /\ body[k] # Close /\ i + k \in Nat /\ (i + k) + 1 = i + (k + 1)
    BY <1>1
  <2>2. f[i + k] <=> ch = body[k] \/ f[i + (k + 1)]
    BY <1>3, <1>5, <2>1 DEF Round
  <2>3. Stands(body, k, ch) <=> ch = body[k]
    BY <1>5 DEF Stands
  <2>4. Later(k) <=> Stands(body, k, ch) \/ Later(k + 1)
    <3>1. k..n = {k} \cup ((k + 1)..n)
      BY <1>1
    <3> HIDE DEF n
    <3> QED BY <3>1
  <2> HIDE DEF Later, n
  <2> QED BY <1>5, <2>2, <2>3, <2>4
<1>6. ASSUME NEW k \in 1..n, body[k] = Dash, f[i + (k + 2)] <=> Later(k + 2)
      PROVE  f[i + k] <=> Later(k)
  <2>1. /\ At(t, i + k) = Dash /\ i + k \in Nat /\ (i + k) + 2 = i + (k + 2)
        /\ (i + k) + 1 = i + (k + 1) /\ (i + k) - 1 = i + (k - 1)
    BY <1>1, <1>6
  <2>2. k - 1 \in 1..n /\ k + 1 \in 1..n /\ body[k + 1] # Dash
    <3>1. 1 < k /\ k < n /\ body[k + 1] # Dash
      BY <1>6 DEF IsBody
    <3> HIDE DEF n
    <3> QED BY <1>1, <3>1
  <2>3. At(t, i + (k - 1)) = body[k - 1] /\ At(t, i + (k + 1)) = body[k + 1]
    BY <2>2
  <2>4. f[i + k] <=> ch \in body[k - 1]..body[k + 1] \/ f[i + (k + 2)]
    <3>1. f[i + k] = Round(f, t, ch, i + k)
      BY <1>3, <2>1
    <3>2. At(t, (i + k) - 1) = body[k - 1] /\ At(t, (i + k) + 1) = body[k + 1]
      BY <2>1, <2>3
    <3>3. Round(f, t, ch, i + k) <=> ch \in body[k - 1]..body[k + 1] \/ f[(i + k) + 2]
      BY <2>1, <3>2, RoundIs, SMTT(30)
    <3> QED BY <2>1, <3>1, <3>3
  <2>5. Stands(body, k, ch) <=> ch \in body[k - 1]..body[k + 1]
    BY <1>6 DEF Stands
  <2>6. ~ Stands(body, k + 1, ch)
    <3>1. k + 1 # 1 /\ body[(k + 1) - 1] = Dash
      BY <1>6
    <3> QED BY <2>2, <3>1 DEF Stands
  <2>7. Later(k) <=> Stands(body, k, ch) \/ Stands(body, k + 1, ch) \/ Later(k + 2)
    <3>1. k..n = {k, k + 1} \cup ((k + 2)..n)
      BY <1>1, <2>2
    <3> HIDE DEF n
    <3> QED BY <3>1
  <2> HIDE DEF Later, n
  <2> QED BY <1>6, <2>4, <2>5, <2>6, <2>7
<1> DEFINE S == {m \in Nat : \A k \in 1..(n + 1) :
                   k + m >= n + 1 /\ Begins(k) => (f[i + k] <=> Later(k))}
<1>7. 0 \in S
  <2> SUFFICES ASSUME NEW k \in 1..(n + 1), k + 0 >= n + 1 PROVE f[i + k] <=> Later(k)
    OBVIOUS
  <2>1. k = n + 1
    BY <1>1
  <2>2. ~ Later(n + 1)
    BY <1>1
  <2> HIDE DEF Later, n
  <2> QED BY <1>4, <2>1, <2>2
<1>8. ASSUME NEW m \in Nat, m \in S PROVE m + 1 \in S
  <2> SUFFICES ASSUME NEW k \in 1..(n + 1), k + (m + 1) >= n + 1, Begins(k)
               PROVE  f[i + k] <=> Later(k)
    OBVIOUS
  <2>1. \A l \in 1..(n + 1) : l + m >= n + 1 /\ Begins(l) => (f[i + l] <=> Later(l))
    BY <1>8
  <2>2. CASE k = n + 1
    BY <1>1, <2>1, <2>2
  <2>3. CASE k # n + 1 /\ body[k] # Dash
    <3>1. k \in 1..n /\ k + 1 \in 1..(n + 1) /\ (k + 1) + m >= n + 1 /\ (k + 1) - 1 = k
      BY <1>1, <2>3
    <3>2. Begins(k + 1)
      BY <2>3, <3>1
    <3>3. f[i + (k + 1)] <=> Later(k + 1)
      <4> HIDE DEF Later, Begins, n
      <4> QED BY <2>1, <3>1, <3>2
    <3> HIDE DEF Later, Begins, n
    <3> QED BY <1>5, <2>3, <3>1, <3>3
  <2>4. CASE k # n + 1 /\ body[k] = Dash
    <3>1. k \in 1..n
      BY <1>1, <2>4
    <3>2. k < n /\ body[k + 1] # Dash
      BY <1>1, <2>4, <3>1 DEF IsBody
    <3>3. k + 2 \in 1..(n + 1) /\ (k + 2) + m >= n + 1 /\ (k + 2) - 1 = k + 1
      BY <1>1, <3>1, <3>2
    <3>4. Begins(k + 2)
      BY <3>2, <3>3
    <3>5. f[i + (k + 2)] <=> Later(k + 2)
      <4> HIDE DEF Later, Begins, n
      <4> QED BY <2>1, <3>3, <3>4
    <3> HIDE DEF Later, Begins, n
    <3> QED BY <1>6, <2>4, <3>1, <3>5
  <2> QED BY <2>2, <2>3, <2>4
<1>9. n \in S
  <2>1. Nat \subseteq S
    <3> HIDE DEF S
    <3> QED BY <1>7, <1>8, InductionOverNat
  <2> HIDE DEF S
  <2> QED BY <1>1, <2>1
<1>10. f[i + 1] <=> Later(1)
  <2>1. 1 \in 1..(n + 1) /\ 1 + n >= n + 1 /\ Begins(1)
    BY <1>1
  <2> HIDE DEF Later, Begins, n
  <2> QED BY <1>9, <2>1
<1>11. ch \in BodySet(body) <=> Later(1)
  BY DEF BodySet
<1> HIDE DEF Later
<1> QED BY <1>2, <1>10, <1>11

\* The place after a bracket is the one after its first closing bracket.
LEMMA BracketEnds ==
  ASSUME NEW body, IsBody(body), NEW t, Len(t) \in Nat, NEW i \in Nat,
         At(t, i) = Open,
         \A k \in 1..Len(body) : At(t, i + k) = body[k],
         At(t, i + Len(body) + 1) = Close
  PROVE  AfterBracket(t, i) = i + Len(body) + 2
<1> DEFINE n == Len(body)
           Ends(j) == At(t, j - 1) = Close /\ \A k \in i..(j - 2) : At(t, k) # Close
           e == i + n + 2
<1>1. n \in Nat /\ \A k \in 1..n : body[k] # Close
  BY DEF IsBody
<1>2. i + n + 1 < Len(t)
  <2> SUFFICES ASSUME Len(t) <= i + n + 1 PROVE FALSE
    BY <1>1
  <2>1. At(t, i + n + 1) = NUL
    BY <1>1, PastTheEnd
  <2> QED BY <2>1 DEF NUL, Close
<1>3. \A k \in i..(i + n) : At(t, k) # Close
  <2>1. ASSUME NEW k \in i..(i + n) PROVE At(t, k) # Close
    <3>1. CASE k = i
      BY <3>1 DEF Open, Close
    <3>2. CASE k # i
      <4>1. k - i \in 1..n /\ i + (k - i) = k
        BY <1>1, <3>2
      <4> QED BY <1>1, <4>1
    <3> QED BY <3>1, <3>2
  <2> QED BY <2>1
<1>4. e \in (i + 1)..Len(t) /\ e - 1 = i + n + 1 /\ e - 2 = i + n
  BY <1>1, <1>2
<1>5. Ends(e)
  <2>1. At(t, e - 1) = Close
    <3> HIDE DEF e
    <3> QED BY <1>4
  <2>2. \A k \in i..(e - 2) : At(t, k) # Close
    <3> HIDE DEF e, n
    <3> QED BY <1>3, <1>4
  <2> HIDE DEF e
  <2> QED BY <2>1, <2>2
<1>6. ASSUME NEW j \in (i + 1)..Len(t), Ends(j) PROVE j = e
  <2>1. ~ (j < e)
    <3>1. j < e => j - 1 \in i..(i + n)
      BY <1>1
    <3> QED BY <1>3, <1>6, <3>1
  <2>2. ~ (e < j)
    <3>1. e < j => e - 1 \in i..(j - 2)
      BY <1>1
    <3>2. At(t, e - 1) = Close
      BY <1>5
    <3> HIDE DEF e
    <3> QED BY <1>6, <3>1, <3>2
  <2>3. e \in Int
    BY <1>1
  <2> HIDE DEF e
  <2> QED BY <2>1, <2>2, <2>3
<1>7. AfterBracket(t, i) = CHOOSE j \in (i + 1)..Len(t) : Ends(j)
  BY Zenon DEF AfterBracket
<1> HIDE DEF Ends, e
<1>8. AfterBracket(t, i) = e
  BY <1>4, <1>5, <1>6, <1>7, Zenon
<1> QED BY <1>8 DEF e
-----------------------------------------------------------------------------
\* The equation that defines the recursive function of FlattenSeq.
Flat(f, ss, i) == IF i = 1 THEN ss[i] ELSE f[i - 1] \o ss[i]
Flats(f, ss) == f = [i \in 1..Len(ss) |-> Flat(f, ss, i)]

\* Two sequences of codes, one after the other.
LEMMA Joined == ASSUME NEW u \in Seq(Nat), NEW v \in Seq(Nat)
                PROVE  /\ u \o v \in Seq(Nat) /\ Len(u \o v) = Len(u) + Len(v)
                       /\ \A q \in 1..Len(u) : (u \o v)[q] = u[q]
                       /\ \A q \in 1..Len(v) : (u \o v)[Len(u) + q] = v[q]
OBVIOUS

\* It has a solution, whose values are the joined beginnings.
LEMMA FlatsExist ==
  ASSUME NEW ss \in Seq(Seq(Nat))
  PROVE  \E f : f \in [1..Len(ss) -> Seq(Nat)] /\ Flats(f, ss)
<1> DEFINE n == Len(ss)
           Begun(m) == \E f : f \in [1..m -> Seq(Nat)] /\ f = [i \in 1..m |-> Flat(f, ss, i)]
           S == {m \in Nat : m <= n => Begun(m)}
<1>1. n \in Nat /\ \A i \in 1..n : ss[i] \in Seq(Nat)
  OBVIOUS
<1>2. 0 \in S
  <2> DEFINE f == [i \in 1..0 |-> <<>>]
  <2>1. f \in [1..0 -> Seq(Nat)] /\ f = [i \in 1..0 |-> Flat(f, ss, i)]
    <3>1. 1..0 = {}
      OBVIOUS
    <3> QED BY <3>1
  <2> HIDE DEF f
  <2>2. Begun(0)
    BY <2>1
  <2> HIDE DEF Begun, n
  <2> QED BY <2>2
<1>3. ASSUME NEW m \in Nat, m \in S PROVE m + 1 \in S
  <2> SUFFICES ASSUME m + 1 <= n PROVE Begun(m + 1)
    <3> HIDE DEF Begun, n
    <3> QED OBVIOUS
  <2>0. Begun(m)
    <3> HIDE DEF Begun, n
    <3> QED BY <1>1, <1>3
  <2>1. PICK g : g \in [1..m -> Seq(Nat)] /\ g = [i \in 1..m |-> Flat(g, ss, i)]
    BY <2>0
  <2> DEFINE f == [i \in 1..(m + 1) |-> IF i \in 1..m THEN g[i] ELSE Flat(g, ss, i)]
  <2>2. \A i \in 1..m : f[i] = g[i] /\ g[i] \in Seq(Nat) /\ g[i] = Flat(g, ss, i)
    <3>1. \A i \in 1..m : g[i] \in Seq(Nat)
      BY <2>1, Zenon
    <3>2. \A i \in 1..m : g[i] = Flat(g, ss, i)
      <4>1. \A i \in 1..m : [k \in 1..m |-> Flat(g, ss, k)][i] = Flat(g, ss, i)
        OBVIOUS
      <4> QED BY <2>1, <4>1, Zenon
    <3>3. \A i \in 1..m : f[i] = g[i]
      OBVIOUS
    <3> HIDE DEF f
    <3> QED BY <3>1, <3>2, <3>3
  <2>3. f[m + 1] = Flat(g, ss, m + 1)
    OBVIOUS
  <2>4. Flat(g, ss, m + 1) \in Seq(Nat)
    <3>1. m + 1 \in 1..n /\ (m + 1) - 1 = m
      BY <1>1
    <3>2. CASE m + 1 = 1
      BY <1>1, <3>1, <3>2 DEF Flat
    <3>3. CASE m + 1 # 1
      <4>1. g[m] \in Seq(Nat) /\ ss[m + 1] \in Seq(Nat)
        BY <1>1, <2>1, <3>1, <3>3
      <4>2. Flat(g, ss, m + 1) = g[m] \o ss[m + 1]
        BY <3>1, <3>3 DEF Flat
      <4> QED BY <4>1, <4>2, Joined
    <3> QED BY <3>2, <3>3
  <2>5. ASSUME NEW i \in 1..(m + 1) PROVE f[i] = Flat(f, ss, i) /\ f[i] \in Seq(Nat)
    <3>1. f[i] = Flat(g, ss, i) /\ f[i] \in Seq(Nat)
      <4>1. i \in 1..m \/ i = m + 1
        OBVIOUS
      <4> HIDE DEF f
      <4> QED BY <2>2, <2>3, <2>4, <4>1
    <3>2. i # 1 => i - 1 \in 1..m
      OBVIOUS
    <3>3. i # 1 => f[i - 1] = g[i - 1]
      <4> HIDE DEF f
      <4> QED BY <2>2, <3>2
    <3> HIDE DEF f
    <3> QED BY <3>1, <3>3 DEF Flat
  <2>6. f = [i \in 1..(m + 1) |-> f[i]]
    OBVIOUS
  <2> HIDE DEF f
  <2>7. f = [i \in 1..(m + 1) |-> Flat(f, ss, i)] /\ f \in [1..(m + 1) -> Seq(Nat)]
    BY <2>5, <2>6
  <2> QED BY <2>7
<1>4. n \in S
  <2>1. Nat \subseteq S
    <3> HIDE DEF S
    <3> QED BY <1>2, <1>3, InductionOverNat
  <2> HIDE DEF S
  <2> QED BY <1>1, <2>1
<1> QED BY <1>1, <1>4 DEF Flats

\* FlattenSeq joins the sequences one after the other.
LEMMA Flattening ==
  ASSUME NEW ss \in Seq(Seq(Nat)), Len(ss) > 0
  PROVE  \E f \in [1..Len(ss) -> Seq(Nat)] :
            /\ f[1] = ss[1] /\ FlattenSeq(ss) = f[Len(ss)]
            /\ \A i \in 2..Len(ss) : f[i] = f[i - 1] \o ss[i]
<1> DEFINE n == Len(ss)
           f == CHOOSE f : Flats(f, ss)
<1>1. n \in Nat \ {0} /\ \A i \in 1..n : ss[i] \in Seq(Nat)
  OBVIOUS
<1>2. Flats(f, ss)
  BY FlatsExist, Zenon
<1>3. FlattenSeq(ss) = f[n]
  BY <1>1, Zenon DEF FlattenSeq, Flats, Flat
<1> HIDE DEF f
<1>4. \A i \in 1..n : f[i] = Flat(f, ss, i)
  BY <1>2 DEF Flats
<1>5. f[1] = ss[1] /\ \A i \in 2..n : f[i] = f[i - 1] \o ss[i]
  <2> HIDE DEF n
  <2>1. 1 \in 1..n /\ \A i \in 2..n : i \in 1..n /\ i # 1
    BY <1>1
  <2> QED BY <1>4, <2>1 DEF Flat
<1>6. \A i \in 1..n : f[i] \in Seq(Nat)
  <2> DEFINE S == {m \in Nat : m + 1 \in 1..n => f[m + 1] \in Seq(Nat)}
  <2>1. 0 \in S
    <3>1. 0 + 1 = 1
      OBVIOUS
    <3> QED BY <1>1, <1>5, <3>1
  <2>2. ASSUME NEW m \in Nat, m \in S PROVE m + 1 \in S
    <3> SUFFICES ASSUME (m + 1) + 1 \in 1..n PROVE f[(m + 1) + 1] \in Seq(Nat)
      OBVIOUS
    <3>1. m + 1 \in 1..n /\ (m + 1) + 1 \in 2..n /\ ((m + 1) + 1) - 1 = m + 1
      BY <1>1
    <3>2. f[m + 1] \in Seq(Nat) /\ ss[(m + 1) + 1] \in Seq(Nat)
      BY <1>1, <2>2, <3>1
    <3>3. f[(m + 1) + 1] = f[m + 1] \o ss[(m + 1) + 1]
      BY <1>5, <3>1
    <3> QED BY <3>2, <3>3, Joined
  <2>3. Nat \subseteq S
    <3> HIDE DEF S
    <3> QED BY <2>1, <2>2, InductionOverNat
  <2>4. \A i \in 1..n : i - 1 \in Nat /\ (i - 1) + 1 = i
    BY <1>1
  <2>5. ASSUME NEW i \in 1..n PROVE f[i] \in Seq(Nat)
    <3>1. i - 1 \in S
      <4> HIDE DEF S
      <4> QED BY <2>3, <2>4
    <3> QED BY <2>4, <3>1
  <2> QED BY <2>5
<1>7. f \in [1..n -> Seq(Nat)]
  <2>1. f = [i \in 1..n |-> Flat(f, ss, i)]
    BY <1>2 DEF Flats
  <2> QED BY <1>6, <2>1
<1> QED BY <1>3, <1>5, <1>7

(***************************************************************************)
(* Where the items of a template lie: item p begins at place from[p], one  *)
(* after the other, and the template ends with the last one.               *)
(***************************************************************************)
Laid(items, t, from) ==
  /\ from \in [1..(Len(items) + 1) -> Nat] /\ from[1] = 0 /\ from[Len(items) + 1] = Len(t)
  /\ \A p \in 1..Len(items) :
       /\ from[p + 1] = from[p] + Len(items[p].spelled) /\ from[p + 1] <= Len(t)
       /\ \A q \in 1..Len(items[p].spelled) : t[from[p] + q] = items[p].spelled[q]

\* The template is made of its items.
LEMMA TemplateLaid ==
  ASSUME NEW Its, NEW items \in Seq(Its), \A it \in Its : it.spelled \in Seq(Nat)
  PROVE  Template(items) \in Seq(Nat) /\ \E from : Laid(items, Template(items), from)
<1> DEFINE n == Len(items)
           ss == [k \in DOMAIN items |-> items[k].spelled]
           t == Template(items)
<1>1. n \in Nat /\ DOMAIN items = 1..n /\ \A p \in 1..n : items[p].spelled \in Seq(Nat)
  OBVIOUS
<1>2. ss \in Seq(Seq(Nat)) /\ Len(ss) = n /\ \A p \in 1..n : ss[p] = items[p].spelled
  <2>1. ss = [k \in 1..n |-> ss[k]] /\ \A p \in 1..n : ss[p] = items[p].spelled
    BY <1>1
  <2> HIDE DEF ss
  <2>2. \A p \in 1..n : ss[p] \in Seq(Nat)
    BY <1>1, <2>1
  <2>3. ss \in Seq(Seq(Nat)) /\ Len(ss) = n
    BY <1>1, <2>1, <2>2
  <2> QED BY <2>1, <2>3
<1>3. t = FlattenSeq(ss)
  BY DEF Template
<1> HIDE DEF ss, t, n
<1>4. CASE n = 0
  <2>1. t = ss /\ ss = <<>>
    BY <1>2, <1>3, <1>4 DEF FlattenSeq
  <2> DEFINE from == [p \in 1..(n + 1) |-> 0]
  <2>2. from \in [1..(n + 1) -> Nat] /\ from[1] = 0 /\ from[n + 1] = Len(t)
    BY <1>4, <2>1
  <2>3. 1..n = {}
    BY <1>4
  <2> HIDE DEF from
  <2>4. Laid(items, t, from)
    BY <2>2, <2>3 DEF Laid, n
  <2> QED BY <2>1, <2>4 DEF t
<1>5. CASE n > 0
  <2>1. PICK f \in [1..n -> Seq(Nat)] : /\ f[1] = ss[1] /\ t = f[n]
                                         /\ \A i \in 2..n : f[i] = f[i - 1] \o ss[i]
    <3>1. Len(ss) > 0
      BY <1>2, <1>5
    <3> QED BY <1>2, <1>3, <3>1, Flattening
  <2> DEFINE from == [p \in 1..(n + 1) |-> IF p = 1 THEN 0 ELSE Len(f[p - 1])]
  <2>2. from \in [1..(n + 1) -> Nat] /\ from[1] = 0 /\ from[n + 1] = Len(t)
    <3>1. \A p \in 2..(n + 1) : p - 1 \in 1..n /\ f[p - 1] \in Seq(Nat) /\ Len(f[p - 1]) \in Nat
      BY <1>1
    <3>2. (n + 1) - 1 = n /\ n + 1 \in 1..(n + 1) /\ n + 1 # 1
      BY <1>1, <1>5
    <3>3. from[n + 1] = Len(t)
      BY <2>1, <3>2
    <3>4. \A p \in 1..(n + 1) : p # 1 => p \in 2..(n + 1)
      BY <1>1
    <3> QED BY <1>1, <1>5, <3>1, <3>3, <3>4
  <2>3. ASSUME NEW p \in 1..n
        PROVE  /\ from[p] + Len(ss[p]) = Len(f[p])
               /\ \A q \in 1..Len(ss[p]) : f[p][from[p] + q] = ss[p][q]
    <3>1. CASE p = 1
      <4>1. ss[1] \in Seq(Nat) /\ f[1] = ss[1] /\ from[1] = 0
        BY <1>1, <1>2, <1>5, <2>1, <2>2
      <4>2. \A q \in 1..Len(ss[1]) : 0 + q = q
        BY <4>1
      <4>3. 0 + Len(ss[1]) = Len(ss[1])
        BY <4>1
      <4> HIDE DEF from
      <4> QED BY <3>1, <4>1, <4>2, <4>3
    <3>2. CASE p # 1
      <4>1. p \in 2..n /\ p - 1 \in 1..n
        BY <1>1, <3>2
      <4>2. from[p] = Len(f[p - 1])
        BY <1>1, <3>2
      <4>3. f[p] = f[p - 1] \o ss[p]
        BY <2>1, <4>1
      <4>4. f[p - 1] \in Seq(Nat) /\ ss[p] \in Seq(Nat)
        <5>1. \A i \in 1..n : f[i] \in Seq(Nat) /\ ss[i] \in Seq(Nat)
          BY <1>1, <1>2
        <5> QED BY <4>1, <5>1
      <4> HIDE DEF from
      <4>5. /\ Len(f[p]) = from[p] + Len(ss[p])
            /\ \A q \in 1..Len(ss[p]) : f[p][from[p] + q] = ss[p][q]
        <5>1. /\ Len(f[p - 1] \o ss[p]) = Len(f[p - 1]) + Len(ss[p])
              /\ \A q \in 1..Len(ss[p]) : (f[p - 1] \o ss[p])[Len(f[p - 1]) + q] = ss[p][q]
          BY <4>4, Joined, Zenon
        <5> QED BY <4>2, <4>3, <5>1
      <4> QED BY <4>5
    <3> QED BY <3>1, <3>2
  <2>4. \A p \in 1..n : from[p + 1] = Len(f[p])
    <3>1. \A p \in 1..n : (p + 1) - 1 = p /\ p + 1 # 1 /\ p + 1 \in 1..(n + 1)
      BY <1>1
    <3> QED BY <3>1
  <2> HIDE DEF from
  \* What is joined later comes behind.
  <2>5. \A p \in 1..n : /\ Len(f[p]) <= Len(t)
                        /\ \A q \in 1..Len(f[p]) : t[q] = f[p][q]
    <3> DEFINE S == {m \in Nat : \A p \in 1..n : p + m = n =>
                       Len(f[p]) <= Len(t) /\ \A q \in 1..Len(f[p]) : t[q] = f[p][q]}
    <3>1. 0 \in S
      <4>1. \A p \in 1..n : p + 0 = n => f[p] = t /\ t \in Seq(Nat)
        BY <1>1, <2>1
      <4> QED BY <4>1
    <3>2. ASSUME NEW m \in Nat, m \in S PROVE m + 1 \in S
      <4> SUFFICES ASSUME NEW p \in 1..n, p + (m + 1) = n
                   PROVE  Len(f[p]) <= Len(t) /\ \A q \in 1..Len(f[p]) : t[q] = f[p][q]
        OBVIOUS
      <4>1. p + 1 \in 1..n /\ (p + 1) + m = n /\ p + 1 \in 2..n /\ (p + 1) - 1 = p
        BY <1>1
      <4>2. Len(f[p + 1]) <= Len(t) /\ \A q \in 1..Len(f[p + 1]) : t[q] = f[p + 1][q]
        BY <3>2, <4>1
      <4>3. f[p + 1] = f[p] \o ss[p + 1] /\ f[p] \in Seq(Nat) /\ ss[p + 1] \in Seq(Nat)
        BY <1>1, <1>2, <2>1, <4>1
      <4>4. /\ Len(f[p + 1]) = Len(f[p]) + Len(ss[p + 1])
            /\ \A q \in 1..Len(f[p]) : f[p + 1][q] = f[p][q]
            /\ Len(f[p]) \in Nat /\ Len(ss[p + 1]) \in Nat
        BY <4>3, Joined
      <4>5. Len(t) \in Nat
        BY <1>1, <1>5, <2>1
      <4>6. Len(f[p]) <= Len(t) /\ \A q \in 1..Len(f[p]) : q \in 1..Len(f[p + 1])
        BY <4>2, <4>4, <4>5, SMTT(30)
      <4> QED BY <4>2, <4>4, <4>6
    <3>3. Nat \subseteq S
      <4> HIDE DEF S
      <4> QED BY <3>1, <3>2, InductionOverNat
    <3>4. ASSUME NEW p \in 1..n
          PROVE  Len(f[p]) <= Len(t) /\ \A q \in 1..Len(f[p]) : t[q] = f[p][q]
      <4>1. n - p \in Nat /\ p + (n - p) = n
        BY <1>1
      <4>2. n - p \in S
        <5> HIDE DEF S
        <5> QED BY <3>3, <4>1
      <4> QED BY <4>1, <4>2
    <3> QED BY <3>4
  <2>6. ASSUME NEW p \in 1..n
        PROVE  /\ from[p + 1] = from[p] + Len(items[p].spelled) /\ from[p + 1] <= Len(t)
               /\ \A q \in 1..Len(items[p].spelled) : t[from[p] + q] = items[p].spelled[q]
    <3>1. ss[p] = items[p].spelled /\ from[p] \in Nat /\ Len(ss[p]) \in Nat
      <4>1. ss[p] \in Seq(Nat) /\ p \in 1..(n + 1)
        BY <1>1, <1>2
      <4>2. Len(ss[p]) \in Nat
        BY <4>1
      <4> QED BY <1>2, <2>2, <4>1, <4>2
    <3>2. \A q \in 1..Len(ss[p]) : from[p] + q \in 1..Len(f[p])
      <4>1. from[p] + Len(ss[p]) = Len(f[p])
        BY <2>3
      <4> QED BY <3>1, <4>1, SMTT(30)
    <3>3. from[p + 1] = from[p] + Len(ss[p])
      BY <2>3, <2>4
    <3>4. \A q \in 1..Len(ss[p]) : t[from[p] + q] = f[p][from[p] + q]
      BY <2>5, <3>2
    <3>5. \A q \in 1..Len(ss[p]) : f[p][from[p] + q] = ss[p][q]
      BY <2>3
    <3>6. from[p + 1] <= Len(t)
      BY <2>4, <2>5
    <3> QED BY <3>1, <3>3, <3>4, <3>5, <3>6
  <2>7. Laid(items, t, from)
    BY <2>2, <2>6 DEF Laid, n
  <2>8. t \in Seq(Nat)
    BY <1>1, <1>5, <2>1
  <2> QED BY <2>7, <2>8 DEF t
<1> QED BY <1>1, <1>4, <1>5
-----------------------------------------------------------------------------
Brackets(s, body) == IsBody(body) /\ s = <<Open>> \o body \o <<Close>>

\* The kinds of items, for names over the alphabet C.
Starred(it)   == it.star /\ it.spelled = <<Star>>
Marked(it, C) == ~ it.star /\ it.spelled = <<Mark>> /\ C \subseteq it.set
Plain(it)     == ~ it.star /\ \E ch \in Nat \ {NUL, Star, Mark, Open} :
                                 it.spelled = <<ch>> /\ it.set = {ch}
Bracketed(it) == ~ it.star /\ \E body : Brackets(it.spelled, body) /\ it.set = BodySet(body)

IsItem(it, C) == Starred(it) \/ Marked(it, C) \/ Plain(it) \/ Bracketed(it)

\* How a bracket is written.
LEMMA BracketSpelled ==
  ASSUME NEW body, NEW s, Brackets(s, body)
  PROVE  /\ s \in Seq(Nat) /\ Len(s) = Len(body) + 2 /\ Len(body) \in Nat
         /\ s[1] = Open /\ s[Len(body) + 2] = Close
         /\ \A k \in 1..Len(body) : s[k + 1] = body[k]
<1> DEFINE u == <<Open>> \o body
<1>0. IsBody(body) /\ s = <<Open>> \o body \o <<Close>>
  BY DEF Brackets
<1>1. Open \in Nat /\ Close \in Nat
  BY DEF Open, Close
<1>2. body \in Seq(Nat) /\ <<Open>> \in Seq(Nat) /\ <<Close>> \in Seq(Nat) /\ Len(body) \in Nat
  BY <1>0, <1>1 DEF IsBody
<1>3. u \in Seq(Nat) /\ Len(u) = 1 + Len(body) /\ u[1] = Open
        /\ \A k \in 1..Len(body) : u[1 + k] = body[k]
  BY <1>2
<1>4. s = u \o <<Close>>
  BY <1>0
<1> HIDE DEF u
<1>5. /\ s \in Seq(Nat) /\ Len(s) = Len(u) + 1
      /\ \A q \in 1..Len(u) : s[q] = u[q]
      /\ s[Len(u) + 1] = Close
  BY <1>2, <1>3, <1>4
<1>6. \A k \in 1..Len(body) : s[k + 1] = body[k]
  <2>1. \A k \in 1..Len(body) : k + 1 \in 1..Len(u) /\ k + 1 = 1 + k
    BY <1>2, <1>3
  <2> QED BY <1>3, <1>5, <2>1
<1> QED BY <1>2, <1>3, <1>5, <1>6

\* How an item is written, and how its first character tells its kind.
LEMMA ItemSpelled ==
  ASSUME NEW C, NEW it, IsItem(it, C)
  PROVE  /\ it.spelled \in Seq(Nat) /\ Len(it.spelled) \in Nat \ {0}
         /\ it.star <=> it.spelled[1] = Star
         /\ Marked(it, C) <=> it.spelled[1] = Mark
         /\ Bracketed(it) <=> it.spelled[1] = Open
         /\ Plain(it) <=> it.spelled[1] \notin {Star, Mark, Open}
         /\ ~ Bracketed(it) => Len(it.spelled) = 1
<1>1. /\ Star \in Nat /\ Mark \in Nat /\ Star # Mark /\ Star # Open /\ Mark # Open
  BY DEF Star, Mark, Open
<1>2. CASE Starred(it)
  BY <1>1, <1>2, BracketSpelled DEF Starred, Marked, Bracketed, Plain
<1>3. CASE Marked(it, C)
  BY <1>1, <1>3, BracketSpelled DEF Marked, Bracketed, Plain
<1>4. CASE Plain(it)
  BY <1>1, <1>4, BracketSpelled DEF Marked, Bracketed, Plain
<1>5. CASE Bracketed(it)
  <2>1. PICK body : Brackets(it.spelled, body)
    BY <1>5 DEF Bracketed
  <2>2. /\ it.spelled \in Seq(Nat) /\ Len(it.spelled) \in Nat \ {0} /\ it.spelled[1] = Open
    <3>1. /\ it.spelled \in Seq(Nat) /\ Len(it.spelled) = Len(body) + 2 /\ Len(body) \in Nat
          /\ it.spelled[1] = Open
      BY <2>1, BracketSpelled, Zenon
    <3> QED BY <3>1
  <2>3. ~ it.star
    BY <1>5 DEF Bracketed
  <2>4. ~ Marked(it, C)
    BY <1>1, <2>2 DEF Marked
  <2>5. ~ Plain(it)
    BY <2>2 DEF Plain
  <2> QED BY <1>1, <1>5, <2>2, <2>3, <2>4, <2>5
<1> QED BY <1>2, <1>3, <1>4, <1>5 DEF IsItem

\* Which item a place of the template lies in.
LEMMA InSomeItem ==
  ASSUME NEW Its, NEW items \in Seq(Its), NEW t, Len(t) \in Nat, NEW from,
         Laid(items, t, from), NEW i \in Nat, i < Len(t)
  PROVE  \E p \in 1..Len(items) : from[p] <= i /\ i < from[p + 1]
<1> DEFINE n == Len(items)
           T == {p \in 1..(n + 1) : i < from[p]}
<1>1. n \in Nat /\ from[1] = 0 /\ from[n + 1] = Len(t) /\ \A p \in 1..(n + 1) : from[p] \in Nat
  BY DEF Laid
<1>2. n + 1 \in T /\ T \subseteq Nat
  BY <1>1
<1>3. PICK p \in T : \A r \in T : p <= r
  <2> HIDE DEF T
  <2> QED BY <1>2, Least
<1>4. p # 1 /\ p \in 1..(n + 1) /\ i < from[p]
  BY <1>1, <1>3
<1>5. p - 1 \in 1..n /\ (p - 1) + 1 = p /\ p - 1 \in 1..(n + 1)
  BY <1>1, <1>4
<1>6. p - 1 \notin T
  <2> HIDE DEF T
  <2> QED BY <1>3, <1>5
<1>7. from[p - 1] <= i
  BY <1>1, <1>5, <1>6
<1> QED BY <1>4, <1>5, <1>7

\* Where one item lies.
LaidItem(items, t, from, p) ==
  /\ from[p] \in Nat /\ from[p + 1] \in Nat
  /\ from[p + 1] = from[p] + Len(items[p].spelled) /\ from[p + 1] <= Len(t)
  /\ \A q \in 1..Len(items[p].spelled) : t[from[p] + q] = items[p].spelled[q]

LEMMA EachLaid ==
  ASSUME NEW Its, NEW items \in Seq(Its), NEW t, NEW from, Laid(items, t, from),
         NEW p \in 1..Len(items)
  PROVE  LaidItem(items, t, from, p)
<1>1. Len(items) \in Nat
  OBVIOUS
<1>2. from \in [1..(Len(items) + 1) -> Nat] /\ p \in 1..(Len(items) + 1)
        /\ p + 1 \in 1..(Len(items) + 1)
  BY <1>1 DEF Laid
<1>3. from[p] \in Nat /\ from[p + 1] \in Nat
  BY <1>2, Zenon
<1>4. /\ from[p + 1] = from[p] + Len(items[p].spelled) /\ from[p + 1] <= Len(t)
      /\ \A q \in 1..Len(items[p].spelled) : t[from[p] + q] = items[p].spelled[q]
  BY Zenon DEF Laid
<1> QED BY <1>3, <1>4 DEF LaidItem

\* What lies where an item begins, when the item is one character long.
LEMMA AtShort ==
  ASSUME NEW Its, NEW items \in Seq(Its), NEW t, Len(t) \in Nat, NEW from,
         Laid(items, t, from), NEW p \in 1..Len(items), Len(items[p].spelled) = 1
  PROVE  At(t, from[p]) = items[p].spelled[1] /\ from[p + 1] = from[p] + 1
<1>0. LaidItem(items, t, from, p)
  BY EachLaid, Zenon
<1>1. /\ from[p] \in Nat /\ from[p + 1] \in Nat
      /\ from[p + 1] = from[p] + Len(items[p].spelled) /\ from[p + 1] <= Len(t)
      /\ \A q \in 1..Len(items[p].spelled) : t[from[p] + q] = items[p].spelled[q]
  BY <1>0 DEF LaidItem
<1> QED BY <1>1 DEF At

\* And when it is a bracket.
LaidBracket(t, i, body, e) ==
  /\ At(t, i) = Open /\ At(t, i + Len(body) + 1) = Close
  /\ \A k \in 1..Len(body) : At(t, i + k) = body[k]
  /\ e = i + Len(body) + 2 /\ Len(body) \in Nat /\ AfterBracket(t, i) = e

LEMMA AtBracket ==
  ASSUME NEW Its, NEW items \in Seq(Its), NEW t, Len(t) \in Nat, NEW from,
         Laid(items, t, from), NEW p \in 1..Len(items),
         NEW body, Brackets(items[p].spelled, body)
  PROVE  LaidBracket(t, from[p], body, from[p + 1])
<1> DEFINE s == items[p].spelled
<1>1. /\ Len(s) = Len(body) + 2 /\ Len(body) \in Nat /\ s[1] = Open /\ s[Len(body) + 2] = Close
      /\ \A k \in 1..Len(body) : s[k + 1] = body[k]
  BY BracketSpelled, Zenon
<1>0. LaidItem(items, t, from, p)
  BY EachLaid, Zenon
<1>2. /\ from[p] \in Nat /\ from[p + 1] = from[p] + Len(s) /\ from[p + 1] <= Len(t)
      /\ \A q \in 1..Len(s) : t[from[p] + q] = s[q]
  BY <1>0 DEF LaidItem
<1> HIDE DEF s
<1>3. ASSUME NEW q \in 0..(Len(body) + 1) PROVE At(t, from[p] + q) = s[q + 1]
  <2>1. q + 1 \in 1..Len(s) /\ from[p] + q < Len(t) /\ (from[p] + q) + 1 = from[p] + (q + 1)
    BY <1>1, <1>2
  <2> QED BY <1>2, <2>1 DEF At
<1>4. /\ At(t, from[p]) = Open /\ At(t, from[p] + Len(body) + 1) = Close
      /\ \A k \in 1..Len(body) : At(t, from[p] + k) = body[k]
  <2>1. /\ 0 \in 0..(Len(body) + 1) /\ Len(body) + 1 \in 0..(Len(body) + 1)
        /\ \A k \in 1..Len(body) : k \in 0..(Len(body) + 1)
    BY <1>1
  <2>2. from[p] \in Nat /\ Len(body) \in Nat
    BY <1>1, <1>2
  <2>3. /\ from[p] + 0 = from[p] /\ from[p] + Len(body) + 1 = from[p] + (Len(body) + 1)
        /\ 0 + 1 = 1 /\ (Len(body) + 1) + 1 = Len(body) + 2
    BY <2>2
  <2> QED BY <1>1, <1>3, <2>1, <2>3
<1>5. from[p + 1] = from[p] + Len(body) + 2
  <2>1. from[p] \in Nat /\ from[p + 1] = from[p] + Len(s)
    BY <1>2
  <2>2. Len(s) = Len(body) + 2 /\ Len(body) \in Nat
    BY <1>1
  <2> QED BY <2>1, <2>2
<1>6. AfterBracket(t, from[p]) = from[p] + Len(body) + 2
  BY <1>2, <1>4, BracketEnds DEF Brackets
<1> QED BY <1>1, <1>4, <1>5, <1>6 DEF LaidBracket

(***************************************************************************)
(* Every bracket ends: an opening bracket begins one or lies in one, and   *)
(* either way a closing one follows.                                       *)
(***************************************************************************)
Ended(t) == \A i \in Nat : At(t, i) = Open => AfterBracket(t, i) \in Nat /\ i < AfterBracket(t, i)

LEMMA AllEnd ==
  ASSUME NEW C, NEW Its, NEW items \in Seq(Its), \A it \in Its : IsItem(it, C),
         NEW t, Len(t) \in Nat, NEW from, Laid(items, t, from)
  PROVE  Ended(t)
<1> SUFFICES ASSUME NEW i \in Nat, At(t, i) = Open
             PROVE  AfterBracket(t, i) \in Nat /\ i < AfterBracket(t, i)
  BY DEF Ended
<1>1. i < Len(t)
  BY DEF At, NUL, Open
<1>2. PICK p \in 1..Len(items) : from[p] <= i /\ i < from[p + 1]
  BY <1>1, InSomeItem
<1>3. IsItem(items[p], C)
  OBVIOUS
<1>4. Bracketed(items[p])
  <2> SUFFICES ASSUME ~ Bracketed(items[p]) PROVE FALSE
    OBVIOUS
  <2>1. Len(items[p].spelled) = 1 /\ items[p].spelled[1] # Open
    BY <1>3, ItemSpelled
  <2>2. At(t, from[p]) = items[p].spelled[1] /\ from[p + 1] = from[p] + 1 /\ from[p] \in Nat
    BY <2>1, AtShort, EachLaid DEF LaidItem
  <2>3. i = from[p]
    BY <1>2, <2>2
  <2> QED BY <2>1, <2>2, <2>3
<1>5. PICK body : Brackets(items[p].spelled, body)
  BY <1>4 DEF Bracketed
<1>6. /\ At(t, from[p] + Len(body) + 1) = Close /\ Len(body) \in Nat
      /\ from[p + 1] = from[p] + Len(body) + 2
  BY <1>5, AtBracket DEF LaidBracket
<1>7. from[p] \in Nat /\ from[p + 1] <= Len(t)
  BY EachLaid DEF LaidItem
<1> DEFINE e == from[p] + Len(body) + 1
           T == {j \in i..e : At(t, j) = Close}
<1>8. e \in T /\ T \subseteq Nat
  BY <1>2, <1>6, <1>7
<1>9. PICK j \in T : \A k \in T : j <= k
  <2> HIDE DEF T
  <2> QED BY <1>8, Least
<1>10. j \in i..e /\ At(t, j) = Close /\ \A k \in i..(j - 1) : At(t, k) # Close
  <2>1. j \in i..e /\ At(t, j) = Close
    BY <1>9
  <2>2. ASSUME NEW k \in i..(j - 1), At(t, k) = Close PROVE FALSE
    <3>1. k \in T /\ k < j
      BY <1>6, <1>7, <2>1, <2>2
    <3> HIDE DEF T, e
    <3> QED BY <1>9, <2>1, <3>1
  <2> QED BY <2>1, <2>2
<1>11. j + 1 \in (i + 1)..Len(t) /\ (j + 1) - 1 = j /\ (j + 1) - 2 = j - 1
  BY <1>6, <1>7, <1>10
<1>12. AfterBracket(t, i) \in (i + 1)..Len(t)
  <2> HIDE DEF e, T
  <2> QED BY <1>10, <1>11 DEF AfterBracket
<1> QED BY <1>12
-----------------------------------------------------------------------------
(***************************************************************************)
(* The equation that defines the recursive function of checkExp.  A call   *)
(* with template + i goes on with template + i + 1 or behind the bracket   *)
(* that begins at place i: u and v are the rows of those.                  *)
(***************************************************************************)
Call(u, v, t, name, i, j, tempLen, openBr) ==
  LET at == At(t, i)
      d == At(name, j)
  IN  CASE at = NUL /\ d = NUL -> TRUE
        [] at = Star ->
             \E k \in 0..(strlen(name, j) - tempLen) :
               At(t, i + 1) = NUL \/ u[j + k][tempLen][openBr]
        [] at = Mark \/ (at = Open /\ openBr) -> u[j + 1][tempLen - 1][openBr]
        [] at = Open /\ ~openBr -> InBracket(t, i + 1, d) /\ v[j + 1][tempLen - 1][TRUE]
        [] OTHER -> at = d /\ u[j + 1][tempLen - 1][FALSE]

Calls(u, v, t, name, i) ==
  [j \in Nat |-> [tempLen \in Int |-> [openBr \in BOOLEAN |->
     Call(u, v, t, name, i, j, tempLen, openBr)]]]

Checks(f, t, name) ==
  f = [i \in Nat |-> Calls(f[i + 1], f[AfterBracket(t, i)], t, name, i)]

\* At the end of the template there is no further call.
LEMMA LastCall ==
  ASSUME NEW u, NEW v, NEW t, NEW name, NEW i, At(t, i) = NUL, NEW j, NEW tempLen, NEW openBr
  PROVE  Call(u, v, t, name, i, j, tempLen, openBr) = (At(name, j) = NUL)
<1>1. NUL # Star /\ NUL # Mark /\ NUL # Open
  BY DEF NUL, Star, Mark, Open
<1>2. CASE At(name, j) = NUL
  BY <1>1, <1>2 DEF Call
<1>3. CASE At(name, j) # NUL
  <2>1. Call(u, v, t, name, i, j, tempLen, openBr)
          = (NUL = At(name, j) /\ u[j + 1][tempLen - 1][FALSE])
    BY <1>1, <1>3 DEF Call
  <2>2. (NUL = At(name, j) /\ u[j + 1][tempLen - 1][FALSE]) = FALSE
    BY <1>3, Zenon
  <2> QED BY <1>3, <2>1, <2>2
<1> QED BY <1>2, <1>3

\* A row behind a bracket matters at a bracket only.
LEMMA CallsSame ==
  ASSUME NEW t, NEW name, NEW i, NEW u, NEW v, NEW w, At(t, i) # Open
  PROVE  Calls(u, v, t, name, i) = Calls(u, w, t, name, i)
<1>1. ASSUME NEW j, NEW tempLen, NEW openBr
      PROVE  Call(u, v, t, name, i, j, tempLen, openBr) = Call(u, w, t, name, i, j, tempLen, openBr)
  <2>1. NUL # Star /\ NUL # Mark /\ Star # Mark
    BY DEF NUL, Star, Mark
  <2> QED BY <2>1, Zenon DEF Call
<1> QED BY <1>1 DEF Calls

LEMMA LastCalls ==
  ASSUME NEW t, NEW name, NEW i, At(t, i) = NUL, NEW u, NEW v, NEW x, NEW y
  PROVE  Calls(u, v, t, name, i) = Calls(x, y, t, name, i)
<1>1. ASSUME NEW j, NEW tempLen, NEW openBr
      PROVE  Call(u, v, t, name, i, j, tempLen, openBr) = Call(x, y, t, name, i, j, tempLen, openBr)
  <2>1. Call(u, v, t, name, i, j, tempLen, openBr) = (At(name, j) = NUL)
    BY LastCall
  <2>2. Call(x, y, t, name, i, j, tempLen, openBr) = (At(name, j) = NUL)
    BY LastCall
  <2> QED BY <2>1, <2>2, Zenon
<1> QED BY <1>1 DEF Calls

\* It has a solution: from the end of the template backwards.
LEMMA ChecksExist ==
  ASSUME NEW t, Len(t) \in Nat, Ended(t), NEW name PROVE \E f : Checks(f, t, name)
<1> DEFINE D(m) == {i \in Nat : i + m >= Len(t)}
           Row(f, i) == Calls(f[i + 1], f[AfterBracket(t, i)], t, name, i)
           Done(m) == \E f : f = [i \in D(m) |-> Row(f, i)]
           S == {m \in Nat : Done(m)}
<1>1. 0 \in S
  <2> DEFINE f == [i \in D(0) |-> Calls({}, {}, t, name, i)]
  <2>1. ASSUME NEW i \in D(0) PROVE Row(f, i) = Calls({}, {}, t, name, i)
    <3>1. At(t, i) = NUL
      BY PastTheEnd
    <3> HIDE DEF f, D
    <3> QED BY <3>1, LastCalls, ZenonT(60)
  <2>2. f = [i \in D(0) |-> Row(f, i)]
    <3> HIDE DEF D, Row
    <3> QED BY <2>1
  <2>3. Done(0)
    <3> HIDE DEF f, D, Row
    <3> QED BY <2>2
  <2> HIDE DEF Done
  <2> QED BY <2>3
<1>2. ASSUME NEW m \in Nat, m \in S PROVE m + 1 \in S
  <2>0. Done(m)
    <3> HIDE DEF Done
    <3> QED BY <1>2
  <2>1. PICK g : g = [i \in D(m) |-> Row(g, i)]
    BY <2>0
  <2> DEFINE f == [i \in D(m + 1) |-> IF i \in D(m) THEN g[i] ELSE Row(g, i)]
  <2>2. \A i \in D(m) : f[i] = g[i] /\ i \in D(m + 1)
    <3> HIDE DEF Row
    <3> QED OBVIOUS
  <2>3. ASSUME NEW i \in D(m + 1)
        PROVE  /\ i \in Nat /\ i + 1 \in D(m)
               /\ At(t, i) = Open => AfterBracket(t, i) \in D(m)
    BY DEF Ended
  <2>4. ASSUME NEW i \in D(m + 1) PROVE f[i] = Row(f, i)
    <3>1. f[i] = Row(g, i)
      <4>1. CASE i \in D(m)
        <5>1. f[i] = g[i]
          BY <2>2, <4>1
        <5> HIDE DEF f, D, Row
        <5> QED BY <2>1, <4>1, <5>1
      <4>2. CASE i \notin D(m)
        <5> HIDE DEF D, Row
        <5> QED BY <4>2
      <4> QED BY <4>1, <4>2
    <3>2. f[i + 1] = g[i + 1]
      <4> HIDE DEF f, D
      <4> QED BY <2>2, <2>3
    <3>3. CASE At(t, i) = Open
      <4>1. f[AfterBracket(t, i)] = g[AfterBracket(t, i)]
        <5> HIDE DEF f, D
        <5> QED BY <2>2, <2>3, <3>3
      <4> HIDE DEF f, D
      <4> QED BY <3>1, <3>2, <4>1
    <3>4. CASE At(t, i) # Open
      <4> HIDE DEF f, D
      <4> QED BY <3>1, <3>2, <3>4, CallsSame, ZenonT(60)
    <3> HIDE DEF f, D
    <3> QED BY <3>3, <3>4
  <2>5. f = [i \in D(m + 1) |-> Row(f, i)]
    <3>1. f = [i \in D(m + 1) |-> f[i]]
      <4> HIDE DEF D, Row
      <4> QED OBVIOUS
    <3> HIDE DEF f, D, Row
    <3> QED BY <2>4, <3>1
  <2>6. Done(m + 1)
    <3> HIDE DEF f, D, Row
    <3> QED BY <2>5
  <2> HIDE DEF Done
  <2> QED BY <2>6
<1>3. Nat \subseteq S
  <2> HIDE DEF S
  <2> QED BY <1>1, <1>2, InductionOverNat
<1>4. Len(t) \in S
  <2> HIDE DEF S
  <2> QED BY <1>3
<1>5. Done(Len(t))
  <2> HIDE DEF Done
  <2> QED BY <1>4
<1>6. PICK f : f = [i \in D(Len(t)) |-> Row(f, i)]
  BY <1>5
<1>7. D(Len(t)) = Nat
  OBVIOUS
<1> HIDE DEF D
<1> QED BY <1>6, <1>7 DEF Checks

\* checkExp is that solution.
Called(f, t, name) ==
  \A i, j \in Nat : \A tempLen \in Int : \A openBr \in BOOLEAN :
    f[i][j][tempLen][openBr]
      = Call(f[i + 1], f[AfterBracket(t, i)], t, name, i, j, tempLen, openBr)

LEMMA CheckExpIs ==
  ASSUME NEW t, Len(t) \in Nat, Ended(t), NEW name
  PROVE  Called(checkExp(t, name), t, name)
<1> DEFINE f == checkExp(t, name)
<1>1. f = CHOOSE g : Checks(g, t, name)
  BY Zenon DEF checkExp, Checks, Calls, Call
<1>2. Checks(f, t, name)
  <2> HIDE DEF f
  <2> QED BY <1>1, ChecksExist, Zenon
<1> HIDE DEF f
<1>3. \A i \in Nat : f[i] = Calls(f[i + 1], f[AfterBracket(t, i)], t, name, i)
  BY <1>2 DEF Checks
<1>4. ASSUME NEW i \in Nat, NEW j \in Nat, NEW tempLen \in Int, NEW openBr \in BOOLEAN
      PROVE  f[i][j][tempLen][openBr]
               = Call(f[i + 1], f[AfterBracket(t, i)], t, name, i, j, tempLen, openBr)
  <2> DEFINE u == f[i + 1]
             v == f[AfterBracket(t, i)]
  <2>1. f[i] = Calls(u, v, t, name, i)
    BY <1>3
  <2> HIDE DEF u, v
  <2>2. Calls(u, v, t, name, i)[j][tempLen][openBr] = Call(u, v, t, name, i, j, tempLen, openBr)
    BY DEF Calls
  <2>3. f[i][j][tempLen][openBr] = Call(u, v, t, name, i, j, tempLen, openBr)
    BY <2>1, <2>2, Zenon
  <2> QED BY <2>3 DEF u, v
<1>5. Called(f, t, name)
  BY <1>4 DEF Called
<1> QED BY <1>5 DEF f
-----------------------------------------------------------------------------
\* The equation that defines the recursive function of Accepts; u is the row of the next item.
Reads(u, items, name, i, j) ==
  IF i > Len(items) THEN j > Len(name)
  ELSE IF items[i].star
  THEN \E k \in j..(Len(name) + 1) : u[k]
  ELSE j <= Len(name) /\ name[j] \in items[i].set /\ u[j + 1]

ReadsRow(u, items, name, i) == [j \in Nat |-> Reads(u, items, name, i, j)]

Rests(f, items, name) == f = [i \in Nat |-> ReadsRow(f[i + 1], items, name, i)]

LEMMA LastReads ==
  ASSUME NEW items, NEW name, NEW i, i > Len(items), NEW u, NEW v
  PROVE  ReadsRow(u, items, name, i) = ReadsRow(v, items, name, i)
<1>1. \A j : Reads(u, items, name, i, j) = Reads(v, items, name, i, j)
  BY DEF Reads
<1> QED BY <1>1 DEF ReadsRow

\* It has a solution: from the last item backwards.
LEMMA RestsExist ==
  ASSUME NEW items, Len(items) \in Nat, NEW name PROVE \E f : Rests(f, items, name)
<1> DEFINE D(m) == {i \in Nat : i + m > Len(items)}
           Row(f, i) == ReadsRow(f[i + 1], items, name, i)
           Done(m) == \E f : f = [i \in D(m) |-> Row(f, i)]
           S == {m \in Nat : Done(m)}
<1>1. 0 \in S
  <2> DEFINE f == [i \in D(0) |-> ReadsRow({}, items, name, i)]
  <2>1. ASSUME NEW i \in D(0) PROVE Row(f, i) = ReadsRow({}, items, name, i)
    <3>1. i > Len(items)
      OBVIOUS
    <3> HIDE DEF f, D
    <3> QED BY <3>1, LastReads, Zenon
  <2>2. f = [i \in D(0) |-> Row(f, i)]
    <3> HIDE DEF D, Row
    <3> QED BY <2>1
  <2>3. Done(0)
    <3> HIDE DEF f, D, Row
    <3> QED BY <2>2
  <2> HIDE DEF Done
  <2> QED BY <2>3
<1>2. ASSUME NEW m \in Nat, m \in S PROVE m + 1 \in S
  <2>0. Done(m)
    <3> HIDE DEF Done
    <3> QED BY <1>2
  <2>1. PICK g : g = [i \in D(m) |-> Row(g, i)]
    BY <2>0
  <2> DEFINE f == [i \in D(m + 1) |-> IF i \in D(m) THEN g[i] ELSE Row(g, i)]
  <2>2. \A i \in D(m) : f[i] = g[i] /\ i \in D(m + 1)
    <3> HIDE DEF Row
    <3> QED OBVIOUS
  <2>3. \A i \in D(m + 1) : i + 1 \in D(m)
    OBVIOUS
  <2>4. ASSUME NEW i \in D(m + 1) PROVE f[i] = Row(f, i)
    <3>1. f[i] = Row(g, i)
      <4>1. CASE i \in D(m)
        <5>1. f[i] = g[i]
          BY <2>2, <4>1
        <5> HIDE DEF f, D, Row
        <5> QED BY <2>1, <4>1, <5>1
      <4>2. CASE i \notin D(m)
        <5> HIDE DEF D, Row
        <5> QED BY <4>2
      <4> QED BY <4>1, <4>2
    <3>2. f[i + 1] = g[i + 1]
      <4> HIDE DEF f, D
      <4> QED BY <2>2, <2>3
    <3> HIDE DEF f, D
    <3> QED BY <3>1, <3>2
  <2>5. f = [i \in D(m + 1) |-> Row(f, i)]
    <3>1. f = [i \in D(m + 1) |-> f[i]]
      <4> HIDE DEF D, Row
      <4> QED OBVIOUS
    <3> HIDE DEF f, D, Row
    <3> QED BY <2>4, <3>1
  <2>6. Done(m + 1)
    <3> HIDE DEF f, D, Row
    <3> QED BY <2>5
  <2> HIDE DEF Done
  <2> QED BY <2>6
<1>3. Nat \subseteq S
  <2> HIDE DEF S
  <2> QED BY <1>1, <1>2, InductionOverNat
<1>4. Len(items) + 1 \in S
  <2> HIDE DEF S
  <2> QED BY <1>3
<1>5. Done(Len(items) + 1)
  <2> HIDE DEF Done
  <2> QED BY <1>4
<1>6. PICK f : f = [i \in D(Len(items) + 1) |-> Row(f, i)]
  BY <1>5
<1>7. D(Len(items) + 1) = Nat
  OBVIOUS
<1> HIDE DEF D
<1> QED BY <1>6, <1>7 DEF Rests

\* Accepts is the value of a function that obeys the equation.
Obeys(f, items, name) ==
  \A i, j \in Nat : f[i][j] = Reads(f[i + 1], items, name, i, j)

LEMMA AcceptsIs ==
  ASSUME NEW items, Len(items) \in Nat, NEW name
  PROVE  \E f : Obeys(f, items, name) /\ Accepts(items, name) = f[1][1]
<1> DEFINE f == CHOOSE g : Rests(g, items, name)
<1>1. Accepts(items, name) = f[1][1]
  BY Zenon DEF Accepts, Rests, ReadsRow, Reads
<1>2. Rests(f, items, name)
  <2> HIDE DEF f
  <2>1. \E g : Rests(g, items, name)
    BY RestsExist
  <2> QED BY <2>1, Zenon DEF f
<1> HIDE DEF f
<1>3. ASSUME NEW i \in Nat, NEW j \in Nat PROVE f[i][j] = Reads(f[i + 1], items, name, i, j)
  <2>1. f[i] = ReadsRow(f[i + 1], items, name, i)
    BY <1>2 DEF Rests
  <2>2. ReadsRow(f[i + 1], items, name, i)[j] = Reads(f[i + 1], items, name, i, j)
    BY DEF ReadsRow
  <2> QED BY <2>1, <2>2, Zenon
<1> QED BY <1>1, <1>3 DEF Obeys
-----------------------------------------------------------------------------
\* A name in memory: its characters, a NUL and what was left over.
InMemory(name, s) ==
  /\ Len(name) \in Nat /\ Len(s) \in Nat /\ Len(name) < Len(s)
  /\ \A j \in Nat : j < Len(name) => At(s, j) = name[j + 1] /\ name[j + 1] \in Nat \ {NUL}
  /\ At(s, Len(name)) = NUL

LEMMA NameInMemory ==
  ASSUME NEW name \in Seq(Nat \ {NUL}), NEW stale \in Seq(Nat)
  PROVE  InMemory(name, name \o <<NUL>> \o stale)
<1> DEFINE u == name \o <<NUL>>
           s == u \o stale
<1>1. NUL \in Nat
  BY DEF NUL
<1>2. Len(name) \in Nat /\ name \in Seq(Nat) /\ <<NUL>> \in Seq(Nat)
        /\ \A j \in 1..Len(name) : name[j] \in Nat \ {NUL}
  BY <1>1
<1>3. /\ u \in Seq(Nat) /\ Len(u) = Len(name) + 1 /\ u[Len(name) + 1] = NUL
      /\ \A q \in 1..Len(name) : u[q] = name[q]
  BY <1>2
<1> HIDE DEF u
<1>4. /\ s \in Seq(Nat) /\ Len(s) = Len(u) + Len(stale) /\ Len(stale) \in Nat
      /\ \A q \in 1..Len(u) : s[q] = u[q]
  <2>1. u \in Seq(Nat) /\ stale \in Seq(Nat) /\ Len(stale) \in Nat
    BY <1>3
  <2>2. /\ u \o stale \in Seq(Nat) /\ Len(u \o stale) = Len(u) + Len(stale)
        /\ \A q \in 1..Len(u) : (u \o stale)[q] = u[q]
    BY <2>1, Joined, Zenon
  <2> QED BY <2>1, <2>2
<1> HIDE DEF s
<1>5. Len(s) \in Nat /\ Len(name) < Len(s)
  <2>1. Len(s) = Len(name) + 1 + Len(stale)
    BY <1>3, <1>4, Zenon
  <2> QED BY <1>2, <1>4, <2>1
<1>6. ASSUME NEW j \in Nat, j < Len(name)
      PROVE  At(s, j) = name[j + 1] /\ name[j + 1] \in Nat \ {NUL}
  <2>1. j + 1 \in 1..Len(name) /\ j + 1 \in 1..(Len(name) + 1) /\ j < Len(s)
    BY <1>2, <1>5, <1>6
  <2>2. s[j + 1] = u[j + 1] /\ u[j + 1] = name[j + 1]
    BY <1>3, <1>4, <2>1
  <2> QED BY <1>2, <2>1, <2>2 DEF At
<1>7. At(s, Len(name)) = NUL
  <2>1. Len(name) + 1 \in 1..Len(u)
    BY <1>2, <1>3
  <2>2. s[Len(name) + 1] = NUL
    BY <1>3, <1>4, <2>1
  <2> QED BY <1>5, <2>2 DEF At
<1>8. InMemory(name, s)
  BY <1>2, <1>5, <1>6, <1>7 DEF InMemory
<1> QED BY <1>8 DEF s, u

LEMMA StrLen ==
  ASSUME NEW name, NEW s, InMemory(name, s), NEW j \in Nat, j <= Len(name)
  PROVE  strlen(s, j) = Len(name) - j
<1> DEFINE l == Len(name) - j
           Found(n) == At(s, j + n) = NUL /\ \A k \in 0..(n - 1) : At(s, j + k) # NUL
<1>1. l \in 0..Len(s) /\ j + l = Len(name)
  BY DEF InMemory
<1>2. \A k \in 0..(l - 1) : At(s, j + k) # NUL
  <2>1. \A k \in 0..(l - 1) : j + k \in Nat /\ j + k < Len(name)
    BY DEF InMemory
  <2> QED BY <2>1 DEF InMemory
<1>3. Found(l)
  <2>1. At(s, j + l) = NUL
    BY <1>1 DEF InMemory
  <2> HIDE DEF l
  <2> QED BY <1>2, <2>1
<1>4. ASSUME NEW n \in 0..Len(s), Found(n) PROVE n = l
  <2>1. ~ (n < l)
    <3>1. n < l => n \in 0..(l - 1)
      BY <1>1
    <3> HIDE DEF l
    <3> QED BY <1>2, <1>4, <3>1
  <2>2. ~ (l < n)
    <3>1. l < n => l \in 0..(n - 1)
      BY <1>1
    <3> HIDE DEF l
    <3> QED BY <1>3, <1>4, <3>1
  <2> HIDE DEF l, Found
  <2> QED BY <1>1, <2>1, <2>2
<1>5. strlen(s, j) = CHOOSE n \in 0..Len(s) : Found(n)
  BY Zenon DEF strlen
<1> HIDE DEF Found, l
<1>6. strlen(s, j) = l
  BY <1>1, <1>3, <1>4, <1>5, Zenon
<1> QED BY <1>6 DEF l
-----------------------------------------------------------------------------
\* A set of places of a template has a greatest element.
LEMMA Greatest ==
  ASSUME NEW m \in Nat, NEW T \in SUBSET (1..m), T # {}
  PROVE  Max(T) \in T /\ \A x \in T : x <= Max(T)
<1> DEFINE R == {d \in Nat : m - d \in T}
<1>1. R # {} /\ R \subseteq Nat
  <2>1. PICK x \in T : TRUE
    OBVIOUS
  <2>2. m - x \in Nat /\ m - (m - x) = x
    BY <2>1
  <2> QED BY <2>1, <2>2
<1>2. PICK d \in R : \A e \in R : d <= e
  <2> HIDE DEF R
  <2> QED BY <1>1, Least
<1>3. m - d \in T
  BY <1>2
<1>4. ASSUME NEW x \in T PROVE m - d >= x
  <2>1. m - x \in Nat /\ m - (m - x) = x
    OBVIOUS
  <2>2. m - x \in R
    BY <2>1
  <2>3. d <= m - x
    <3> HIDE DEF R
    <3> QED BY <1>2, <2>2
  <2> QED BY <1>2, <2>1, <2>3
<1>5. \E y \in T : \A x \in T : y >= x
  BY <1>3, <1>4
<1>6. Max(T) \in T /\ \A x \in T : Max(T) >= x
  BY <1>5, Zenon DEF Max
<1>7. \A x \in T : x \in Nat
  OBVIOUS
<1>8. \A x \in T : x <= Max(T)
  BY <1>6, <1>7
<1> QED BY <1>6, <1>8

(***************************************************************************)
(* The equation that defines the recursive function of FoldLeft(Measure,   *)
(* Nothing, t): its argument is a set of places of the template, of which  *)
(* the last one is read last.                                              *)
(***************************************************************************)
Nothing == [tempLen |-> 0, openBr |-> FALSE, lenOfBrExp |-> 0]

Fold(f, t, T) == IF T = {} THEN Nothing ELSE Measure(f[T \ {Max(T)}], t[Max(T)])

\* It has a solution: from the empty set on, place by place.
LEMMA FoldsExist ==
  ASSUME NEW t, Len(t) \in Nat
  PROVE  \E f : f = [T \in SUBSET (1..Len(t)) |-> Fold(f, t, T)]
<1> DEFINE D(m) == SUBSET (1..m)
           Done(m) == \E f : f = [T \in D(m) |-> Fold(f, t, T)]
           S == {m \in Nat : Done(m)}
<1>1. 0 \in S
  <2> DEFINE f == [T \in D(0) |-> Nothing]
  <2>1. ASSUME NEW T \in D(0) PROVE Fold(f, t, T) = Nothing
    <3>1. T = {}
      <4>1. 1..0 = {}
        OBVIOUS
      <4> QED BY <4>1
    <3> HIDE DEF f, D
    <3> QED BY <3>1 DEF Fold
  <2>2. f = [T \in D(0) |-> Fold(f, t, T)]
    <3> HIDE DEF D
    <3> QED BY <2>1
  <2>3. Done(0)
    <3> HIDE DEF f, D
    <3> QED BY <2>2
  <2> HIDE DEF Done
  <2> QED BY <2>3
<1>2. ASSUME NEW m \in Nat, m \in S PROVE m + 1 \in S
  <2>0. Done(m)
    <3> HIDE DEF Done
    <3> QED BY <1>2
  <2>1. PICK g : g = [T \in D(m) |-> Fold(g, t, T)]
    BY <2>0
  <2> DEFINE f == [T \in D(m + 1) |-> IF T \in D(m) THEN g[T] ELSE Fold(g, t, T)]
  <2>2. \A T \in D(m) : f[T] = g[T] /\ T \in D(m + 1)
    <3>1. D(m) \subseteq D(m + 1)
      OBVIOUS
    <3> HIDE DEF D
    <3> QED BY <3>1
  <2>3. ASSUME NEW T \in D(m + 1), T # {} PROVE T \ {Max(T)} \in D(m)
    <3>1. Max(T) \in T /\ \A x \in T : x <= Max(T)
      BY <2>3, Greatest, m + 1 \in Nat
    <3>2. ASSUME NEW x \in T \ {Max(T)} PROVE x \in 1..m
      <4>1. x \in 1..(m + 1) /\ Max(T) \in 1..(m + 1) /\ x <= Max(T) /\ x # Max(T)
        BY <3>1
      <4> QED BY <4>1
    <3> QED BY <3>2
  <2>4. ASSUME NEW T \in D(m + 1) PROVE f[T] = Fold(f, t, T)
    <3>1. f[T] = Fold(g, t, T)
      <4>1. CASE T \in D(m)
        <5>1. f[T] = g[T]
          BY <2>2, <4>1
        <5> HIDE DEF f, D
        <5> QED BY <2>1, <4>1, <5>1
      <4>2. CASE T \notin D(m)
        <5> HIDE DEF D
        <5> QED BY <4>2
      <4> QED BY <4>1, <4>2
    <3>2. T # {} => f[T \ {Max(T)}] = g[T \ {Max(T)}]
      <4> HIDE DEF f, D
      <4> QED BY <2>2, <2>3
    <3> HIDE DEF f, D
    <3> QED BY <3>1, <3>2 DEF Fold
  <2>5. f = [T \in D(m + 1) |-> Fold(f, t, T)]
    <3>1. f = [T \in D(m + 1) |-> f[T]]
      <4> HIDE DEF D
      <4> QED OBVIOUS
    <3> HIDE DEF f, D
    <3> QED BY <2>4, <3>1
  <2>6. Done(m + 1)
    <3> HIDE DEF f, D
    <3> QED BY <2>5
  <2> HIDE DEF Done
  <2> QED BY <2>6
<1>3. Nat \subseteq S
  <2> HIDE DEF S
  <2> QED BY <1>1, <1>2, InductionOverNat
<1>4. Len(t) \in S
  <2> HIDE DEF S
  <2> QED BY <1>3
<1> HIDE DEF Done
<1>5. Done(Len(t))
  BY <1>4
<1> QED BY <1>5 DEF Done

\* Measure is applied to one character of the template after the other.
LEMMA Measuring ==
  ASSUME NEW t \in Seq(Nat)
  PROVE  \E m : /\ m[0] = Nothing /\ m[Len(t)] = FoldLeft(Measure, Nothing, t)
                /\ \A k \in 0..(Len(t) - 1) : m[k + 1] = Measure(m[k], t[k + 1])
<1> DEFINE n == Len(t)
           f == CHOOSE g : g = [T \in SUBSET (1..n) |-> Fold(g, t, T)]
           m == [k \in 0..n |-> f[1..k]]
<1>1. n \in Nat /\ DOMAIN t = 1..n
  OBVIOUS
<1>2. FoldLeft(Measure, Nothing, t)
        = (CHOOSE g : g = [T \in SUBSET (DOMAIN t) |-> Fold(g, t, T)])[DOMAIN t]
  BY Zenon DEF FoldLeft, MapThenFoldSet, Fold
<1>3. FoldLeft(Measure, Nothing, t) = f[1..n]
  <2> HIDE DEF n
  <2> QED BY <1>1, <1>2, Zenon
<1>4. f = [T \in SUBSET (1..n) |-> Fold(f, t, T)]
  <2>1. \E g : g = [T \in SUBSET (1..n) |-> Fold(g, t, T)]
    BY <1>1, FoldsExist
  <2> HIDE DEF n
  <2> QED BY <2>1, Zenon
<1> HIDE DEF f, n
<1>5. \A T \in SUBSET (1..n) : f[T] = Fold(f, t, T)
  BY <1>4
<1>6. f[1..0] = Nothing
  <2>1. 1..0 = {} /\ {} \in SUBSET (1..n)
    OBVIOUS
  <2>2. f[{}] = Fold(f, t, {})
    BY <1>5, <2>1
  <2> QED BY <2>1, <2>2 DEF Fold
<1>7. ASSUME NEW k \in 0..(n - 1) PROVE f[1..(k + 1)] = Measure(f[1..k], t[k + 1])
  <2>1. 1..(k + 1) \in SUBSET (1..n) /\ 1..(k + 1) # {} /\ k + 1 \in Nat
    <3>1. k + 1 \in 1..(k + 1)
      BY <1>1
    <3>2. \A x \in 1..(k + 1) : x \in 1..n
      BY <1>1
    <3>3. k + 1 \in Nat
      BY <1>1
    <3> QED BY <3>1, <3>2, <3>3
  <2>2. Max(1..(k + 1)) \in 1..(k + 1) /\ \A x \in 1..(k + 1) : x <= Max(1..(k + 1))
    BY <2>1, Greatest
  <2>3. Max(1..(k + 1)) = k + 1
    <3>1. k + 1 \in 1..(k + 1)
      BY <1>1
    <3> QED BY <2>2, <3>1
  <2>4. (1..(k + 1)) \ {k + 1} = 1..k
    BY <1>1
  <2>5. f[1..(k + 1)] = Fold(f, t, 1..(k + 1))
    BY <1>5, <2>1
  <2> QED BY <2>1, <2>3, <2>4, <2>5, Zenon DEF Fold
<1>8. m[0] = Nothing /\ m[n] = FoldLeft(Measure, Nothing, t)
  BY <1>1, <1>3, <1>6
<1>9. \A k \in 0..(n - 1) : m[k + 1] = Measure(m[k], t[k + 1])
  <2>1. \A k \in 0..(n - 1) : k \in 0..n /\ k + 1 \in 0..n
    BY <1>1
  <2>2. \A k \in 0..n : m[k] = f[1..k]
    OBVIOUS
  <2> HIDE DEF m
  <2> QED BY <1>7, <2>1, <2>2
<1> HIDE DEF m
<1> QED BY <1>8, <1>9 DEF n
-----------------------------------------------------------------------------
\* How many characters the items from p on ask for.
Askers(items, p) == {i \in p..Len(items) : ~ items[i].star}
AskedFrom(items, p) == Cardinality(Askers(items, p))

LEMMA Asking ==
  ASSUME NEW Its, NEW items \in Seq(Its)
  PROVE  /\ \A p \in 1..(Len(items) + 1) : AskedFrom(items, p) \in Nat
         /\ AskedFrom(items, 1) = Asked(items) /\ AskedFrom(items, Len(items) + 1) = 0
         /\ \A p \in 1..Len(items) :
              /\ items[p].star => AskedFrom(items, p) = AskedFrom(items, p + 1)
              /\ ~ items[p].star => AskedFrom(items, p) = AskedFrom(items, p + 1) + 1
<1> DEFINE n == Len(items)
<1>1. n \in Nat /\ DOMAIN items = 1..n
  OBVIOUS
<1>2. ASSUME NEW p \in 1..(n + 1)
      PROVE  IsFiniteSet(Askers(items, p)) /\ AskedFrom(items, p) \in Nat
  <2>1. IsFiniteSet(p..n)
    BY <1>1, FS_Interval
  <2>2. Askers(items, p) \subseteq p..n
    BY DEF Askers
  <2> QED BY <2>1, <2>2, FS_Subset, FS_CardinalityType DEF AskedFrom
<1>3. AskedFrom(items, 1) = Asked(items)
  BY <1>1 DEF AskedFrom, Askers, Asked
<1>4. AskedFrom(items, n + 1) = 0
  <2>1. Askers(items, n + 1) = {}
    BY <1>1 DEF Askers
  <2> QED BY <2>1, FS_EmptySet DEF AskedFrom
<1>5. ASSUME NEW p \in 1..n, items[p].star PROVE AskedFrom(items, p) = AskedFrom(items, p + 1)
  <2>1. p..n = {p} \cup ((p + 1)..n)
    BY <1>1
  <2> HIDE DEF n
  <2>2. Askers(items, p) = Askers(items, p + 1)
    BY <1>5, <2>1 DEF Askers, n
  <2> QED BY <2>2 DEF AskedFrom
<1>6. ASSUME NEW p \in 1..n, ~ items[p].star
      PROVE  AskedFrom(items, p) = AskedFrom(items, p + 1) + 1
  <2>1. p..n = {p} \cup ((p + 1)..n) /\ p \notin (p + 1)..n /\ p + 1 \in 1..(n + 1)
    BY <1>1
  <2> HIDE DEF n
  <2>2. Askers(items, p) = Askers(items, p + 1) \cup {p} /\ p \notin Askers(items, p + 1)
    BY <1>6, <2>1 DEF Askers, n
  <2>3. IsFiniteSet(Askers(items, p + 1))
    BY <1>2, <2>1
  <2> QED BY <2>2, <2>3, FS_AddElement DEF AskedFrom
<1> QED BY <1>2, <1>3, <1>4, <1>5, <1>6

\* What one round of the loop of regExp does, outside a bracket and inside.
Outside(m, tempLen) == /\ m \in [tempLen : Int, openBr : BOOLEAN, lenOfBrExp : Int]
                       /\ m.tempLen = tempLen /\ ~ m.openBr /\ m.lenOfBrExp = 0

Inside(m, tempLen) == /\ m \in [tempLen : Int, openBr : BOOLEAN, lenOfBrExp : Int]
                      /\ m.tempLen = tempLen /\ m.openBr

LEMMA MeasureOutside ==
  ASSUME NEW tempLen \in Int, NEW m, Outside(m, tempLen), NEW ch
  PROVE  /\ ch = Star => Outside(Measure(m, ch), tempLen)
         /\ ch = Open => Inside(Measure(m, ch), tempLen)
         /\ ch \notin {Star, Open} => Outside(Measure(m, ch), tempLen + 1)
<1>1. ASSUME ch = Star PROVE Outside(Measure(m, ch), tempLen)
  BY <1>1 DEF Measure, Outside, Star, Open, Close
<1>2. ASSUME ch = Open PROVE Inside(Measure(m, ch), tempLen)
  <2> DEFINE R == [tempLen : Int, openBr : BOOLEAN, lenOfBrExp : Int]
             q == [m EXCEPT !.openBr = TRUE]
  <2>1. m \in R /\ m.tempLen = tempLen /\ ~ m.openBr
    BY DEF Outside
  <2>2. q \in R
    BY <2>1
  <2>3. Measure(m, ch) = [q EXCEPT !.lenOfBrExp = @ + 1]
    BY <1>2, <2>1 DEF Measure, Star, Open
  <2>4. [q EXCEPT !.lenOfBrExp = @ + 1] \in R
    <3> HIDE DEF q
    <3> QED BY <2>2
  <2>5. Measure(m, ch).tempLen = tempLen /\ Measure(m, ch).openBr
    BY <1>2, <2>1 DEF Measure, Star, Open
  <2> HIDE DEF q
  <2> QED BY <2>3, <2>4, <2>5 DEF Inside
<1>3. ASSUME ch \notin {Star, Open} PROVE Outside(Measure(m, ch), tempLen + 1)
  BY <1>3 DEF Measure, Outside, Star, Open, Close
<1> QED BY <1>1, <1>2, <1>3

LEMMA MeasureInside ==
  ASSUME NEW tempLen \in Int, NEW m, Inside(m, tempLen), NEW ch
  PROVE  /\ ch # Close => Inside(Measure(m, ch), tempLen)
         /\ ch = Close => Outside(Measure(m, ch), tempLen + 1)
<1>1. ASSUME ch = Close PROVE Outside(Measure(m, ch), tempLen + 1)
  BY <1>1 DEF Measure, Outside, Inside, Star, Open, Close
<1>2. ASSUME ch = Star PROVE Inside(Measure(m, ch), tempLen)
  BY <1>2 DEF Measure, Inside, Star, Open, Close
<1>3. ASSUME ch \notin {Star, Close} PROVE Inside(Measure(m, ch), tempLen)
  BY <1>3 DEF Measure, Inside, Star, Open, Close
<1> QED BY <1>1, <1>2, <1>3

LEMMA InBetween ==
  ASSUME NEW i \in Nat, NEW l \in Nat, NEW n \in Nat, i + l + 2 <= n
  PROVE  \A k \in 0..(l + 1) : i + k \in Nat /\ i + k < n /\ (i + k) + 1 = i + (k + 1)
OBVIOUS

\* The first loop of regExp finds how many characters the template asks for.
LEMMA MeasureIs ==
  ASSUME NEW C, NEW Its, NEW items \in Seq(Its), \A it \in Its : IsItem(it, C),
         NEW t \in Seq(Nat), NEW from, Laid(items, t, from)
  PROVE  Outside(FoldLeft(Measure, Nothing, t), Asked(items))
<1> DEFINE n == Len(items)
           So(p) == Asked(items) - AskedFrom(items, p)
<1>1. n \in Nat /\ Len(t) \in Nat /\ from[1] = 0 /\ from[n + 1] = Len(t)
  BY DEF Laid
<1>2. /\ Asked(items) \in Nat /\ \A p \in 1..(n + 1) : AskedFrom(items, p) \in Nat
      /\ AskedFrom(items, 1) = Asked(items) /\ AskedFrom(items, n + 1) = 0
      /\ \A p \in 1..n :
           /\ items[p].star => AskedFrom(items, p) = AskedFrom(items, p + 1)
           /\ ~ items[p].star => AskedFrom(items, p) = AskedFrom(items, p + 1) + 1
  <2>1. 1 \in 1..(n + 1)
    BY <1>1
  <2> HIDE DEF n
  <2> QED BY <2>1, Asking DEF n
<1>3. PICK m : /\ m[0] = Nothing /\ m[Len(t)] = FoldLeft(Measure, Nothing, t)
               /\ \A k \in 0..(Len(t) - 1) : m[k + 1] = Measure(m[k], t[k + 1])
  BY Measuring
<1>4. \A i \in Nat : i < Len(t) => m[i + 1] = Measure(m[i], At(t, i))
  <2>1. \A i \in Nat : i < Len(t) => i \in 0..(Len(t) - 1) /\ At(t, i) = t[i + 1]
    BY <1>1 DEF At
  <2> QED BY <1>3, <2>1
<1>5. ASSUME NEW p \in 1..n, Outside(m[from[p]], So(p))
      PROVE  Outside(m[from[p + 1]], So(p + 1))
  <2>1. /\ p \in 1..(n + 1) /\ p + 1 \in 1..(n + 1) /\ So(p) \in Int /\ So(p + 1) \in Int
        /\ items[p].star => So(p) = So(p + 1)
        /\ ~ items[p].star => So(p) + 1 = So(p + 1)
    <3>1. p \in 1..(n + 1) /\ p + 1 \in 1..(n + 1)
      BY <1>1
    <3>2. AskedFrom(items, p) \in Nat /\ AskedFrom(items, p + 1) \in Nat /\ Asked(items) \in Nat
      BY <1>2, <3>1
    <3>3. /\ items[p].star => AskedFrom(items, p) = AskedFrom(items, p + 1)
          /\ ~ items[p].star => AskedFrom(items, p) = AskedFrom(items, p + 1) + 1
      BY <1>2
    <3> QED BY <3>1, <3>2, <3>3, SMTT(30)
  <2>2. LaidItem(items, t, from, p)
    BY EachLaid, Zenon
  <2>3. from[p] \in Nat /\ from[p + 1] \in Nat /\ from[p + 1] <= Len(t)
    BY <2>2 DEF LaidItem
  <2>4. IsItem(items[p], C)
    OBVIOUS
  <2> HIDE DEF So, n
  <2>5. CASE ~ Bracketed(items[p])
    <3>1. /\ Len(items[p].spelled) = 1 /\ items[p].spelled[1] # Open
          /\ items[p].star <=> items[p].spelled[1] = Star
      BY <2>4, <2>5, ItemSpelled
    <3>2. At(t, from[p]) = items[p].spelled[1] /\ from[p + 1] = from[p] + 1
      BY <1>1, <3>1, AtShort DEF n
    <3>3. m[from[p + 1]] = Measure(m[from[p]], items[p].spelled[1])
      <4>1. from[p] < Len(t)
        BY <1>1, <2>3, <3>2
      <4> QED BY <1>4, <1>5, <2>3, <3>2, <4>1
    <3> QED BY <1>5, <2>1, <3>1, <3>3, MeasureOutside
  <2>6. CASE Bracketed(items[p])
    <3>1. PICK body : Brackets(items[p].spelled, body)
      BY <2>6 DEF Bracketed
    <3>2. /\ At(t, from[p]) = Open /\ At(t, from[p] + Len(body) + 1) = Close
          /\ \A k \in 1..Len(body) : At(t, from[p] + k) = body[k]
          /\ from[p + 1] = from[p] + Len(body) + 2
          /\ Len(body) \in Nat
      BY <1>1, <3>1, AtBracket DEF LaidBracket, n
    <3>3. \A k \in 1..Len(body) : body[k] # Close
      BY <3>1 DEF Brackets, IsBody
    <3> DEFINE l == Len(body)
               In(k) == Inside(m[from[p] + k], So(p))
               S == {k \in Nat : k <= l => In(k + 1)}
    <3>4. \A k \in 0..(l + 1) : from[p] + k \in Nat /\ from[p] + k < Len(t)
                                  /\ (from[p] + k) + 1 = from[p] + (k + 1)
      <4>1. from[p] \in Nat /\ l \in Nat /\ Len(t) \in Nat /\ from[p] + l + 2 <= Len(t)
        BY <1>1, <2>3, <3>2
      <4> HIDE DEF l
      <4> QED BY <4>1, InBetween, Zenon
    <3>5. 0 \in S
      <4>1. m[from[p] + (0 + 1)] = Measure(m[from[p]], Open)
        <5>1. from[p] + (0 + 1) = from[p] + 1 /\ from[p] < Len(t)
          BY <1>1, <2>3, <3>2
        <5> QED BY <1>4, <2>3, <3>2, <5>1
      <4>2. In(0 + 1)
        BY <1>5, <2>1, <4>1, MeasureOutside
      <4> HIDE DEF In
      <4> QED BY <4>2
    <3>6. ASSUME NEW k \in Nat, k \in S PROVE k + 1 \in S
      <4> SUFFICES ASSUME k + 1 <= l PROVE In((k + 1) + 1)
        <5> HIDE DEF In, l
        <5> QED OBVIOUS
      <4>1. k + 1 \in 1..l /\ k + 1 \in 0..(l + 1) /\ k <= l
        BY <3>2
      <4>2. In(k + 1)
        <5> HIDE DEF In, l
        <5> QED BY <3>6, <4>1
      <4>4. m[from[p] + ((k + 1) + 1)] = Measure(m[from[p] + (k + 1)], body[k + 1])
        <5>1. /\ from[p] + (k + 1) \in Nat /\ from[p] + (k + 1) < Len(t)
              /\ (from[p] + (k + 1)) + 1 = from[p] + ((k + 1) + 1)
          BY <3>4, <4>1
        <5>2. At(t, from[p] + (k + 1)) = body[k + 1]
          BY <3>2, <4>1
        <5>3. m[(from[p] + (k + 1)) + 1] = Measure(m[from[p] + (k + 1)], At(t, from[p] + (k + 1)))
          BY <1>4, <5>1
        <5> QED BY <5>1, <5>2, <5>3
      <4>5. body[k + 1] # Close
        BY <3>3, <4>1
      <4> QED BY <2>1, <4>2, <4>4, <4>5, MeasureInside
    <3>7. In(l + 1)
      <4>1. Nat \subseteq S
        <5> HIDE DEF S
        <5> QED BY <3>5, <3>6, InductionOverNat
      <4>2. l \in S
        <5> HIDE DEF S
        <5> QED BY <3>2, <4>1
      <4> HIDE DEF In
      <4> QED BY <3>2, <4>2
    <3>9. m[from[p + 1]] = Measure(m[from[p] + (l + 1)], Close)
      <4>1. l + 1 \in 0..(l + 1) /\ (l + 1) + 1 = l + 2 /\ from[p] + l + 1 = from[p] + (l + 1)
              /\ from[p] + (l + 2) = from[p] + l + 2
        BY <2>3, <3>2, SMTT(30)
      <4>2. /\ from[p] + (l + 1) \in Nat /\ from[p] + (l + 1) < Len(t)
            /\ (from[p] + (l + 1)) + 1 = from[p + 1]
        BY <3>2, <3>4, <4>1
      <4>3. At(t, from[p] + (l + 1)) = Close
        BY <3>2, <4>1
      <4> HIDE DEF l
      <4> QED BY <1>4, <4>2, <4>3
    <3>10. Outside(m[from[p + 1]], So(p) + 1)
      BY <2>1, <3>7, <3>9, MeasureInside
    <3>11. ~ items[p].star
      BY <2>6 DEF Bracketed
    <3> HIDE DEF l
    <3> QED BY <2>1, <3>10, <3>11
  <2> QED BY <2>5, <2>6
<1> DEFINE Known(k) == k + 1 \in 1..(n + 1) =>
                         Outside(m[from[k + 1]], So(k + 1))
           S == {k \in Nat : Known(k)}
<1>6. 0 \in S
  <2>1. So(1) = 0
    BY <1>2
  <2>2. Outside(m[from[0 + 1]], So(0 + 1))
    <3>1. 0 + 1 = 1 /\ m[from[1]] = Nothing
      BY <1>1, <1>3
    <3>2. Outside(Nothing, 0)
      BY DEF Nothing, Outside
    <3> HIDE DEF So
    <3> QED BY <2>1, <3>1, <3>2
  <2> HIDE DEF So
  <2> QED BY <2>2
<1>7. ASSUME NEW k \in Nat, k \in S PROVE k + 1 \in S
  <2> HIDE DEF So, n
  <2>0. Known(k)
    <3> HIDE DEF Known
    <3> QED BY <1>7
  <2> SUFFICES ASSUME (k + 1) + 1 \in 1..(n + 1)
               PROVE  Outside(m[from[(k + 1) + 1]], So((k + 1) + 1))
    <3>1. Known(k + 1) => k + 1 \in S
      <4> HIDE DEF Known
      <4> QED OBVIOUS
    <3> QED BY <3>1, Zenon
  <2>1. k + 1 \in 1..n /\ k + 1 \in 1..(n + 1)
    BY <1>1
  <2>2. Outside(m[from[k + 1]], So(k + 1))
    BY <2>0, <2>1
  <2> QED BY <1>5, <2>1, <2>2, Zenon
<1>8. n \in S
  <2>1. Nat \subseteq S
    <3> HIDE DEF S
    <3> QED BY <1>6, <1>7, InductionOverNat
  <2> HIDE DEF S
  <2> QED BY <1>1, <2>1
<1>9. Outside(m[from[n + 1]], So(n + 1))
  <2>1. n + 1 \in 1..(n + 1)
    BY <1>1
  <2> HIDE DEF So, n
  <2> QED BY <1>8, <2>1
<1>10. So(n + 1) = Asked(items)
  BY <1>2
<1> QED BY <1>1, <1>3, <1>9, <1>10
-----------------------------------------------------------------------------
\* What is left of the name must be long enough for the items that are left.
LEMMA RestNeeds ==
  ASSUME NEW Its, NEW items \in Seq(Its), NEW name, Len(name) \in Nat,
         NEW f, Obeys(f, items, name),
         NEW p \in 1..(Len(items) + 1), NEW j \in 1..(Len(name) + 1), f[p][j]
  PROVE  AskedFrom(items, p) + j <= Len(name) + 1
<1> DEFINE n == Len(items)
           l == Len(name)
           A(q) == AskedFrom(items, q)
           Needs(q) == \A k \in 1..(l + 1) : f[q][k] => A(q) + k <= l + 1
           Known(m) == \A q \in 1..(n + 1) : q + m = n + 1 => Needs(q)
           S == {m \in Nat : Known(m)}
<1>1. n \in Nat /\ l \in Nat
  OBVIOUS
<1>2. /\ \A q \in 1..(n + 1) : A(q) \in Nat
      /\ A(n + 1) = 0
      /\ \A q \in 1..n : /\ items[q].star => A(q) = A(q + 1)
                         /\ ~ items[q].star => A(q) = A(q + 1) + 1
  BY Asking
<1>3. \A q, k \in Nat : f[q][k] = Reads(f[q + 1], items, name, q, k)
  BY DEF Obeys
<1> HIDE DEF n, l, A
<1>4. 0 \in S
  <2>1. Needs(n + 1)
    BY <1>1, <1>2
  <2>2. Known(0)
    <3> HIDE DEF Needs
    <3>1. \A q \in 1..(n + 1) : q + 0 = n + 1 => q = n + 1
      BY <1>1
    <3> QED BY <2>1, <3>1
  <2> HIDE DEF Known
  <2> QED BY <2>2
<1>5. ASSUME NEW m \in Nat, m \in S PROVE m + 1 \in S
  <2>1. ASSUME NEW q \in 1..(n + 1), q + (m + 1) = n + 1 PROVE Needs(q)
    <3>1. q \in 1..n /\ q + 1 \in 1..(n + 1) /\ (q + 1) + m = n + 1 /\ q \in Nat /\ ~ (q > n)
      BY <1>1, <2>1
    <3>2. Needs(q + 1)
      <4>1. Known(m)
        <5> HIDE DEF Known
        <5> QED BY <1>5
      <4> HIDE DEF Needs
      <4> QED BY <3>1, <4>1
    <3> SUFFICES ASSUME NEW k \in 1..(l + 1), f[q][k] PROVE A(q) + k <= l + 1
      OBVIOUS
    <3>3. f[q][k] = Reads(f[q + 1], items, name, q, k)
      <4>1. q \in Nat /\ k \in Nat
        BY <1>1, <3>1
      <4> QED BY <1>3, <4>1, Zenon
    <3>4. A(q) \in Nat /\ A(q + 1) \in Nat
      BY <1>2, <3>1
    <3>5. CASE items[q].star
      <4>1. \E h \in k..(l + 1) : f[q + 1][h]
        BY <3>1, <3>3, <3>5 DEF Reads, n, l
      <4>2. PICK h \in k..(l + 1) : f[q + 1][h]
        BY <4>1
      <4>3. h \in 1..(l + 1)
        BY <1>1
      <4>4. A(q + 1) + h <= l + 1
        BY <3>2, <4>2, <4>3
      <4>5. A(q) = A(q + 1)
        BY <1>2, <3>1, <3>5
      <4> QED BY <1>1, <3>4, <4>4, <4>5
    <3>6. CASE ~ items[q].star
      <4>1. k <= l /\ f[q + 1][k + 1]
        BY <3>1, <3>3, <3>6 DEF Reads, n, l
      <4>2. k + 1 \in 1..(l + 1)
        BY <1>1, <4>1
      <4>3. A(q + 1) + (k + 1) <= l + 1
        BY <3>2, <4>1, <4>2
      <4>4. A(q) = A(q + 1) + 1
        BY <1>2, <3>1, <3>6
      <4> QED BY <1>1, <3>4, <4>3, <4>4
    <3> QED BY <3>5, <3>6
  <2>2. Known(m + 1)
    <3> HIDE DEF Needs
    <3> QED BY <2>1
  <2> HIDE DEF Known
  <2> QED BY <2>2
<1>6. (n + 1) - p \in S
  <2>1. Nat \subseteq S
    <3> HIDE DEF S
    <3> QED BY <1>4, <1>5, InductionOverNat
  <2>2. (n + 1) - p \in Nat
    BY <1>1 DEF n
  <2> HIDE DEF S
  <2> QED BY <2>1, <2>2
<1>7. Known((n + 1) - p)
  <2> HIDE DEF Known
  <2> QED BY <1>6
<1>8. p + ((n + 1) - p) = n + 1 /\ p \in 1..(n + 1)
  BY <1>1 DEF n
<1>9. Needs(p)
  <2> HIDE DEF Needs
  <2> QED BY <1>7, <1>8
<1>10. A(p) + j <= l + 1
  <2>1. j \in 1..(l + 1)
    BY DEF l
  <2> QED BY <1>9, <2>1
<1> QED BY <1>10 DEF A, l

\* The cases of a call of checkExp, by the character of the template.
LEMMA CallAt ==
  ASSUME NEW t, NEW s, NEW f, Called(f, t, s),
         NEW i \in Nat, NEW j \in Nat, NEW tempLen \in Nat, NEW openBr \in BOOLEAN
  PROVE  f[i][j][tempLen][openBr]
           = Call(f[i + 1], f[AfterBracket(t, i)], t, s, i, j, tempLen, openBr)
<1>1. tempLen \in Int
  OBVIOUS
<1> QED BY <1>1, Zenon DEF Called

LEMMA StarCall ==
  ASSUME NEW u, NEW v, NEW t, NEW s, NEW i, NEW j, NEW tempLen, NEW openBr,
         At(t, i) = Star
  PROVE  Call(u, v, t, s, i, j, tempLen, openBr) <=>
           \E k \in 0..(strlen(s, j) - tempLen) :
             At(t, i + 1) = NUL \/ u[j + k][tempLen][openBr]
BY DEF Call, NUL, Star, Mark, Open

LEMMA MarkCall ==
  ASSUME NEW u, NEW v, NEW t, NEW s, NEW i, NEW j, NEW tempLen, NEW openBr,
         At(t, i) = Mark
  PROVE  Call(u, v, t, s, i, j, tempLen, openBr) <=> u[j + 1][tempLen - 1][openBr]
BY DEF Call, NUL, Star, Mark, Open

LEMMA BracketCall ==
  ASSUME NEW u, NEW v, NEW t, NEW s, NEW i, NEW j, NEW tempLen, NEW openBr,
         At(t, i) = Open, ~ openBr
  PROVE  Call(u, v, t, s, i, j, tempLen, openBr) <=>
           InBracket(t, i + 1, At(s, j)) /\ v[j + 1][tempLen - 1][TRUE]
BY DEF Call, NUL, Star, Mark, Open

LEMMA PlainCall ==
  ASSUME NEW u, NEW v, NEW t, NEW s, NEW i, NEW j, NEW tempLen, NEW openBr,
         At(t, i) \notin {NUL, Star, Mark, Open}
  PROVE  Call(u, v, t, s, i, j, tempLen, openBr) <=>
           At(t, i) = At(s, j) /\ u[j + 1][tempLen - 1][FALSE]
BY DEF Call, NUL, Star, Mark, Open

\* NUL is not a character of an item.
LEMMA NoNul ==
  ASSUME NEW C, NEW it, IsItem(it, C)
  PROVE  it.spelled[1] # NUL
<1>1. NUL # Star /\ NUL # Mark /\ NUL # Open
  BY DEF NUL, Star, Mark, Open
<1>2. CASE Starred(it) \/ Marked(it, C) \/ Plain(it)
  BY <1>1, <1>2 DEF Starred, Marked, Plain
<1>3. CASE Bracketed(it)
  <2>1. it.spelled[1] = Open
    BY <1>3, ItemSpelled
  <2> QED BY <1>1, <2>1
<1> QED BY <1>2, <1>3 DEF IsItem

LEMMA NoNulInBody == ASSUME NEW body, IsBody(body) PROVE NUL \notin BodySet(body)
<1>1. \A k \in 1..Len(body) : body[k] \in Nat /\ body[k] > NUL
  BY DEF IsBody, NUL
<1>2. ASSUME NEW k \in 1..Len(body), Stands(body, k, NUL) PROVE FALSE
  <2>1. body[k] # NUL
    BY <1>1 DEF NUL
  <2>2. CASE body[k] = Dash
    <3>1. 1 < k /\ k < Len(body)
      BY <2>2 DEF IsBody
    <3>2. k - 1 \in 1..Len(body) /\ k + 1 \in 1..Len(body)
      BY <3>1
    <3>3. NUL \in body[k - 1]..body[k + 1]
      BY <1>2, <2>1, <2>2 DEF Stands
    <3>4. body[k - 1] \in Nat /\ body[k - 1] > NUL /\ body[k + 1] \in Nat
      BY <1>1, <3>2
    <3> QED BY <3>3, <3>4 DEF NUL
  <2>3. CASE body[k] # Dash
    BY <1>2, <2>1, <2>3 DEF Stands
  <2> QED BY <2>2, <2>3
<1> QED BY <1>2 DEF BodySet

(***************************************************************************)
(* From item p on.  Ready: there is a plain character before the next      *)
(* bracket.  Room: a question mark does not step over the end of the name. *)
(***************************************************************************)
Ready(items, p) ==
  \A k \in p..Len(items) : items[k].spelled[1] = Open =>
    \E i \in p..(k - 1) : items[i].spelled[1] \notin {Star, Mark, Open}

Room(items, name, p, j) ==
  \/ \A k \in p..Len(items) : items[k].spelled[1] # Mark
  \/ j + AskedFrom(items, p) <= Len(name)

\* checkExp, from item p on, and Accepts agree.
Agree(chk, f, items, name, from, p) ==
  \A j \in 0..Len(name) : \A openBr \in BOOLEAN :
    (openBr => Ready(items, p)) /\ Room(items, name, p, j) =>
      (chk[from[p]][j][AskedFrom(items, p)][openBr] <=> f[p][j + 1])

\* What the two have to do with each other: chk is checkExp(t, s), f the function of Accepts.
Setting(C, Its, items, name, t, s, from, chk, f) ==
  /\ C \subseteq Nat \ {NUL} /\ items \in Seq(Its) /\ \A it \in Its : IsItem(it, C)
  /\ name \in Seq(C) /\ InMemory(name, s)
  /\ t \in Seq(Nat) /\ Laid(items, t, from)
  /\ Called(chk, t, s) /\ Obeys(f, items, name)

\* What a step from item p to the next one needs of it.
LEMMA Step ==
  ASSUME NEW C, NEW Its, NEW items, NEW name, NEW t, NEW s, NEW from, NEW chk, NEW f,
         Setting(C, Its, items, name, t, s, from, chk, f), NEW p \in 1..Len(items)
  PROVE  /\ p \in 1..(Len(items) + 1) /\ p + 1 \in 1..(Len(items) + 1)
         /\ Len(items) \in Nat /\ Len(name) \in Nat /\ Len(t) \in Nat
         /\ p \in Nat /\ ~ (p > Len(items))
         /\ IsItem(items[p], C) /\ LaidItem(items, t, from, p)
         /\ from[p] \in Nat /\ from[p + 1] \in Nat
         /\ AskedFrom(items, p) \in Nat /\ AskedFrom(items, p + 1) \in Nat
         /\ items[p].star => AskedFrom(items, p) = AskedFrom(items, p + 1)
         /\ ~ items[p].star => AskedFrom(items, p) = AskedFrom(items, p + 1) + 1
         /\ \A j \in Nat : j < Len(name) =>
              At(s, j) = name[j + 1] /\ name[j + 1] \in C /\ name[j + 1] \in Nat \ {NUL}
         /\ At(s, Len(name)) = NUL
<1>1. Len(items) \in Nat /\ Len(name) \in Nat /\ Len(t) \in Nat /\ items \in Seq(Its)
  BY DEF Setting
<1>2. p \in 1..(Len(items) + 1) /\ p + 1 \in 1..(Len(items) + 1) /\ p \in Nat /\ ~ (p > Len(items))
  BY <1>1
<1>3. items[p] \in Its /\ IsItem(items[p], C)
  BY <1>1 DEF Setting
<1>4. LaidItem(items, t, from, p) /\ from[p] \in Nat /\ from[p + 1] \in Nat
  <2>1. LaidItem(items, t, from, p)
    BY <1>1, EachLaid, Zenon DEF Setting
  <2> QED BY <2>1 DEF LaidItem
<1>5. /\ AskedFrom(items, p) \in Nat /\ AskedFrom(items, p + 1) \in Nat
      /\ items[p].star => AskedFrom(items, p) = AskedFrom(items, p + 1)
      /\ ~ items[p].star => AskedFrom(items, p) = AskedFrom(items, p + 1) + 1
  BY <1>1, <1>2, Asking
<1>6. \A j \in Nat : j < Len(name) =>
        At(s, j) = name[j + 1] /\ name[j + 1] \in C /\ name[j + 1] \in Nat \ {NUL}
  <2>1. InMemory(name, s) /\ name \in Seq(C)
    BY DEF Setting
  <2>2. \A j \in Nat : j < Len(name) => j + 1 \in 1..Len(name)
    BY <1>1
  <2>3. \A k \in 1..Len(name) : name[k] \in C
    BY <2>1
  <2> QED BY <2>1, <2>2, <2>3 DEF InMemory
<1>7. At(s, Len(name)) = NUL
  BY DEF Setting, InMemory
<1> QED BY <1>1, <1>2, <1>3, <1>4, <1>5, <1>6, <1>7

\* What holds from item p on holds from the next one on, too.
LEMMA Onwards ==
  ASSUME NEW items, Len(items) \in Nat, NEW name, Len(name) \in Nat, NEW p \in 1..Len(items),
         AskedFrom(items, p) \in Nat, AskedFrom(items, p + 1) \in Nat, NEW j \in Nat
  PROVE  /\ Ready(items, p) /\ items[p].spelled[1] \in {Star, Mark, Open} => Ready(items, p + 1)
         /\ Room(items, name, p, j) /\ AskedFrom(items, p) = AskedFrom(items, p + 1) + 1 =>
              Room(items, name, p + 1, j + 1)
<1>1. \A k \in (p + 1)..Len(items) : k \in p..Len(items)
  OBVIOUS
<1>2. ASSUME Ready(items, p), items[p].spelled[1] \in {Star, Mark, Open}
      PROVE  Ready(items, p + 1)
  <2> SUFFICES ASSUME NEW k \in (p + 1)..Len(items), items[k].spelled[1] = Open
               PROVE  \E i \in (p + 1)..(k - 1) : items[i].spelled[1] \notin {Star, Mark, Open}
    BY DEF Ready
  <2>1. PICK i \in p..(k - 1) : items[i].spelled[1] \notin {Star, Mark, Open}
    BY <1>1, <1>2 DEF Ready
  <2>2. i # p
    BY <1>2, <2>1
  <2>3. i \in (p + 1)..(k - 1)
    BY <2>2
  <2> QED BY <2>1, <2>3
<1>3. ASSUME Room(items, name, p, j), AskedFrom(items, p) = AskedFrom(items, p + 1) + 1
      PROVE  Room(items, name, p + 1, j + 1)
  <2>1. CASE \A k \in p..Len(items) : items[k].spelled[1] # Mark
    BY <1>1, <2>1 DEF Room
  <2>2. CASE j + AskedFrom(items, p) <= Len(name)
    <3>1. (j + 1) + AskedFrom(items, p + 1) <= Len(name)
      BY <1>3, <2>2
    <3> QED BY <3>1 DEF Room
  <2> QED BY <1>3, <2>1, <2>2 DEF Room
<1> QED BY <1>2, <1>3

\* A star.
LEMMA StarAgrees ==
  ASSUME NEW C, NEW Its, NEW items, NEW name, NEW t, NEW s, NEW from, NEW chk, NEW f,
         Setting(C, Its, items, name, t, s, from, chk, f), NEW p \in 1..Len(items),
         items[p].star, Agree(chk, f, items, name, from, p + 1)
  PROVE  Agree(chk, f, items, name, from, p)
<1> DEFINE n == Len(items)
           l == Len(name)
           A(q) == AskedFrom(items, q)
<1>1. /\ p \in 1..(n + 1) /\ p + 1 \in 1..(n + 1) /\ n \in Nat /\ l \in Nat /\ Len(t) \in Nat
      /\ p \in Nat /\ ~ (p > n) /\ IsItem(items[p], C) /\ from[p] \in Nat /\ from[p + 1] \in Nat
      /\ A(p) \in Nat /\ A(p + 1) \in Nat /\ A(p) = A(p + 1)
  BY Step
<1>2. /\ items \in Seq(Its) /\ InMemory(name, s) /\ Laid(items, t, from)
      /\ Obeys(f, items, name) /\ \A it \in Its : IsItem(it, C)
  BY DEF Setting
<1>3. items[p].spelled[1] = Star /\ Len(items[p].spelled) = 1
  <2>1. ~ Bracketed(items[p])
    BY DEF Bracketed
  <2> QED BY <1>1, <2>1, ItemSpelled
<1>4. At(t, from[p]) = Star /\ from[p + 1] = from[p] + 1
  BY <1>1, <1>2, <1>3, AtShort
<1>5. At(t, from[p + 1]) = NUL => p = n
  <2> SUFFICES ASSUME p # n PROVE At(t, from[p + 1]) # NUL
    OBVIOUS
  <2>1. p + 1 \in 1..n /\ items[p + 1] \in Its /\ IsItem(items[p + 1], C)
    BY <1>1, <1>2
  <2>2. /\ items[p + 1].spelled \in Seq(Nat) /\ Len(items[p + 1].spelled) \in Nat \ {0}
        /\ items[p + 1].spelled[1] # NUL
    BY <2>1, ItemSpelled, NoNul
  <2>3. LaidItem(items, t, from, p + 1)
    BY <1>2, <2>1, EachLaid, Zenon
  <2>4. /\ from[p + 1] < Len(t) /\ t[from[p + 1] + 1] = items[p + 1].spelled[1]
    <3>1. 1 \in 1..Len(items[p + 1].spelled)
      BY <2>2
    <3>2. t[from[p + 1] + 1] = items[p + 1].spelled[1]
      BY <2>3, <3>1, Zenon DEF LaidItem
    <3>3. /\ from[p + 1] \in Nat /\ from[(p + 1) + 1] <= Len(t)
          /\ from[(p + 1) + 1] = from[p + 1] + Len(items[p + 1].spelled)
      BY <2>3, Zenon DEF LaidItem
    <3>4. from[p + 1] < Len(t)
      BY <1>1, <2>2, <3>3
    <3> QED BY <3>2, <3>4
  <2> QED BY <2>2, <2>4 DEF At
<1> SUFFICES ASSUME NEW j \in 0..l, NEW openBr \in BOOLEAN, openBr => Ready(items, p),
                    Room(items, name, p, j)
             PROVE  chk[from[p]][j][A(p)][openBr] <=> f[p][j + 1]
  BY DEF Agree
<1> HIDE DEF n, l, A
<1>6. /\ j \in Nat /\ j + 1 \in Nat /\ j <= l /\ l \in Nat
      /\ A(p) \in Nat /\ A(p + 1) = A(p)
  BY <1>1
<1>7. chk[from[p]][j][A(p)][openBr] <=>
        \E k \in 0..(strlen(s, j) - A(p)) :
          At(t, from[p] + 1) = NUL \/ chk[from[p] + 1][j + k][A(p)][openBr]
  <2>1. chk[from[p]][j][A(p)][openBr]
          = Call(chk[from[p] + 1], chk[AfterBracket(t, from[p])], t, s, from[p], j, A(p), openBr)
    <3>1. Called(chk, t, s)
      BY DEF Setting
    <3>2. from[p] \in Nat /\ A(p) \in Nat /\ j \in Nat /\ openBr \in BOOLEAN
      BY <1>1, <1>6
    <3>3. A(p) \in Int
      BY <3>2
    <3> QED BY <3>1, <3>2, <3>3, ZenonT(60) DEF Called
  <2>2. Call(chk[from[p] + 1], chk[AfterBracket(t, from[p])], t, s, from[p], j, A(p), openBr) <=>
          \E k \in 0..(strlen(s, j) - A(p)) :
            At(t, from[p] + 1) = NUL \/ chk[from[p] + 1][j + k][A(p)][openBr]
    BY <1>4, StarCall
  <2> QED BY <2>1, <2>2, Zenon
<1>8. strlen(s, j) = l - j
  BY <1>2, <1>6, StrLen DEF l
<1>9. f[p][j + 1] <=> \E k \in (j + 1)..(l + 1) : f[p + 1][k]
  <2>1. f[p][j + 1] = Reads(f[p + 1], items, name, p, j + 1)
    BY <1>1, <1>2, <1>6 DEF Obeys
  <2> QED BY <1>1, <2>1 DEF Reads, n, l
<1>10. ASSUME NEW k \in 0..((l - j) - A(p))
       PROVE  chk[from[p + 1]][j + k][A(p)][openBr] <=> f[p + 1][(j + k) + 1]
  <2>1. j + k \in 0..l /\ (j + k) + A(p + 1) <= l
    BY <1>6
  <2>2. Room(items, name, p + 1, j + k)
    BY <2>1 DEF Room, A, l
  <2>3. openBr => Ready(items, p + 1)
    BY <1>1, <1>3, Onwards DEF A, n, l
  <2>4. chk[from[p + 1]][j + k][A(p + 1)][openBr] <=> f[p + 1][(j + k) + 1]
    BY <2>1, <2>2, <2>3 DEF Agree, A, l
  <2> QED BY <1>1, <2>4
<1>11. ASSUME chk[from[p]][j][A(p)][openBr] PROVE f[p][j + 1]
  <2>1. PICK k \in 0..((l - j) - A(p)) :
          At(t, from[p + 1]) = NUL \/ chk[from[p + 1]][j + k][A(p)][openBr]
    BY <1>4, <1>7, <1>8, <1>11
  <2>2. CASE At(t, from[p + 1]) = NUL
    <3>1. p = n
      BY <1>5, <2>2
    <3>2. f[p + 1][l + 1]
      <4>1. f[p + 1][l + 1] = Reads(f[(p + 1) + 1], items, name, p + 1, l + 1)
        <5>1. p + 1 \in Nat /\ l + 1 \in Nat
          BY <1>1
        <5> QED BY <1>2, <5>1, Zenon DEF Obeys
      <4>2. p + 1 > n /\ l + 1 > l
        BY <1>1, <3>1
      <4> QED BY <4>1, <4>2 DEF Reads, n, l
    <3>3. l + 1 \in (j + 1)..(l + 1)
      BY <1>1, <1>6
    <3> QED BY <1>9, <3>2, <3>3
  <2>3. CASE chk[from[p + 1]][j + k][A(p)][openBr]
    <3>1. f[p + 1][(j + k) + 1]
      BY <1>10, <2>3
    <3>2. (j + k) + 1 \in (j + 1)..(l + 1)
      BY <1>6
    <3> QED BY <1>9, <3>1, <3>2
  <2> QED BY <2>1, <2>2, <2>3
<1>12. ASSUME f[p][j + 1] PROVE chk[from[p]][j][A(p)][openBr]
  <2>1. PICK h \in (j + 1)..(l + 1) : f[p + 1][h]
    BY <1>9, <1>12
  <2>2. A(p + 1) + h <= l + 1
    <3>1. h \in 1..(l + 1)
      BY <1>1, <1>6
    <3> QED BY <1>1, <1>2, <2>1, <3>1, RestNeeds DEF n, l, A
  <2> DEFINE k == (h - 1) - j
  <2>3. k \in 0..((l - j) - A(p)) /\ (j + k) + 1 = h
    BY <1>1, <1>6, <2>2
  <2> HIDE DEF k
  <2>4. chk[from[p + 1]][j + k][A(p)][openBr]
    BY <1>10, <2>1, <2>3
  <2> QED BY <1>4, <1>7, <1>8, <2>3, <2>4
<1> QED BY <1>11, <1>12

\* An item that is no star takes one character.
LEMMA ReadsItem ==
  ASSUME NEW C, NEW Its, NEW items, NEW name, NEW t, NEW s, NEW from, NEW chk, NEW f,
         Setting(C, Its, items, name, t, s, from, chk, f), NEW p \in 1..Len(items),
         ~ items[p].star, NEW j \in Nat
  PROVE  f[p][j + 1] <=>
           j < Len(name) /\ name[j + 1] \in items[p].set /\ f[p + 1][(j + 1) + 1]
<1>1. p \in Nat /\ ~ (p > Len(items)) /\ Len(name) \in Nat
  BY Step
<1>2. f[p][j + 1] = Reads(f[p + 1], items, name, p, j + 1)
  <2>1. Obeys(f, items, name)
    BY DEF Setting
  <2>2. j + 1 \in Nat
    OBVIOUS
  <2> QED BY <1>1, <2>1, <2>2 DEF Obeys
<1>3. j + 1 <= Len(name) <=> j < Len(name)
  BY <1>1
<1> QED BY <1>1, <1>2, <1>3 DEF Reads

\* A question mark.
LEMMA MarkAgrees ==
  ASSUME NEW C, NEW Its, NEW items, NEW name, NEW t, NEW s, NEW from, NEW chk, NEW f,
         Setting(C, Its, items, name, t, s, from, chk, f), NEW p \in 1..Len(items),
         Marked(items[p], C), Agree(chk, f, items, name, from, p + 1)
  PROVE  Agree(chk, f, items, name, from, p)
<1> DEFINE n == Len(items)
           l == Len(name)
           A(q) == AskedFrom(items, q)
<1>0. ~ items[p].star
  BY DEF Marked, Plain, Bracketed
<1>1. /\ p \in 1..(n + 1) /\ p + 1 \in 1..(n + 1) /\ n \in Nat /\ l \in Nat /\ Len(t) \in Nat
      /\ IsItem(items[p], C) /\ from[p] \in Nat /\ from[p + 1] \in Nat
      /\ A(p) \in Nat /\ A(p + 1) \in Nat /\ A(p) = A(p + 1) + 1
      /\ \A j \in Nat : j < l =>
           At(s, j) = name[j + 1] /\ name[j + 1] \in C /\ name[j + 1] \in Nat \ {NUL}
      /\ At(s, l) = NUL
  BY <1>0, Step
<1>2. items \in Seq(Its) /\ Laid(items, t, from) /\ Called(chk, t, s)
  BY DEF Setting
<1>3. items[p].spelled[1] = Mark /\ Len(items[p].spelled) = 1 /\ C \subseteq items[p].set
  <2>1. items[p].spelled = <<Mark>> /\ C \subseteq items[p].set
    BY DEF Marked
  <2> QED BY <2>1
<1>4. At(t, from[p]) = Mark /\ from[p + 1] = from[p] + 1
  BY <1>1, <1>2, <1>3, AtShort
<1> SUFFICES ASSUME NEW j \in 0..l, NEW openBr \in BOOLEAN, openBr => Ready(items, p),
                    Room(items, name, p, j)
             PROVE  chk[from[p]][j][A(p)][openBr] <=> f[p][j + 1]
  BY DEF Agree
<1>5. j \in Nat /\ j <= l
  BY <1>1
<1>6. f[p][j + 1] <=> j < l /\ name[j + 1] \in items[p].set /\ f[p + 1][(j + 1) + 1]
  BY <1>0, <1>5, ReadsItem
<1> HIDE DEF n, l, A
<1>7. A(p) - 1 = A(p + 1)
  BY <1>1
<1>8. chk[from[p]][j][A(p)][openBr]
        = Call(chk[from[p] + 1], chk[AfterBracket(t, from[p])], t, s, from[p], j, A(p), openBr)
  <2>1. from[p] \in Nat /\ A(p) \in Nat /\ j \in Nat /\ openBr \in BOOLEAN
    BY <1>1, <1>5
  <2>2. A(p) \in Int
    BY <2>1
  <2> QED BY <1>2, <2>1, <2>2, Zenon DEF Called
<1>9. Room(items, name, p + 1, j + 1)
  BY <1>1, <1>5, Onwards DEF A, n, l
<1>10. openBr => Ready(items, p + 1)
  BY <1>1, <1>3, Onwards DEF A, n, l
<1>11. j < l
  <2>1. j + A(p) <= l
    <3>1. p \in p..n
      BY <1>1 DEF n
    <3> QED BY <1>3, <3>1 DEF Room, A, n, l
  <2> QED BY <1>1, <1>5, <2>1
<1>12. chk[from[p + 1]][j + 1][A(p + 1)][openBr] <=> f[p + 1][(j + 1) + 1]
  <2>1. j + 1 \in 0..l
    BY <1>1, <1>5, <1>11
  <2> QED BY <1>9, <1>10, <2>1 DEF Agree, A, l
<1>13. chk[from[p]][j][A(p)][openBr] <=> chk[from[p] + 1][j + 1][A(p) - 1][openBr]
  <2>1. Call(chk[from[p] + 1], chk[AfterBracket(t, from[p])], t, s, from[p], j, A(p), openBr)
          <=> chk[from[p] + 1][j + 1][A(p) - 1][openBr]
    BY <1>4, MarkCall
  <2> QED BY <1>8, <2>1, Zenon
<1>14. name[j + 1] \in items[p].set
  BY <1>1, <1>3, <1>5, <1>11
<1> QED BY <1>4, <1>6, <1>7, <1>11, <1>12, <1>13, <1>14

\* A plain character.
LEMMA PlainAgrees ==
  ASSUME NEW C, NEW Its, NEW items, NEW name, NEW t, NEW s, NEW from, NEW chk, NEW f,
         Setting(C, Its, items, name, t, s, from, chk, f), NEW p \in 1..Len(items),
         Plain(items[p]), Agree(chk, f, items, name, from, p + 1)
  PROVE  Agree(chk, f, items, name, from, p)
<1> DEFINE n == Len(items)
           l == Len(name)
           A(q) == AskedFrom(items, q)
<1>0. ~ items[p].star
  BY DEF Marked, Plain, Bracketed
<1>1. /\ p \in 1..(n + 1) /\ p + 1 \in 1..(n + 1) /\ n \in Nat /\ l \in Nat /\ Len(t) \in Nat
      /\ IsItem(items[p], C) /\ from[p] \in Nat /\ from[p + 1] \in Nat
      /\ A(p) \in Nat /\ A(p + 1) \in Nat /\ A(p) = A(p + 1) + 1
      /\ \A j \in Nat : j < l =>
           At(s, j) = name[j + 1] /\ name[j + 1] \in C /\ name[j + 1] \in Nat \ {NUL}
      /\ At(s, l) = NUL
  BY <1>0, Step
<1>2. items \in Seq(Its) /\ Laid(items, t, from) /\ Called(chk, t, s)
  BY DEF Setting
<1>3. PICK ch \in Nat \ {NUL, Star, Mark, Open} :
         items[p].spelled = <<ch>> /\ items[p].set = {ch}
  BY DEF Plain
<1>4. At(t, from[p]) = ch /\ from[p + 1] = from[p] + 1
  <2>1. Len(items[p].spelled) = 1 /\ items[p].spelled[1] = ch
    BY <1>3
  <2> QED BY <1>1, <1>2, <2>1, AtShort
<1> SUFFICES ASSUME NEW j \in 0..l, NEW openBr \in BOOLEAN, openBr => Ready(items, p),
                    Room(items, name, p, j)
             PROVE  chk[from[p]][j][A(p)][openBr] <=> f[p][j + 1]
  BY DEF Agree
<1>5. j \in Nat /\ j <= l
  BY <1>1
<1>6. f[p][j + 1] <=> j < l /\ name[j + 1] \in items[p].set /\ f[p + 1][(j + 1) + 1]
  BY <1>0, <1>5, ReadsItem
<1> HIDE DEF n, l, A
<1>7. A(p) - 1 = A(p + 1)
  BY <1>1
<1>8. chk[from[p]][j][A(p)][openBr]
        = Call(chk[from[p] + 1], chk[AfterBracket(t, from[p])], t, s, from[p], j, A(p), openBr)
  <2>1. from[p] \in Nat /\ A(p) \in Nat /\ j \in Nat /\ openBr \in BOOLEAN
    BY <1>1, <1>5
  <2>2. A(p) \in Int
    BY <2>1
  <2> QED BY <1>2, <2>1, <2>2, Zenon DEF Called
<1>9. Room(items, name, p + 1, j + 1)
  BY <1>1, <1>5, Onwards DEF A, n, l
<1>10. chk[from[p]][j][A(p)][openBr] <=> ch = At(s, j) /\ chk[from[p] + 1][j + 1][A(p) - 1][FALSE]
  <2>1. Call(chk[from[p] + 1], chk[AfterBracket(t, from[p])], t, s, from[p], j, A(p), openBr)
          <=> At(t, from[p]) = At(s, j) /\ chk[from[p] + 1][j + 1][A(p) - 1][FALSE]
    BY <1>4, PlainCall, ZenonT(60)
  <2> QED BY <1>4, <1>8, <2>1
<1>11. CASE j < l
  <2>1. chk[from[p + 1]][j + 1][A(p + 1)][FALSE] <=> f[p + 1][(j + 1) + 1]
    <3>1. j + 1 \in 0..l
      BY <1>1, <1>5, <1>11, SMTT(30)
    <3> QED BY <1>9, <3>1 DEF Agree, A, l
  <2>2. At(s, j) = name[j + 1]
    BY <1>1, <1>5, <1>11
  <2> QED BY <1>3, <1>4, <1>6, <1>7, <1>10, <1>11, <2>1, <2>2
<1>12. CASE ~ (j < l)
  <2>1. At(s, j) = NUL
    <3>1. j = l
      BY <1>1, <1>5, <1>12
    <3> QED BY <1>1, <3>1
  <2>2. ch # NUL
    OBVIOUS
  <2> QED BY <1>6, <1>10, <1>12, <2>1, <2>2
<1> QED BY <1>11, <1>12

\* A bracket.
LEMMA BracketAgrees ==
  ASSUME NEW C, NEW Its, NEW items, NEW name, NEW t, NEW s, NEW from, NEW chk, NEW f,
         Setting(C, Its, items, name, t, s, from, chk, f), NEW p \in 1..Len(items),
         Bracketed(items[p]), BracketsApart(items), Agree(chk, f, items, name, from, p + 1)
  PROVE  Agree(chk, f, items, name, from, p)
<1> DEFINE n == Len(items)
           l == Len(name)
           A(q) == AskedFrom(items, q)
<1>0. ~ items[p].star
  BY DEF Marked, Plain, Bracketed
<1>1. /\ p \in 1..(n + 1) /\ p + 1 \in 1..(n + 1) /\ n \in Nat /\ l \in Nat /\ Len(t) \in Nat
      /\ IsItem(items[p], C) /\ from[p] \in Nat /\ from[p + 1] \in Nat
      /\ A(p) \in Nat /\ A(p + 1) \in Nat /\ A(p) = A(p + 1) + 1
      /\ \A j \in Nat : j < l =>
           At(s, j) = name[j + 1] /\ name[j + 1] \in C /\ name[j + 1] \in Nat \ {NUL}
      /\ At(s, l) = NUL
  BY <1>0, Step
<1>2. items \in Seq(Its) /\ Laid(items, t, from) /\ Called(chk, t, s)
  BY DEF Setting
<1>3. PICK body : Brackets(items[p].spelled, body) /\ items[p].set = BodySet(body)
  BY DEF Bracketed
<1>4. /\ At(t, from[p]) = Open /\ At(t, from[p] + Len(body) + 1) = Close
      /\ \A k \in 1..Len(body) : At(t, from[p] + k) = body[k]
      /\ AfterBracket(t, from[p]) = from[p + 1]
      /\ items[p].spelled[1] = Open /\ IsBody(body)
  <2>1. items[p].spelled[1] = Open /\ IsBody(body)
    BY <1>3, BracketSpelled DEF Brackets
  <2>2. items \in Seq(Its) /\ Len(t) \in Nat /\ Laid(items, t, from)
          /\ Brackets(items[p].spelled, body)
    BY <1>1, <1>2, <1>3
  <2>3. LaidBracket(t, from[p], body, from[p + 1])
    BY <2>2, AtBracket, Zenon
  <2> QED BY <2>1, <2>3 DEF LaidBracket
<1> SUFFICES ASSUME NEW j \in 0..l, NEW openBr \in BOOLEAN, openBr => Ready(items, p),
                    Room(items, name, p, j)
             PROVE  chk[from[p]][j][A(p)][openBr] <=> f[p][j + 1]
  BY DEF Agree
<1>5. j \in Nat /\ j <= l
  BY <1>1
<1>6. f[p][j + 1] <=> j < l /\ name[j + 1] \in items[p].set /\ f[p + 1][(j + 1) + 1]
  BY <1>0, <1>5, ReadsItem
<1> HIDE DEF n, l, A
<1>7. A(p) - 1 = A(p + 1)
  BY <1>1
<1>8. chk[from[p]][j][A(p)][openBr]
        = Call(chk[from[p] + 1], chk[AfterBracket(t, from[p])], t, s, from[p], j, A(p), openBr)
  <2>1. from[p] \in Nat /\ A(p) \in Nat /\ j \in Nat /\ openBr \in BOOLEAN
    BY <1>1, <1>5
  <2>2. A(p) \in Int
    BY <2>1
  <2> QED BY <1>2, <2>1, <2>2, Zenon DEF Called
<1>9. Room(items, name, p + 1, j + 1)
  BY <1>1, <1>5, Onwards DEF A, n, l
<1>10. ~ openBr
  <2>1. p \in p..Len(items) /\ p..(p - 1) = {}
    BY <1>1 DEF n
  <2>2. ~ Ready(items, p)
    BY <1>4, <2>1 DEF Ready
  <2> QED BY <2>2
<1>11. Ready(items, p + 1)
  <2> SUFFICES ASSUME NEW k \in (p + 1)..Len(items), items[k].spelled[1] = Open
               PROVE  \E i \in (p + 1)..(k - 1) : items[i].spelled[1] \notin {Star, Mark, Open}
    BY DEF Ready
  <2>1. k \in DOMAIN items /\ p \in DOMAIN items /\ p < k
    BY <1>1, <1>2 DEF n
  <2> QED BY <1>4, <2>1, Zenon DEF BracketsApart
<1>12. chk[from[p]][j][A(p)][openBr] <=>
         At(s, j) \in items[p].set /\ chk[from[p + 1]][j + 1][A(p + 1)][TRUE]
  <2>1. Call(chk[from[p] + 1], chk[AfterBracket(t, from[p])], t, s, from[p], j, A(p), openBr)
          <=> /\ InBracket(t, from[p] + 1, At(s, j))
              /\ chk[AfterBracket(t, from[p])][j + 1][A(p) - 1][TRUE]
    BY <1>4, <1>10, BracketCall
  <2>2. At(s, j) \in Nat
    <3>1. CASE j < l
      BY <1>1, <1>5, <3>1
    <3>2. CASE ~ (j < l)
      <4>1. j = l
        BY <1>1, <1>5, <3>2
      <4> QED BY <1>1, <4>1 DEF NUL
    <3> QED BY <3>1, <3>2
  <2>3. InBracket(t, from[p] + 1, At(s, j)) <=> At(s, j) \in BodySet(body)
    BY <1>1, <1>4, <2>2, BracketReads
  <2> QED BY <1>3, <1>4, <1>7, <1>8, <2>1, <2>3
<1>13. CASE j < l
  <2>1. chk[from[p + 1]][j + 1][A(p + 1)][TRUE] <=> f[p + 1][(j + 1) + 1]
    <3>1. j + 1 \in 0..l
      BY <1>1, <1>5, <1>13
    <3> QED BY <1>9, <1>11, <3>1 DEF Agree, A, l
  <2>2. At(s, j) = name[j + 1]
    BY <1>1, <1>5, <1>13
  <2> QED BY <1>6, <1>12, <1>13, <2>1, <2>2
<1>14. CASE ~ (j < l)
  <2>1. At(s, j) = NUL
    <3>1. j = l
      BY <1>1, <1>5, <1>14
    <3> QED BY <1>1, <3>1
  <2>2. NUL \notin items[p].set
    BY <1>3, <1>4, NoNulInBody
  <2> QED BY <1>6, <1>12, <1>14, <2>1, <2>2
<1> QED BY <1>13, <1>14

\* The two agree from every item on.
LEMMA AllAgree ==
  ASSUME NEW C, NEW Its, NEW items, NEW name, NEW t, NEW s, NEW from, NEW chk, NEW f,
         Setting(C, Its, items, name, t, s, from, chk, f), BracketsApart(items)
  PROVE  Agree(chk, f, items, name, from, 1)
<1> DEFINE n == Len(items)
           l == Len(name)
           Known(m) == \A p \in 1..(n + 1) : p + m = n + 1 => Agree(chk, f, items, name, from, p)
           S == {m \in Nat : Known(m)}
<1>1. /\ items \in Seq(Its) /\ n \in Nat /\ l \in Nat /\ Len(t) \in Nat
      /\ InMemory(name, s) /\ Laid(items, t, from) /\ Called(chk, t, s) /\ Obeys(f, items, name)
      /\ \A it \in Its : IsItem(it, C)
  BY DEF Setting
<1>2. Agree(chk, f, items, name, from, n + 1)
  <2> SUFFICES ASSUME NEW j \in 0..l, NEW openBr \in BOOLEAN
               PROVE  chk[from[n + 1]][j][AskedFrom(items, n + 1)][openBr] <=> f[n + 1][j + 1]
    BY DEF Agree
  <2>1. /\ from[n + 1] = Len(t) /\ AskedFrom(items, n + 1) = 0
        /\ j \in Nat /\ j <= l /\ j + 1 \in Nat /\ n + 1 \in Nat
    BY <1>1, Asking DEF Laid
  <2>2. chk[Len(t)][j][0][openBr]
          = Call(chk[Len(t) + 1], chk[AfterBracket(t, Len(t))], t, s, Len(t), j, 0, openBr)
    <3>1. Called(chk, t, s) /\ Len(t) \in Nat /\ j \in Nat /\ openBr \in BOOLEAN
      BY <1>1
    <3>2. ASSUME NEW tempLen \in Nat
          PROVE  chk[Len(t)][j][tempLen][openBr] =
                   Call(chk[Len(t) + 1], chk[AfterBracket(t, Len(t))], t, s,
                        Len(t), j, tempLen, openBr)
      BY <3>1, CallAt
    <3> QED BY <3>2
  <2>3. chk[Len(t)][j][0][openBr] = (At(s, j) = NUL)
    <3>1. At(t, Len(t)) = NUL
      BY <1>1, PastTheEnd
    <3>2. Call(chk[Len(t) + 1], chk[AfterBracket(t, Len(t))], t, s, Len(t), j, 0, openBr)
            = (At(s, j) = NUL)
      BY <3>1, LastCall
    <3> QED BY <2>2, <3>2
  <2>4. At(s, j) = NUL <=> j = l
    <3>1. j = l => At(s, j) = NUL
      BY <1>1 DEF InMemory
    <3>2. j # l => At(s, j) # NUL
      <4>1. j # l => j < l
        BY <1>1, <2>1
      <4> QED BY <1>1, <2>1, <4>1 DEF InMemory
    <3> QED BY <3>1, <3>2
  <2>5. f[n + 1][j + 1] <=> j + 1 > l
    <3>1. f[n + 1][j + 1] = Reads(f[(n + 1) + 1], items, name, n + 1, j + 1)
      BY <1>1, <2>1 DEF Obeys
    <3>2. n + 1 > n
      BY <1>1
    <3> QED BY <3>1, <3>2 DEF Reads
  <2>6. j = l <=> j + 1 > l
    BY <1>1, <2>1
  <2> QED BY <2>1, <2>3, <2>4, <2>5, <2>6
<1>3. ASSUME NEW p \in 1..n, Agree(chk, f, items, name, from, p + 1)
      PROVE  Agree(chk, f, items, name, from, p)
  <2>1. items[p] \in Its /\ IsItem(items[p], C)
    BY <1>1
  <2>2. CASE items[p].star
    BY <1>3, <2>2, StarAgrees
  <2>3. CASE Marked(items[p], C)
    BY <1>3, <2>3, MarkAgrees
  <2>4. CASE Plain(items[p])
    BY <1>3, <2>4, PlainAgrees
  <2>5. CASE Bracketed(items[p])
    BY <1>3, <2>5, BracketAgrees
  <2> QED BY <2>1, <2>2, <2>3, <2>4, <2>5 DEF IsItem, Starred
<1> HIDE DEF n, l
<1>4. 0 \in S
  <2>1. \A p \in 1..(n + 1) : p + 0 = n + 1 => p = n + 1
    BY <1>1
  <2>2. Known(0)
    BY <1>2, <2>1
  <2> HIDE DEF Known
  <2> QED BY <2>2
<1>5. ASSUME NEW m \in Nat, m \in S PROVE m + 1 \in S
  <2>1. Known(m)
    <3> HIDE DEF Known
    <3> QED BY <1>5
  <2>2. ASSUME NEW p \in 1..(n + 1), p + (m + 1) = n + 1
        PROVE  Agree(chk, f, items, name, from, p)
    <3>1. p \in 1..n /\ p + 1 \in 1..(n + 1) /\ (p + 1) + m = n + 1
      BY <1>1, <2>2
    <3>2. Agree(chk, f, items, name, from, p + 1)
      BY <2>1, <3>1
    <3> QED BY <1>3, <3>1, <3>2
  <2>3. Known(m + 1)
    BY <2>2
  <2> HIDE DEF Known
  <2> QED BY <2>3
<1>6. n \in S
  <2>1. Nat \subseteq S
    <3> HIDE DEF S
    <3> QED BY <1>4, <1>5, InductionOverNat
  <2> HIDE DEF S
  <2> QED BY <1>1, <2>1
<1>7. Known(n)
  <2> HIDE DEF Known
  <2> QED BY <1>6
<1>8. 1 \in 1..(n + 1) /\ 1 + n = n + 1
  BY <1>1
<1> QED BY <1>7, <1>8

(***************************************************************************)
(* regExp() accepts what the template means: for names over any alphabet   *)
(* C, templates of any length made of stars, question marks, characters    *)
(* and brackets of any body, and whatever lies in memory after the name,   *)
(* as long as two brackets have a plain character between them and a       *)
(* question mark does not step over the end of the name.                   *)
(***************************************************************************)
THEOREM RegExpIsRight ==
  ASSUME NEW C \in SUBSET (Nat \ {NUL}), NEW Its, \A it \in Its : IsItem(it, C),
         NEW items \in Seq(Its), NEW name \in Seq(C), NEW stale \in Seq(Nat),
         BracketsApart(items), LongEnough(items, name)
  PROVE  regExp(Template(items), name \o <<NUL>> \o stale) <=> Accepts(items, name)
<1> DEFINE t == Template(items)
           s == name \o <<NUL>> \o stale
           chk == checkExp(t, s)
           m == FoldLeft(Measure, Nothing, t)
<1>1. Len(items) \in Nat /\ Len(name) \in Nat /\ name \in Seq(Nat \ {NUL})
  <2>1. \A k \in 1..Len(name) : name[k] \in C
    OBVIOUS
  <2>2. \A k \in 1..Len(name) : name[k] \in Nat \ {NUL}
    BY <2>1, Zenon
  <2> QED BY <2>2
<1>2. t \in Seq(Nat) /\ \E from : Laid(items, t, from)
  <2>1. \A it \in Its : it.spelled \in Seq(Nat)
    BY ItemSpelled
  <2> QED BY <2>1, TemplateLaid
<1>3. Len(t) \in Nat
  BY <1>2
<1>4. PICK from : Laid(items, t, from)
  BY <1>2
<1>5. InMemory(name, s)
  BY <1>1, NameInMemory
<1>6. regExp(t, s) = chk[0][0][m.tempLen + m.lenOfBrExp][FALSE]
  BY DEF regExp, Nothing
<1> HIDE DEF t, s, m
<1>7. Called(chk, t, s)
  <2>1. Ended(t)
    BY <1>3, <1>4, AllEnd
  <2> QED BY <1>3, <2>1, CheckExpIs
<1>8. Outside(m, Asked(items))
  BY <1>2, <1>4, MeasureIs DEF m
<1> HIDE DEF chk
<1>9. PICK f : Obeys(f, items, name) /\ Accepts(items, name) = f[1][1]
  BY <1>1, AcceptsIs
<1>10. Setting(C, Its, items, name, t, s, from, chk, f)
  BY <1>2, <1>4, <1>5, <1>7, <1>9 DEF Setting
<1>11. Agree(chk, f, items, name, from, 1)
  BY <1>10, AllAgree
<1>12. from[1] = 0 /\ AskedFrom(items, 1) = Asked(items) /\ Asked(items) \in Nat
  <2>1. 1 \in 1..(Len(items) + 1)
    BY <1>1
  <2> QED BY <1>4, <2>1, Asking DEF Laid
<1>13. Room(items, name, 1, 0)
  <2>1. CASE Asked(items) <= Len(name)
    BY <1>12, <2>1 DEF Room
  <2>2. CASE \A k \in DOMAIN items : items[k].spelled[1] # Mark
    BY <1>1, <2>2 DEF Room
  <2> QED BY <2>1, <2>2 DEF LongEnough
<1>14. chk[0][0][Asked(items)][FALSE] <=> f[1][1]
  <2>1. 0 \in 0..Len(name) /\ 0 + 1 = 1
    BY <1>1
  <2>2. chk[from[1]][0][AskedFrom(items, 1)][FALSE] <=> f[1][0 + 1]
    BY <1>11, <1>13, <2>1 DEF Agree
  <2> QED BY <1>12, <2>1, <2>2
<1>15. m.tempLen + m.lenOfBrExp = Asked(items)
  BY <1>8, <1>12 DEF Outside
<1>16. regExp(t, s) <=> Accepts(items, name)
  BY <1>6, <1>9, <1>14, <1>15
<1> QED BY <1>16 DEF t, s
-----------------------------------------------------------------------------
\* The items of MCFind are items: what their brackets stand for is what their sets say.
LEMMA BracketItem ==
  ASSUME NEW body, IsBody(body), NEW spelled, spelled = <<Open>> \o body \o <<Close>>
  PROVE  Bracketed(Item(spelled, BodySet(body)))
BY DEF Bracketed, Brackets, Item

LEMMA SameSequence ==
  ASSUME NEW u \in Seq(Nat), NEW v \in Seq(Nat), Len(u) = Len(v),
         \A q \in 1..Len(u) : u[q] = v[q]
  PROVE  u = v
OBVIOUS

LEMMA ItemsAreItems == \A it \in Items : IsItem(it, {a, b, c})
<1>1. /\ a \in Nat \ {NUL, Star, Mark, Open, Close, Dash}
      /\ b \in Nat \ {NUL, Star, Mark, Open, Close, Dash}
      /\ c \in Nat \ {NUL, Star, Mark, Open, Close, Dash}
      /\ Dash \in Nat \ {NUL, Close} /\ b = a + 1
  BY DEF a, b, c, NUL, Star, Mark, Open, Close, Dash
<1>2. Starred([star |-> TRUE, spelled |-> <<Star>>, set |-> {}])
  BY DEF Starred
<1>3. Marked(Item(<<Mark>>, {a, b, c}), {a, b, c})
  BY DEF Marked, Item
<1>4. Plain(Item(<<a>>, {a})) /\ Plain(Item(<<b>>, {b}))
  BY <1>1 DEF Plain, Item
<1>5. Bracketed(Item(<<Open, a, c, Close>>, {a, c}))
  <2> DEFINE body == <<a, c>>
  <2>1. Len(body) = 2 /\ body[1] = a /\ body[2] = c /\ body \in Seq(Nat \ {NUL, Close})
    BY <1>1
  <2>2. 1..2 = {1, 2}
    OBVIOUS
  <2> HIDE DEF body
  <2>3. IsBody(body)
    BY <1>1, <2>1, <2>2 DEF IsBody
  <2>4. BodySet(body) = {a, c}
    BY <1>1, <2>1, <2>2 DEF BodySet, Stands
  <2>5. <<Open, a, c, Close>> = <<Open>> \o body \o <<Close>>
    <3> DEFINE u == <<Open, a, c, Close>>
               v == <<Open>> \o body \o <<Close>>
    <3>1. /\ v \in Seq(Nat) /\ Len(v) = Len(body) + 2 /\ v[1] = Open /\ v[Len(body) + 2] = Close
          /\ \A k \in 1..Len(body) : v[k + 1] = body[k]
      BY <2>3, BracketSpelled DEF Brackets
    <3>2. /\ u \in Seq(Nat) /\ Len(u) = 4 /\ u[1] = Open /\ u[2] = a /\ u[3] = c /\ u[4] = Close
      BY <1>1 DEF Open, Close
    <3>3. 1..4 = {1, 2, 3, 4}
      OBVIOUS
    <3> HIDE DEF u, v
    <3>4. Len(v) = 4 /\ v[1] = Open /\ v[2] = a /\ v[3] = c /\ v[4] = Close
      BY <2>1, <2>2, <3>1
    <3>5. Len(u) = Len(v) /\ \A q \in 1..Len(u) : u[q] = v[q]
      BY <3>2, <3>3, <3>4
    <3>6. u \in Seq(Nat) /\ v \in Seq(Nat)
      BY <3>1, <3>2
    <3>7. u = v
      BY <3>5, <3>6, SameSequence
    <3> QED BY <3>7 DEF u, v
  <2> QED BY <2>3, <2>4, <2>5, BracketItem
<1>6. Bracketed(Item(<<Open, a, Dash, b, Close>>, {a, b}))
  <2> DEFINE body == <<a, Dash, b>>
  <2>1. /\ Len(body) = 3 /\ body[1] = a /\ body[2] = Dash /\ body[3] = b
        /\ body \in Seq(Nat \ {NUL, Close})
    BY <1>1
  <2>2. 1..3 = {1, 2, 3} /\ a..b = {a, b}
    BY <1>1
  <2> HIDE DEF body
  <2>3. IsBody(body)
    BY <1>1, <2>1, <2>2 DEF IsBody
  <2>4. BodySet(body) = {a, b}
    BY <1>1, <2>1, <2>2 DEF BodySet, Stands
  <2>5. <<Open, a, Dash, b, Close>> = <<Open>> \o body \o <<Close>>
    <3> DEFINE u == <<Open, a, Dash, b, Close>>
               v == <<Open>> \o body \o <<Close>>
    <3>1. /\ v \in Seq(Nat) /\ Len(v) = Len(body) + 2 /\ v[1] = Open /\ v[Len(body) + 2] = Close
          /\ \A k \in 1..Len(body) : v[k + 1] = body[k]
      BY <2>3, BracketSpelled DEF Brackets
    <3>2. /\ u \in Seq(Nat) /\ Len(u) = 5
          /\ u[1] = Open /\ u[2] = a /\ u[3] = Dash /\ u[4] = b /\ u[5] = Close
      BY <1>1 DEF Open, Close
    <3>3. 1..5 = {1, 2, 3, 4, 5}
      OBVIOUS
    <3> HIDE DEF u, v
    <3>4. Len(v) = 5 /\ v[1] = Open /\ v[2] = a /\ v[3] = Dash /\ v[4] = b /\ v[5] = Close
      BY <2>1, <2>2, <3>1
    <3>5. Len(u) = Len(v) /\ \A q \in 1..Len(u) : u[q] = v[q]
      BY <3>2, <3>3, <3>4
    <3>6. u \in Seq(Nat) /\ v \in Seq(Nat)
      BY <3>1, <3>2
    <3>7. u = v
      BY <3>5, <3>6, SameSequence
    <3> QED BY <3>7 DEF u, v
  <2> QED BY <2>3, <2>4, <2>5, BracketItem
<1> QED BY <1>2, <1>3, <1>4, <1>5, <1>6 DEF Items, IsItem

(***************************************************************************)
(* GlobIsRight: for every template of the items above, of any length, and  *)
(* whatever the walk does meanwhile.                                       *)
(***************************************************************************)
THEOREM Globbing == Spec => []GlobIsRight
<1>1. Init => template \in Templates
  BY DEF Init
<1>2. template \in Templates /\ [Next]_vars => (template \in Templates)'
  BY DEF Next, Parent, Child, ReadDir, ReadFile, EndDir, Pipe, Fork, Write, Return, Deliver,
         ReadPid, Exec, Kill, Exit, ChildStep, Read, args, call, vars
<1>3. template \in Templates => GlobIsRight
  <2> SUFFICES ASSUME template \in Templates, NEW name \in Names,
                      BracketsApart(template), LongEnough(template, name),
                      NEW stale \in {<<>>, <<a>>}
               PROVE  regExp(Template(template), name \o <<NUL>> \o stale)
                        <=> Accepts(template, name)
    BY DEF GlobIsRight
  <2> DEFINE C == {a, b, c}
  <2>1. C \in SUBSET (Nat \ {NUL})
    BY DEF a, b, c, NUL
  <2>2. template \in Seq(Items)
    BY TemplatesAssumption
  <2>3. name \in Seq(C)
    <3> HIDE DEF C
    <3>1. PICK n \in 0..MaxName : name \in [1..n -> C]
      BY DEF Names, BoundedSeq, SeqOf, C
    <3> QED BY <3>1
  <2>4. stale \in Seq(Nat)
    <3>1. a \in Nat
      BY DEF a
    <3>2. <<>> \in Seq(Nat) /\ <<a>> \in Seq(Nat)
      BY <3>1
    <3> QED BY <3>2
  <2> HIDE DEF C
  <2>5. \A it \in Items : IsItem(it, C)
    BY ItemsAreItems DEF C
  <2> QED BY <2>1, <2>2, <2>3, <2>4, <2>5, RegExpIsRight
<1> QED BY <1>1, <1>2, <1>3, PTL DEF Spec
-----------------------------------------------------------------------------
(***************************************************************************)
(* The server.                                                             *)
(***************************************************************************)
CONSTANTS Clients, Slots, Backlog

VARIABLES backlog, sent, left, accepting, client, answering, answer, shut, served

Server == INSTANCE Server WITH pc <- accepting, child <- answering

\* A client is one connection: it waits once, and is accepted once.
OneConnection ==
  /\ backlog \in Seq(Clients) /\ client \in Seq(Clients)
  /\ \A i, j \in 1..Len(backlog) : backlog[i] = backlog[j] => i = j
  /\ \A i \in 1..Len(backlog), j \in 1..Len(client) : backlog[i] # client[j]
  /\ \A i, j \in 1..Len(client) : client[i] = client[j] => i = j

\* The child lives while the parent waits; before it, nothing is answered or shut down.
OneChild ==
  /\ sent \in [Clients -> Server!Requests \cup {"none"}]
  /\ answer \in [Clients -> {"none", "file", "junk", "header"}]
  /\ \A cl \in Clients \ Server!Accepted : answer[cl] = "none" /\ cl \notin shut \cup served
  /\ answering # "none" => accepting = "wait"
  /\ accepting \in {"fork", "wait"} => Len(client) > 0
  /\ accepting = "fork" \/ answering \in {"recv", "file", "index", "listing"} =>
       answer[Server!Current] = "none"
  /\ accepting = "fork" => Server!Current \notin shut \cup served
  /\ answering # "none" => Server!Current \in served
  /\ answering \notin {"none", "zombie"} => Server!Current \notin shut
  /\ answering = "shutdown" => Server!Complete(Server!Current)
  /\ answering \in {"file", "index", "listing"} => sent[Server!Current] = answering
  /\ answering \in {"none", "recv", "file", "index", "listing", "shutdown", "zombie"}

SInv == OneConnection /\ OneChild /\ Server!AnswersEnd
-----------------------------------------------------------------------------
\* The array of clients holds those who were accepted, the one being served last.
LEMMA Array ==
  ASSUME OneConnection
  PROVE  /\ Server!Accepted = {client[i] : i \in 1..Len(client)}
         /\ Server!Accepted \subseteq Clients
         /\ Server!Waiting = {backlog[i] : i \in 1..Len(backlog)}
         /\ Len(client) \in Nat /\ Len(backlog) \in Nat
         /\ Len(client) > 0 => Server!Current \in Server!Accepted
<1>1. client \in Seq(Clients) /\ backlog \in Seq(Clients)
  BY DEF OneConnection
<1>2. /\ Len(client) \in Nat /\ Len(backlog) \in Nat
      /\ DOMAIN client = 1..Len(client) /\ DOMAIN backlog = 1..Len(backlog)
      /\ \A i \in 1..Len(client) : client[i] \in Clients
  BY <1>1
<1>3. Len(client) > 0 => Server!Current = client[Len(client)] /\ Len(client) \in 1..Len(client)
  BY <1>2 DEF Server!Current
<1> QED BY <1>2, <1>3 DEF Server!Accepted, Server!Waiting

\* Steps that accept nobody leave the array and its clients as they are.
LEMMA SameArray == UNCHANGED client => /\ Server!Accepted' = Server!Accepted
                                       /\ Server!Current' = Server!Current
BY DEF Server!Accepted, Server!Current

\* What has become of a client stays as it is, whatever the others do.
LEMMA SettledStays ==
  ASSUME NEW d, Server!Settled(d), sent[d] # "none" => sent'[d] = sent[d],
         answer'[d] = answer[d], d \in shut' <=> d \in shut, d \in served' <=> d \in served,
         d \in left => d \in left'
  PROVE  Server!Settled(d)'
BY DEF Server!Settled, Server!Complete, Server!Unanswerable, Server!None

\* A connection reaches the queue of accept().
LEMMA ConnectKeeps == ASSUME SInv, NEW cl \in Clients, Server!Connect(cl) PROVE SInv'
<1>1. /\ cl \notin Server!Waiting \cup Server!Accepted /\ backlog' = Append(backlog, cl)
      /\ UNCHANGED <<sent, left, accepting, client, answering, answer, shut, served>>
  BY DEF Server!Connect
<1>2. /\ \A i \in 1..Len(backlog) : backlog[i] # cl
      /\ \A i \in 1..Len(client) : client[i] # cl
  BY <1>1, Array DEF SInv
<1>3. OneConnection'
  <2>1. /\ backlog \in Seq(Clients) /\ client \in Seq(Clients) /\ Len(backlog) \in Nat
        /\ backlog' \in Seq(Clients) /\ Len(backlog') = Len(backlog) + 1
    BY <1>1 DEF SInv, OneConnection
  <2>2. /\ \A i \in 1..Len(backlog) : backlog'[i] = backlog[i]
        /\ backlog'[Len(backlog) + 1] = cl
    BY <1>1, <2>1
  <2>3. \A i \in 1..Len(backlog') : i \in 1..Len(backlog) \/ i = Len(backlog) + 1
    BY <2>1
  <2>4. \A i, j \in 1..Len(backlog') : backlog'[i] = backlog'[j] => i = j
    BY <1>2, <2>2, <2>3 DEF SInv, OneConnection
  <2>5. \A i \in 1..Len(backlog'), j \in 1..Len(client) : backlog'[i] # client[j]
    BY <1>2, <2>2, <2>3 DEF SInv, OneConnection
  <2> QED BY <1>1, <2>1, <2>4, <2>5 DEF SInv, OneConnection
<1>4. OneChild'
  BY <1>1, SameArray DEF SInv, OneChild, Server!Complete
<1>5. Server!AnswersEnd'
  BY <1>1, SameArray, SettledStays DEF SInv, Server!AnswersEnd, Server!None
<1> QED BY <1>3, <1>4, <1>5 DEF SInv

\* A request is sent once, and only then can it be answered.
LEMMA RequestKeeps ==
  ASSUME SInv, NEW cl \in Clients, NEW r \in Server!Requests \cup {"none"},
         sent[cl] # "none" => r = sent[cl], sent' = [sent EXCEPT ![cl] = r],
         left \subseteq left',
         UNCHANGED <<backlog, accepting, client, answering, answer, shut, served>>
  PROVE  SInv'
<1>1. OneConnection'
  BY DEF SInv, OneConnection
<1>2. /\ sent' \in [Clients -> Server!Requests \cup {"none"}]
      /\ \A d \in Clients : sent[d] # "none" => sent'[d] = sent[d]
  BY DEF SInv, OneChild
<1>3. answering \in {"file", "index", "listing", "shutdown"} => Server!Current \in Clients
  BY Array DEF SInv, OneChild
<1>4. OneChild'
  BY <1>2, <1>3, SameArray DEF SInv, OneChild, Server!Complete
<1>5. Server!AnswersEnd'
  <2>1. \A d \in Server!Accepted : d \in Clients
    BY Array DEF SInv
  <2> QED BY <1>2, <2>1, SameArray, SettledStays DEF SInv, Server!AnswersEnd, Server!None
<1> QED BY <1>1, <1>4, <1>5 DEF SInv

\* accept()
LEMMA AcceptKeeps == ASSUME SInv, Server!Accept PROVE SInv'
<1>1. /\ accepting = "accept" /\ backlog # <<>> /\ backlog' = Tail(backlog)
      /\ UNCHANGED <<sent, left, answering, answer, shut, served>>
  BY DEF Server!Accept
<1>2. /\ backlog \in Seq(Clients) /\ client \in Seq(Clients)
      /\ Len(backlog) \in Nat \ {0} /\ Len(client) \in Nat
      /\ Head(backlog) = backlog[1] /\ Head(backlog) \in Clients
      /\ backlog' \in Seq(Clients) /\ Len(backlog') = Len(backlog) - 1
      /\ \A i \in 1..Len(backlog') : backlog'[i] = backlog[i + 1] /\ i + 1 \in 1..Len(backlog)
  BY <1>1 DEF SInv, OneConnection
<1>3. /\ \A i, j \in 1..Len(backlog') : backlog'[i] = backlog'[j] => i = j
      /\ \A i \in 1..Len(backlog') : backlog'[i] # Head(backlog)
      /\ \A i \in 1..Len(backlog'), j \in 1..Len(client) : backlog'[i] # client[j]
      /\ \A j \in 1..Len(client) : client[j] # Head(backlog)
  <2>1. /\ \A i, j \in 1..Len(backlog) : backlog[i] = backlog[j] => i = j
        /\ \A i \in 1..Len(backlog), j \in 1..Len(client) : backlog[i] # client[j]
    BY DEF SInv, OneConnection
  <2>2. 1 \in 1..Len(backlog) /\ 1..Len(backlog') \subseteq Nat \ {0}
    BY <1>2
  <2>3. \A i, j \in 1..Len(backlog') : backlog'[i] = backlog'[j] => i = j
    <3>1. \A i, j \in 1..Len(backlog') : backlog'[i] = backlog'[j] => i + 1 = j + 1
      BY <1>2, <2>1
    <3> QED BY <2>2, <3>1
  <2>4. \A i \in 1..Len(backlog') : backlog'[i] # Head(backlog)
    <3>1. \A i \in 1..Len(backlog') : backlog'[i] = Head(backlog) => i + 1 = 1
      BY <1>2, <2>1, <2>2
    <3> QED BY <2>2, <3>1
  <2> QED BY <1>2, <2>1, <2>2, <2>3, <2>4
<1>4. answering = "none"
  BY <1>1 DEF SInv, OneChild
<1>5. CASE client' = Append(client, Head(backlog)) /\ accepting' = "fork"
  <2> DEFINE n == Len(client)
  <2>1. /\ client' \in Seq(Clients) /\ Len(client') = n + 1
        /\ \A i \in 1..n : client'[i] = client[i]
        /\ client'[n + 1] = Head(backlog)
    BY <1>2, <1>5
  <2>2. \A i \in 1..(n + 1) : i \in 1..n \/ i = n + 1
    BY <1>2
  <2>3. OneConnection'
    <3>1. \A i, j \in 1..Len(client') : client'[i] = client'[j] => i = j
      BY <1>3, <2>1, <2>2 DEF SInv, OneConnection
    <3>2. \A i \in 1..Len(backlog'), j \in 1..Len(client') : backlog'[i] # client'[j]
      BY <1>3, <2>1, <2>2
    <3> QED BY <1>2, <1>3, <2>1, <3>1, <3>2 DEF OneConnection
  <2>4. Server!Current' = Head(backlog)
    BY <2>1 DEF Server!Current
  <2>5. Server!Accepted' = Server!Accepted \cup {Head(backlog)}
    <3>1. Server!Accepted' = {client'[i] : i \in 1..(n + 1)}
      BY <2>1 DEF Server!Accepted
    <3>2. Server!Accepted = {client[i] : i \in 1..n}
      BY Array DEF SInv
    <3>3. 1..(n + 1) = 1..n \cup {n + 1}
      BY <1>2
    <3> QED BY <2>1, <3>1, <3>2, <3>3
  <2>6. /\ Head(backlog) \notin Server!Accepted /\ answer[Head(backlog)] = "none"
        /\ Head(backlog) \notin shut \cup served
    BY <1>2, <1>3, Array DEF SInv, OneChild
  <2>7. OneChild'
    BY <1>1, <1>2, <1>4, <1>5, <2>1, <2>4, <2>5, <2>6 DEF SInv, OneChild
  <2>8. Server!AnswersEnd'
    <3>1. PICK cl : cl = Head(backlog)
      OBVIOUS
    <3>2. Server!Settled(cl)'
      BY <1>1, <2>6, <3>1 DEF Server!Settled, Server!None
    <3>3. ASSUME NEW d \in Server!Accepted PROVE Server!Settled(d)'
      <4>1. Server!Settled(d)
        BY <1>4 DEF SInv, Server!AnswersEnd, Server!None
      <4> QED BY <1>1, <4>1, SettledStays
    <3> QED BY <2>5, <3>1, <3>2, <3>3 DEF Server!AnswersEnd
  <2> QED BY <2>3, <2>7, <2>8 DEF SInv
<1>6. CASE accepting' = "overrun" /\ client' = client
  <2>1. OneConnection'
    BY <1>2, <1>3, <1>6 DEF SInv, OneConnection
  <2>2. OneChild' /\ Server!AnswersEnd'
    <3>1. OneChild'
      BY <1>1, <1>4, <1>6, SameArray DEF SInv, OneChild
    <3>2. Server!AnswersEnd'
      BY <1>1, <1>4, <1>6, SameArray, SettledStays DEF SInv, Server!AnswersEnd, Server!None
    <3> QED BY <3>1, <3>2
  <2> QED BY <2>1, <2>2 DEF SInv
<1> QED BY <1>5, <1>6 DEF Server!Accept

\* What the parent and the child do between accept() and the end of wait().
LEMMA ServeKeeps ==
  ASSUME SInv,
         Server!AcceptFails \/ Server!Fork \/ Server!Wait \/ Server!GetRqst \/ Server!SendFile
           \/ Server!Shutdown \/ UNCHANGED Server!vars
  PROVE  SInv'
<1> USE DEF Server!None
<1>1. UNCHANGED <<backlog, sent, left, client>>
  BY DEF Server!AcceptFails, Server!Fork, Server!Wait, Server!GetRqst, Server!SendFile,
         Server!Shutdown, Server!vars, Server!net
<1>2. /\ OneConnection' /\ Server!Accepted' = Server!Accepted /\ Server!Current' = Server!Current
      /\ Server!Accepted \subseteq Clients
      /\ accepting \in {"fork", "wait"} => Server!Current \in Server!Accepted
  BY <1>1, SameArray, Array DEF SInv, OneConnection, OneChild
<1>3. ASSUME NEW d \in Server!Accepted, d # Server!Current, answer'[d] = answer[d],
             d \in shut' <=> d \in shut, d \in served' <=> d \in served
      PROVE  Server!Settled(d)'
  <2>1. Server!Settled(d)
    BY <1>3 DEF SInv, Server!AnswersEnd
  <2> QED BY <1>1, <1>3, <2>1, SettledStays
<1>4. CASE Server!AcceptFails \/ Server!Wait \/ UNCHANGED Server!vars
  <2>1. /\ UNCHANGED <<answer, shut, served>>
        /\ \/ accepting' = "failed" /\ accepting = "accept" /\ answering' = answering
           \/ answering \in {"zombie", "none"} /\ answering' = "none" /\ accepting' = "accept"
           \/ answering' = answering /\ accepting' = accepting
    BY <1>4 DEF Server!AcceptFails, Server!Wait, Server!vars, Server!net
  <2>2. OneChild'
    BY <1>1, <1>2, <2>1 DEF SInv, OneChild, Server!Complete
  <2>3. ASSUME NEW d \in Server!Accepted,
               d # Server!Current \/ answering' \in {"zombie", "none"}
        PROVE  Server!Settled(d)'
    <3>1. Server!Settled(d)
      BY <2>1, <2>3 DEF SInv, Server!AnswersEnd
    <3> QED BY <1>1, <2>1, <3>1, SettledStays
  <2> QED BY <1>2, <2>2, <2>3 DEF SInv, Server!AnswersEnd
<1>5. CASE Server!Fork
  <2>1. /\ accepting = "fork" /\ accepting' = "wait" /\ answering = "none"
        /\ UNCHANGED <<answer, shut>>
        /\ \/ answering' = "recv" /\ served' = served \cup {Server!Current}
           \/ answering' = "none" /\ served' = served
    BY <1>5 DEF Server!Fork, SInv, OneChild
  <2>2. OneChild'
    BY <1>1, <1>2, <2>1 DEF SInv, OneChild
  <2>3. ASSUME NEW d \in Server!Accepted, d # Server!Current PROVE Server!Settled(d)'
    BY <1>3, <2>1, <2>3
  <2>4. answering' = "none" => Server!Settled(Server!Current)'
    BY <1>2, <2>1 DEF SInv, OneChild, Server!Settled
  <2>5. answering' \in {"zombie", "none"} => answering' = "none"
    BY <2>1
  <2> QED BY <1>2, <2>2, <2>3, <2>4, <2>5 DEF SInv, Server!AnswersEnd
<1>6. CASE Server!GetRqst
  <2>1. /\ answering = "recv" /\ sent[Server!Current] # "none"
        /\ UNCHANGED <<accepting, answer, shut, served>>
        /\ \/ /\ answering' = sent[Server!Current]
              /\ sent[Server!Current] \in {"file", "index", "listing"}
           \/ /\ answering' = "zombie"
              /\ sent[Server!Current] \in {"garbled", "missing"} \/ Server!Current \in left
    BY <1>2, <1>6 DEF Server!GetRqst, Server!Requests, SInv, OneChild
  <2>2. OneChild'
    BY <1>1, <1>2, <2>1 DEF SInv, OneChild
  <2>3. ASSUME NEW d \in Server!Accepted, d # Server!Current PROVE Server!Settled(d)'
    BY <1>3, <2>1, <2>3
  <2>4. answering' = "zombie" => Server!Settled(Server!Current)'
    BY <1>1, <1>2, <2>1 DEF SInv, OneChild, Server!Settled, Server!Unanswerable
  <2>5. answering' \in {"zombie", "none"} => answering' = "zombie"
    BY <2>1
  <2> QED BY <1>2, <2>2, <2>3, <2>4, <2>5 DEF SInv, Server!AnswersEnd
<1>7. CASE Server!SendFile
  <2>1. /\ answering \in {"file", "index", "listing"} /\ accepting = "wait"
        /\ UNCHANGED <<accepting, shut, served>>
        /\ \/ answering' = "shutdown" /\ answering = "index" /\ answer' = answer
           \/ answering' = "zombie" /\ Server!Current \in left /\ answer' = answer
           \/ \E text \in {"file", "junk", "header"} :
                /\ answer' = [answer EXCEPT ![Server!Current] = text]
                /\ answering = IF text = "file" THEN "file" ELSE "listing"
                /\ answering' = IF text = "header" THEN "zombie" ELSE "shutdown"
    BY <1>7 DEF Server!SendFile, Server!Write, SInv, OneChild
  <2>2. Server!Current \in Server!Accepted /\ Server!Current \in Clients
    BY <1>2, <2>1
  <2>3. answering' = "shutdown" => Server!Complete(Server!Current)'
    BY <1>1, <1>2, <2>1, <2>2 DEF SInv, OneChild, Server!Complete
  <2>4. OneChild'
    BY <1>1, <1>2, <2>1, <2>2, <2>3 DEF SInv, OneChild
  <2>5. ASSUME NEW d \in Server!Accepted, d # Server!Current PROVE Server!Settled(d)'
    <3>1. d \in Clients /\ answer'[d] = answer[d]
      BY <1>2, <2>1, <2>5 DEF SInv, OneChild
    <3> QED BY <1>3, <2>1, <2>5, <3>1
  <2>6. answering' = "zombie" => Server!Settled(Server!Current)'
    BY <1>1, <1>2, <2>1, <2>2 DEF SInv, OneChild, Server!Settled, Server!Unanswerable
  <2>7. answering' \in {"zombie", "none"} => answering' = "zombie"
    BY <2>1
  <2> QED BY <1>2, <2>4, <2>5, <2>6, <2>7 DEF SInv, Server!AnswersEnd
<1>8. CASE Server!Shutdown
  <2>1. /\ answering = "shutdown" /\ answering' = "zombie"
        /\ shut' = shut \cup {Server!Current} /\ UNCHANGED <<accepting, answer, served>>
    BY <1>8 DEF Server!Shutdown, Server!net
  <2>2. accepting = "wait" /\ Server!Current \in Server!Accepted
    BY <1>2, <2>1 DEF SInv, OneChild
  <2>3. OneChild'
    BY <1>1, <1>2, <2>1, <2>2 DEF SInv, OneChild
  <2>4. ASSUME NEW d \in Server!Accepted, d # Server!Current PROVE Server!Settled(d)'
    BY <1>3, <2>1, <2>4
  <2>5. Server!Settled(Server!Current)'
    BY <1>1, <1>2, <2>1 DEF SInv, OneChild, Server!Settled, Server!Complete
  <2> QED BY <1>2, <2>3, <2>4, <2>5 DEF SInv, Server!AnswersEnd
<1> QED BY <1>4, <1>5, <1>6, <1>7, <1>8

(***************************************************************************)
(* AnswersEnd: a client that has asked for something that can be answered, *)
(* has a child and stays, gets what it asked for and sees the end of it,   *)
(* however many clients there are and whatever the others do.              *)
(***************************************************************************)
THEOREM AnswersAreEnded == Server!Spec => []Server!AnswersEnd
<1>1. Server!Init => SInv
  BY DEF Server!Init, Server!None, SInv, OneConnection, OneChild, Server!AnswersEnd,
         Server!Accepted, Server!Current
<1>2. SInv /\ [Server!Next]_Server!vars => SInv'
  <2> SUFFICES ASSUME SInv, [Server!Next]_Server!vars PROVE SInv'
    OBVIOUS
  <2>1. ASSUME NEW cl \in Clients, NEW r \in Server!Requests, Server!Send(cl, r) PROVE SInv'
    <3>1. sent[cl] = "none" /\ sent' = [sent EXCEPT ![cl] = r] /\ left \subseteq left'
          /\ UNCHANGED <<backlog, accepting, client, answering, answer, shut, served>>
      BY <2>1 DEF Server!Send, Server!None
    <3> QED BY <3>1, RequestKeeps
  <2>2. ASSUME NEW cl \in Clients, Server!Leave(cl) PROVE SInv'
    <3> DEFINE r == IF sent[cl] = "none" THEN "garbled" ELSE sent[cl]
    <3>1. sent' = [sent EXCEPT ![cl] = r] /\ left \subseteq left'
          /\ UNCHANGED <<backlog, accepting, client, answering, answer, shut, served>>
      BY <2>2 DEF Server!Leave, Server!None
    <3>2. r \in Server!Requests \cup {"none"}
      BY DEF SInv, OneChild, Server!Requests
    <3> QED BY <3>1, <3>2, RequestKeeps
  <2> QED BY <2>1, <2>2, ConnectKeeps, AcceptKeeps, ServeKeeps DEF Server!Next, Server!Run
<1> QED BY <1>1, <1>2, PTL DEF Server!Spec, SInv
=============================================================================
