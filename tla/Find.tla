-------------------------------- MODULE Find --------------------------------
(***************************************************************************)
(* ACOS/find.c: the walk over directories, openDir(), and checkExec(),     *)
(* which runs a program on a file that matches.  The parent and the child  *)
(* are processes; a child whose execvp() fails says so by a signal, whose  *)
(* handler writes the local variable res of checkExec().                   *)
(*                                                                         *)
(* Descriptors are counted: close(dirp) on line 221 closes none, a DIR*    *)
(* being no descriptor, and nobody closes the ends of a pipe.              *)
(***************************************************************************)
EXTENDS Integers, FiniteSets, Sequences

CONSTANTS Files, Dirs, Root,
          Entries,          \* Entries[d]: the files and directories in directory d
          Templates,
          Matches(_, _),    \* regExp(template, the name of a file)
          Limits

ASSUME LimitsAssumption == Limits \subseteq Nat

(***************************************************************************)
(* Files and directories are paths, finitely many.  Each but the root is   *)
(* an entry of one directory, and all are reached from the root; symbolic  *)
(* links are not followed.                                                 *)
(***************************************************************************)
ASSUME TreeAssumption ==
  /\ IsFiniteSet(Files) /\ IsFiniteSet(Dirs) /\ Files \cap Dirs = {}
  /\ Root \in Dirs /\ Entries \in [Dirs -> SUBSET ((Files \cup Dirs) \ {Root})]
  /\ \A d, e \in Dirs : d # e => Entries[d] \cap Entries[e] = {}
  /\ \A S \in SUBSET (Files \cup Dirs) :
       Root \in S /\ (\A d \in S \cap Dirs : Entries[d] \subseteq S) => S = Files \cup Dirs

VARIABLES
  template,  \* the arguments: what to look for, and whether there is a program to run
  program,
  matching,  \* what regExp() says of the files, which depends on the arguments alone
  limit,     \* how many descriptors the process may get
  stack,     \* the calls of openDir(): directory and what readdir() has still to return
  open,      \* how many descriptors the parent has got
  pc,        \* what the parent does next
  file,      \* the file checkExec() is called for
  res,       \* its local variable
  written,   \* its pipe holds the parent's number
  child,     \* what the child does next
  pending,   \* a signal is on its way to the parent
  printed,   \* the files printed
  exec       \* history: what execvp() did for a file

args == <<template, program, matching, limit>>
call == <<file, res, written, child, pending>>
vars == <<args, stack, open, pc, call, printed, exec>>

Frame(d) == [dir |-> d, todo |-> Entries[d]]

Init == /\ template \in Templates /\ program \in BOOLEAN /\ limit \in Limits
        /\ matching = {f \in Files : Matches(template, f)}
        /\ stack = <<Frame(Root)>> /\ open = 1
        /\ pc = "walk" /\ file = {} /\ res = TRUE /\ written = FALSE
        /\ child = "none" /\ pending = FALSE
        /\ printed = {} /\ exec = [f \in Files |-> "none"]
-----------------------------------------------------------------------------
Top == stack[Len(stack)]

\* readdir() returns entry e.
Read(e) == /\ pc = "walk" /\ stack # <<>> /\ e \in Top.todo

Rest(e) == [stack EXCEPT ![Len(stack)].todo = @ \ {e}]

\* A directory: opendir() and the recursive call, which returns at once without a DIR*.
ReadDir(e) == /\ Read(e) /\ e \in Dirs
              /\ IF open < limit
                 THEN stack' = Append(Rest(e), Frame(e)) /\ open' = open + 1
                 ELSE stack' = Rest(e) /\ UNCHANGED open
              /\ UNCHANGED <<args, pc, call, printed, exec>>

\* A mutant: the template is not asked when there is a program.
ReadFile_RunsAll(e) ==
  /\ Read(e) /\ e \in Files
  /\ stack' = Rest(e)
  /\ IF program
     THEN pc' = "pipe" /\ file' = {e} /\ res' = TRUE /\ UNCHANGED printed
     ELSE /\ printed' = IF e \in matching THEN printed \cup {e} ELSE printed
          /\ UNCHANGED <<pc, file, res>>
  /\ UNCHANGED <<args, open, written, child, pending, exec>>

\* A file: printed if it matches, after the program if there is one.
ReadFile(e) ==
  /\ Read(e) /\ e \in Files
  /\ stack' = Rest(e)
  /\ IF program /\ e \in matching
     THEN pc' = "pipe" /\ file' = {e} /\ res' = TRUE /\ UNCHANGED printed
     ELSE /\ printed' = IF e \in matching THEN printed \cup {e} ELSE printed
          /\ UNCHANGED <<pc, file, res>>
  /\ UNCHANGED <<args, open, written, child, pending, exec>>

\* The end of a directory; main() gives the root back by closedir().
EndDir == /\ pc = "walk" /\ stack # <<>> /\ Top.todo = {}
          /\ stack' = SubSeq(stack, 1, Len(stack) - 1)
          /\ IF stack' = <<>> THEN pc' = "done" /\ open' = open - 1
                              ELSE UNCHANGED <<pc, open>>
          /\ UNCHANGED <<args, call, printed, exec>>
-----------------------------------------------------------------------------
(***************************************************************************)
(* pipe() and signal().  The result of pipe() is not tested: without two   *)
(* more descriptors the array p is not initialized, and the model stops.   *)
(***************************************************************************)
Pipe == /\ pc = "pipe"
        /\ IF open + 2 <= limit THEN pc' = "fork" /\ open' = open + 2
                                ELSE pc' = "undefined" /\ UNCHANGED open
        /\ written' = FALSE
        /\ UNCHANGED <<args, stack, file, res, child, pending, printed, exec>>

\* fork(); main() ends when it fails.
Fork == /\ pc = "fork"
        /\ \/ pc' = "write" /\ child' = "read"
           \/ pc' = "failed" /\ UNCHANGED child
        /\ UNCHANGED <<args, stack, open, file, res, written, pending, printed, exec>>

\* A mutant: the parent waits before it writes.
Write_AfterWait == /\ pc = "write" /\ child = "zombie"
                   /\ pc' = "wait" /\ written' = TRUE
                   /\ UNCHANGED <<args, stack, open, file, res, child, pending, printed, exec>>

\* The parent: write(p[1], &par, ...)
Write == /\ pc = "write"
         /\ pc' = "wait" /\ written' = TRUE
         /\ UNCHANGED <<args, stack, open, file, res, child, pending, printed, exec>>

\* The handler sig().
Deliver == /\ pending
           /\ pending' = FALSE /\ res' = FALSE
           /\ UNCHANGED <<args, stack, open, pc, file, written, child, printed, exec>>

\* A mutant: the parent goes on without waiting for the child.
Return_NoWait == /\ pc = "wait" /\ pc' = "walk"
                 /\ printed' = IF res THEN printed \cup file ELSE printed
                 /\ UNCHANGED <<args, stack, open, call, exec>>

(***************************************************************************)
(* wait() returns when the child has ended, and not before a signal sent   *)
(* earlier is delivered; the file is printed if res still says so.         *)
(***************************************************************************)
Return == /\ pc = "wait" /\ child = "zombie" /\ ~pending
          /\ pc' = "walk" /\ child' = "none"
          /\ printed' = IF res THEN printed \cup file ELSE printed
          /\ UNCHANGED <<args, stack, open, file, res, written, pending, exec>>

ChildStep(from, to) == child = from /\ child' = to

\* The child: read() blocks until the parent has written; execvp() fails or not.
ReadPid == /\ ChildStep("read", "exec") /\ written
           /\ UNCHANGED <<args, stack, open, pc, file, res, written, pending, printed, exec>>

Exec == /\ \/ /\ ChildStep("exec", "program")
              /\ exec' = [f \in Files |-> IF f \in file THEN "started" ELSE exec[f]]
           \/ /\ ChildStep("exec", "kill")
              /\ exec' = [f \in Files |-> IF f \in file THEN "refused" ELSE exec[f]]
        /\ UNCHANGED <<args, stack, open, pc, file, res, written, pending, printed>>

Kill == /\ ChildStep("kill", "exit")
        /\ pending' = TRUE
        /\ UNCHANGED <<args, stack, open, pc, file, res, written, printed, exec>>

\* exit(0), or the end of the program, whatever its status.
Exit == /\ ChildStep("exit", "zombie") \/ ChildStep("program", "zombie")
        /\ UNCHANGED <<args, stack, open, pc, file, res, written, pending, printed, exec>>

Parent == \/ \E e \in Files \cup Dirs : ReadDir(e) \/ ReadFile(e)
          \/ EndDir \/ Pipe \/ Fork \/ Write \/ Return

Child == ReadPid \/ Exec \/ Kill \/ Exit

Next == Parent \/ Deliver \/ Child

Spec == Init /\ [][Next]_vars

\* Both processes run, signals arrive, and the program that is run ends.
FairSpec == Spec /\ WF_vars(Parent) /\ WF_vars(Deliver) /\ WF_vars(Child)
-----------------------------------------------------------------------------
(***************************************************************************)
(* How many descriptors the walk takes: one for each directory, and two    *)
(* for each file that the program is run on.                               *)
(***************************************************************************)
Enough == limit >= Cardinality(Dirs) + 2 * Cardinality(matching)

(***************************************************************************)
(* A failed execvp() is noticed in the call of checkExec() that caused it, *)
(* and in no other: the handler never writes the variable of a call that   *)
(* has returned, and no call leaves a child behind.                        *)
(***************************************************************************)
SignalMeetsItsCall ==
  /\ pending => pc = "wait" /\ \A f \in file : exec[f] = "refused"
  /\ child # "none" => pc \in {"write", "wait"}

(***************************************************************************)
(* Only files that match are printed, and after a program only those for   *)
(* which it could be started.  With enough descriptors none is missing.    *)
(***************************************************************************)
PrintedIsRight ==
  /\ printed \subseteq matching
  /\ pc = "walk" /\ program => printed = {f \in Files : exec[f] = "started"}
  /\ pc = "done" /\ Enough =>
       matching = IF program THEN {f \in Files : exec[f] # "none"} ELSE printed

\* The array of a pipe that could not be made is used only for want of descriptors.
DescriptorsSuffice == pc = "undefined" => ~Enough

\* The walk comes to its end, unless it is stopped: nobody waits for the other for ever.
WalkEnds == <>(pc \in {"done", "failed", "undefined"})
=============================================================================
