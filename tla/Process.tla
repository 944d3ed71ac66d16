------------------------------ MODULE Process ------------------------------
(***************************************************************************)
(* process.cpp and pipe.cpp on Linux: a program that makes pipes, gives    *)
(* their ends to a process and starts it, and what the process makes of    *)
(* them before it becomes the other program.  Descriptors are numbers, and *)
(* a new one gets the lowest that is free.  No descriptor is marked        *)
(* close-on-exec.                                                          *)
(***************************************************************************)
EXTENDS Integers, FiniteSets

CONSTANTS
  Descriptors,   \* bound: the numbers a process may use, from 0 on
  IoChoices      \* the handles set_process_io is given

ASSUME ProcessAssumption ==
  /\ 0..2 \subseteq Descriptors /\ Descriptors \subseteq Nat
  /\ IoChoices \subseteq Descriptors \X Descriptors \X Descriptors

VARIABLES
  fds,     \* what each descriptor of the program refers to
  ends,    \* the pipe_t: the numbers of its ends, -1 after free
  info,    \* process_start_info: the three handles; path and args, each none, borrowed
           \* from the caller or owned, and whether it is to be freed
  lost,    \* copies that nothing refers to any more, and whether memory was freed that
           \* the info did not own
  child    \* the process: where it stands, its descriptors, the handles it was given
           \* and what they referred to, and whether p->detail still names it

processVars == <<fds, ends, info, lost, child>>

Closed  == "closed"
NoChild == [at |-> "none", fds |-> <<>>, io |-> <<>>, given |-> <<>>, known |-> FALSE]
NewInfo == [io |-> <<0, 1, 2>>, path |-> "none", freePath |-> FALSE,
            args |-> "none", freeArgs |-> FALSE]

ProcessInit ==
  /\ fds = [d \in Descriptors |->
             CASE d = 0 -> "terminal in" [] d = 1 -> "terminal out" [] d = 2 -> "terminal err"
               [] OTHER -> Closed]
  /\ ends = [read |-> -1, write |-> -1]
  /\ info = NewInfo /\ lost = [copies |-> 0, misfreed |-> FALSE] /\ child = NoChild

(***************************************************************************)
(* Pipes                                                                   *)
(***************************************************************************)

\* pipe2, on a pipe_t that holds none.
PipeMake ==
  LET free == {d \in Descriptors : fds[d] = Closed}
      r == CHOOSE d \in free : \A e \in free : d <= e
      w == CHOOSE d \in free \ {r} : \A e \in free \ {r} : d <= e
  IN  /\ ends.read = -1 /\ ends.write = -1 /\ Cardinality(free) > 1
      /\ fds' = [fds EXCEPT ![r] = "read end", ![w] = "write end"]
      /\ ends' = [read |-> r, write |-> w]
      /\ UNCHANGED <<info, lost, child>>

\* free closes both ends; a pipe_t that was freed is left alone.
PipeFree ==
  /\ fds' = [d \in Descriptors |-> IF d \in {ends.read, ends.write} THEN Closed ELSE fds[d]]
  /\ ends' = [read |-> -1, write |-> -1]
  /\ UNCHANGED <<info, lost, child>>

(***************************************************************************)
(* Setting up                                                              *)
(***************************************************************************)

SetIo(io) ==
  /\ info' = [info EXCEPT !.io = io]
  /\ UNCHANGED <<fds, ends, lost, child>>

\* What freeing the path or the arguments leaves: the pointer goes only with memory
\* the flag says is to be freed.
PathFreed(i) == IF i.freePath THEN [i EXCEPT !.path = "none"] ELSE i
ArgsFreed(i) == IF i.freeArgs THEN [i EXCEPT !.args = "none"] ELSE i
Misfrees(i)  == (i.freePath /\ i.path = "borrowed") \/ (i.freeArgs /\ i.args = "borrowed")
Misfreed     == [lost EXCEPT !.misfreed = @ \/ Misfrees(info)]

\* Variant: a path that is not copied leaves the flag of one that was.
SetExecutableKeeps(copied) ==
  /\ info' = [PathFreed(info) EXCEPT !.path = IF copied THEN "owned" ELSE "borrowed",
                                     !.freePath = @ \/ copied]
  /\ lost' = Misfreed /\ UNCHANGED <<fds, ends, child>>

\* Of the overloads, that for the system's own units does not copy.
SetExecutable(copied) ==
  /\ info' = [PathFreed(info) EXCEPT !.path = IF copied THEN "owned" ELSE "borrowed",
                                     !.freePath = copied]
  /\ lost' = Misfreed /\ UNCHANGED <<fds, ends, child>>

\* A command line, or nothing.
SetCommandLine(args) ==
  /\ info' = [ArgsFreed(info) EXCEPT !.args = args, !.freeArgs = (args = "owned")]
  /\ lost' = Misfreed /\ UNCHANGED <<fds, ends, child>>

\* A list of arguments, taken as it is or copied: copies that were there are forgotten.
SetArgumentList(args) ==
  /\ info' = [info EXCEPT !.args = args, !.freeArgs = (args = "owned")]
  /\ lost' = [lost EXCEPT !.copies = IF info.args = "owned" /\ @ < 2 THEN @ + 1 ELSE @]
  /\ UNCHANGED <<fds, ends, child>>

\* process_destroy, and process_create of what was destroyed.
Destroy ==
  /\ info' = NewInfo /\ lost' = Misfreed /\ child' = NoChild
  /\ UNCHANGED <<fds, ends>>

(***************************************************************************)
(* Starting                                                                *)
(***************************************************************************)

\* The new process has the descriptors of the program, and its own copy of the info.  A
\* process started before goes on; p->detail and the model forget it.  Without a new
\* process p->detail names the one that was.
Start ==
  /\ \/ child' = [at |-> "input", fds |-> fds, io |-> info.io, known |-> TRUE,
                  given |-> [k \in 1..3 |-> fds[info.io[k]]]]
     \/ UNCHANGED child
  /\ UNCHANGED <<fds, ends, info, lost>>

\* dup3 refuses equal numbers and numbers that are not open.
Dup(from, to) ==
  IF from = to \/ child.fds[from] = Closed THEN {} ELSE {[child.fds EXCEPT ![to] = child.fds[from]]}

\* One of the three handles goes to its number, unless the code's test of which says it
\* is there; without that the process ends.
Places(step, handle, to, there, next) ==
  /\ child.at = step /\ UNCHANGED <<fds, ends, info, lost>>
  /\ IF there THEN child' = [child EXCEPT !.at = next]
     ELSE IF Dup(handle, to) = {} THEN child' = [child EXCEPT !.at = "failed"]
     ELSE \E f \in Dup(handle, to) : child' = [child EXCEPT !.at = next, !.fds = f]

PlaceInput  == Places("input", child.io[1], 0, child.io[1] = 0, "output")
PlaceOutput == Places("output", child.io[2], 1, child.io[2] = 1, "error")

\* Variant: the output goes where the errors go.
PlaceErrorOutput == Places("error", child.io[2], 2, child.io[2] = 2, "exec")

\* The test looks at the output handle.
PlaceError  == Places("error", child.io[3], 2, child.io[2] = 2, "exec")

\* execve becomes the program or fails, and the process ends.
Exec ==
  /\ child.at = "exec" /\ \E at \in {"running", "no program"} : child' = [child EXCEPT !.at = at]
  /\ UNCHANGED <<fds, ends, info, lost>>

\* process_stop kills the process p->detail names, whether or not it still runs; the
\* second time there is none.
Stop ==
  /\ child.known /\ child' = NoChild
  /\ UNCHANGED <<fds, ends, info, lost>>

ProcessNext ==
  \/ PipeMake \/ PipeFree
  \/ \E io \in IoChoices : SetIo(io)
  \/ \E copied \in BOOLEAN : SetExecutable(copied)
  \/ \E args \in {"none", "owned"} : SetCommandLine(args)
  \/ \E args \in {"none", "owned", "borrowed"} : SetArgumentList(args)
  \/ Start \/ Stop \/ Destroy
  \/ PlaceInput \/ PlaceOutput \/ PlaceError \/ Exec

(***************************************************************************)
(* Properties                                                              *)
(***************************************************************************)

\* The handle that descriptor k - 1 of the child is to be, and what it referred to: as
\* the test of PlaceError is, the errors are taken to be in place when the output
\* handle is 2, and the error handle is not looked at.
HandleFor(io, k) == IF k = 3 /\ io[2] = 2 THEN 2 ELSE io[k]
Wanted(c, k)  == IF k = 3 /\ c.io[2] = 2 THEN c.given[2] ELSE c.given[k]

\* Handles the child can move one by one: none is moved over before it is looked at,
\* and dup3 is not asked to put 2 where it is.
Movable(io) ==
  /\ \A k, j \in 1..3 : k < j /\ HandleFor(io, j) = k - 1 => HandleFor(io, k) = k - 1
  /\ io[3] = 2 => io[2] = 2

Runs(c) == c.at = "running" => \A k \in 1..3 : Wanted(c, k) # Closed => c.fds[k - 1] = Wanted(c, k)

\* set_process_io "sets the io_handles of the process to In, Out and Err" (process.hpp):
\* handles the child can move one by one are its input, output and error when it runs,
\* and it runs if they were open, whatever the program closes meanwhile; and what the
\* info frees is memory it owns.  Against the header, an output handle of 2 leaves
\* descriptor 2 what it was, whatever the error handle is (process.cpp:629).
StartsAsSetUp ==
  /\ child.at # "none" /\ Movable(child.io) =>
       /\ Runs(child)
       /\ child.at = "failed" => \E k \in 1..3 : child.given[k] = Closed
  /\ ~lost.misfreed

(***************************************************************************)
(* A statement of the header that the code does not keep                   *)
(***************************************************************************)

\* process_start "Starts the process with the parameters set" (process.hpp, whose example
\* sets no handles): with the handles that process_create has set, and that are open,
\* the new process gets as far as becoming the program.
StartsWithItsHandles ==
  child.at = "failed" /\ child.io = NewInfo.io => \E k \in 1..3 : child.given[k] = Closed
=============================================================================
