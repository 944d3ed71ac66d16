---------------------------- MODULE EntireReads ----------------------------
(***************************************************************************)
(* streams.cpp: a whole file, or all that is in a pipe, read into a string *)
(* or a memory stream.  The size is asked for first, room is made, then    *)
(* the bytes are read; other programs write to the file and the pipe, cut  *)
(* the file and read from the pipe between any two of these system calls.  *)
(***************************************************************************)
EXTENDS FileStream

CONSTANTS
  Unread,   \* what room holds before it is written
  Ending    \* the NUL behind a string

VARIABLES
  pipe,    \* the bytes in the pipe
  job,     \* the call: where it stands, what it reads from and into, the size it
           \* goes by, the position it found, what it returned
  out,     \* the bytes of the string or memory stream, its size
  taken    \* what was there when the size was asked for, what was read, and whether
           \* another program took bytes away in between

entireVars == <<pipe, job, out, taken>>

Sources == {"file", "handle", "pipe"}   \* a file_stream; an io_handle of a file or pipe
Targets == {"string", "stream"}

NoJob == [at |-> "none", from |-> "file", into |-> "string", size |-> 0, position |-> 0,
          ret |-> FALSE]

NoRoom == [bytes |-> <<>>, size |-> 0]
NothingRead == [before |-> <<>>, read |-> <<>>, cut |-> FALSE]

EntireInit ==
  /\ pipe \in UNION {[1..n -> FileBytes] : n \in FileLengths}
  /\ job = NoJob /\ out = NoRoom /\ taken = NothingRead

There == IF job.from = "pipe" THEN pipe
         ELSE IF job.from = "handle" THEN SubSeq(file, fs.position + 1, Len(file))
         ELSE file

At(step) == job.at = step
Going    == job.at \notin {"none", "done"}

Ends(ret) == job' = [job EXCEPT !.at = "done", !.ret = ret]

(***************************************************************************)
(* The steps of a call                                                     *)
(***************************************************************************)

\* io_size: of a file the whole size, wherever the position is.
SizeOf(from) == IF from = "pipe" THEN Len(pipe) ELSE Len(file)

\* Room for sz bytes: a string ends behind them already.
Room(into, sz) ==
  [bytes |-> [i \in 1..sz |-> Unread] \o (IF into = "string" THEN <<Ending>> ELSE <<>>),
   size  |-> sz]

\* read_entire_file, read_entire_io, read_entire_pipe: the size, and room for it.
EntireBegin(from, into) ==
  /\ ~Going /\ (from # "pipe" => fs.open)
  /\ LET sz == SizeOf(from)
     IN  /\ out' = Room(into, sz)
         /\ job' = [at |-> IF sz = 0 THEN "done" ELSE IF from = "file" THEN "look" ELSE "poll",
                    from |-> from, into |-> into, size |-> sz, position |-> fs.position,
                    ret |-> sz = 0]
         /\ fs' = IF from = "file" THEN [fs EXCEPT !.cached = sz] ELSE fs
  /\ taken' = [before |-> IF from = "pipe" THEN pipe
                          ELSE IF from = "file" THEN file
                          ELSE SubSeq(file, fs.position + 1, Len(file)),
               read |-> <<>>, cut |-> FALSE]
  /\ UNCHANGED <<pipe, file, fileCall>>

\* The size cannot be told: nothing is touched.
EntireNoSize(from, into) ==
  /\ ~Going /\ IoMayFail /\ (from # "pipe" => fs.open)
  /\ job' = [NoJob EXCEPT !.at = "done", !.from = from, !.into = into, !.position = fs.position]
  /\ fs' = IF from = "file" THEN [fs EXCEPT !.cached = -1] ELSE fs
  /\ UNCHANGED <<pipe, out, taken, file, fileCall>>

\* file_stream's read_entire_file asks for the size once more, reads no more than the
\* room it was given, and goes to the start.
EntireLook ==
  /\ At("look")
  /\ fs' = [fs EXCEPT !.cached = Len(file), !.position = 0] /\ UNCHANGED file
  /\ FileCalled("move", 0, 0, 1, <<>>, 0)
  /\ job' = [job EXCEPT !.at = "read", !.size = IF Len(file) < @ THEN Len(file) ELSE @]
  /\ UNCHANGED <<pipe, out, taken>>

\* A pipe is not waited for.
EntirePoll ==
  /\ At("poll")
  /\ IF job.from = "pipe" /\ pipe = <<>> THEN Ends(FALSE)
     ELSE job' = [job EXCEPT !.at = "read"]
  /\ UNCHANGED <<pipe, out, taken, fileVars>>

\* Variant: the size of the string stays the one that was asked for.
FilledStale(s) ==
  [out EXCEPT !.bytes = [i \in DOMAIN out.bytes |-> IF i <= Len(s) THEN s[i] ELSE out.bytes[i]]]

\* out with s read into it; read_entire_io corrects the size of a string.
Filled(s) ==
  LET corrected == job.from # "file" /\ job.into = "string" /\ Len(s) # out.size
  IN  [bytes |-> [i \in DOMAIN out.bytes |->
                   IF i <= Len(s) THEN s[i]
                   ELSE IF corrected /\ i = Len(s) + 1 THEN Ending ELSE out.bytes[i]],
       size  |-> IF corrected THEN Len(s) ELSE out.size]

\* The read takes what is there, up to the size; on an empty pipe it waits.
EntireRead ==
  /\ At("read") /\ (job.from = "pipe" => pipe # <<>>)
  /\ LET s == SubSeq(There, 1, IF job.size < Len(There) THEN job.size ELSE Len(There))
     IN  /\ out' = Filled(s)
         /\ taken' = [taken EXCEPT !.read = s]
         /\ IF job.from = "pipe"
            THEN pipe' = SubSeq(pipe, Len(s) + 1, Len(pipe)) /\ UNCHANGED fileVars
            ELSE FileRead(-1, 1, job.size) /\ UNCHANGED pipe
  /\ IF job.from = "file" THEN job' = [job EXCEPT !.at = "back", !.ret = TRUE] ELSE Ends(TRUE)

\* A system call fails; after a read that fails the position is still put back.
EntireFails ==
  /\ Going /\ IoMayFail
  /\ IF At("read") /\ job.from = "file" THEN job' = [job EXCEPT !.at = "back"] ELSE Ends(FALSE)
  /\ UNCHANGED <<pipe, out, taken, fileVars>>

\* Variant: the position stays behind what was read.
EntireStays ==
  At("back") /\ Ends(job.ret) /\ UNCHANGED <<pipe, out, taken, fileVars>>

EntireBack ==
  /\ At("back") /\ Ends(job.ret) /\ FileSeekTo(job.position)
  /\ UNCHANGED <<pipe, out, taken>>

(***************************************************************************)
(* The others                                                              *)
(***************************************************************************)

\* Another program changes the file, writes to the pipe or reads from it.
OthersChange ==
  /\ Going /\ job.from # "pipe" /\ FileChanged
  /\ taken' = [taken EXCEPT !.cut = @ \/ Len(file') < Len(file)]
  /\ UNCHANGED <<pipe, job, out>>

OthersAdd ==
  /\ Going /\ job.from = "pipe" /\ Len(pipe) < FileMax
  /\ \E b \in FileBytes : pipe' = Append(pipe, b)
  /\ UNCHANGED <<job, out, taken, fileVars>>

OthersTake ==
  /\ Going /\ job.from = "pipe" /\ pipe # <<>>
  /\ pipe' = Tail(pipe) /\ taken' = [taken EXCEPT !.cut = TRUE]
  /\ UNCHANGED <<job, out, fileVars>>

EntireNext ==
  \/ /\ ~Going /\ job' = NoJob /\ out' = NoRoom /\ taken' = NothingRead /\ UNCHANGED pipe
     /\ FileOpen("Read") \/ \E p \in 1..FileMax : fs.open /\ FileSeekTo(p)
  \/ \E from \in Sources, into \in Targets : EntireBegin(from, into) \/ EntireNoSize(from, into)
  \/ EntireLook \/ EntirePoll \/ EntireRead \/ EntireFails \/ EntireBack
  \/ OthersChange \/ OthersAdd \/ OthersTake

(***************************************************************************)
(* Properties                                                              *)
(***************************************************************************)

Result == SubSeq(out.bytes, 1, out.size)

\* read_entire_file and its kind: what they return as read is, in full, what was there
\* when they asked for the size, unless another program has taken some of it away; a
\* string read from a handle or pipe is even then exactly what was read, with its NUL;
\* and a file stream stands where it stood before.
EntireIsRead ==
  (At("done") /\ job.ret) =>
    /\ ~taken.cut /\ ~(job.from = "handle" /\ job.position > 0) => Result = taken.before
    /\ job.into = "string" /\ job.from # "file" => Result = taken.read
    /\ job.into = "string" => out.bytes[out.size + 1] = Ending
    /\ job.from = "file" => fs.position = job.position
=============================================================================
