---------------------------- MODULE StreamProofs ----------------------------
(***************************************************************************)
(* Proofs about the streams: EntireReads, for files and pipes of any length, *)
(* and MemoryStream and FileStream, which implement Tape for streams and   *)
(* transfers of every size, whatever the system refuses and other programs *)
(* write.                                                                  *)
(***************************************************************************)
EXTENDS MCSystem, NumberProofs, SequenceTheorems

(***************************************************************************)
(* Entire reads.                                                           *)
(***************************************************************************)

JobStates ==
  [at : {"none", "look", "poll", "read", "back", "done"}, from : Sources, into : Targets,
   size : Nat, position : Nat, ret : BOOLEAN]

EntireTypeOK ==
  /\ file \in Seq(FileBytes) /\ pipe \in Seq(FileBytes)
  /\ fs \in [open : BOOLEAN, position : Nat, cached : Int]
  /\ job \in JobStates
  /\ out \in [bytes : Seq(FileBytes \cup {Unread, Ending}), size : Nat]
  /\ taken \in [before : Seq(FileBytes), read : Seq(FileBytes), cut : BOOLEAN]

\* What bytes are read from, when the position is at the start.
Source == IF job.from = "pipe" THEN pipe ELSE file

\* What is read is to be all that was there.
Exact == ~taken.cut /\ ~(job.from = "handle" /\ job.position > 0)

StartsWith(s, t) == Len(t) <= Len(s) /\ \A i \in 1..Len(t) : s[i] = t[i]

\* Before the read: nobody has touched the room, and what was there is still there, in
\* front of what was added.
Prepared ==
  job.at \in {"look", "poll", "read"} =>
    /\ ~job.ret /\ out = Room(job.into, out.size) /\ job.size <= out.size
    /\ job.from = "handle" => fs.position = job.position
    /\ Exact => /\ out.size = Len(taken.before) /\ job.size = out.size
                /\ StartsWith(Source, taken.before)

\* After it, and until the position is put back.
ReadOut ==
  job.at \in {"back", "done"} /\ job.ret =>
    /\ Exact => Result = taken.before
    /\ job.into = "string" /\ job.from # "file" => Result = taken.read
    /\ job.into = "string" => out.bytes[out.size + 1] = Ending

\* Only a file stream looks at the size again, and only it is put back.
Steps ==
  /\ job.at \in {"look", "back"} => job.from = "file"
  /\ job.at = "poll" => job.from # "file"
  /\ job.at = "done" /\ job.ret /\ job.from = "file" => fs.position = job.position

EntireInv == EntireTypeOK /\ Prepared /\ ReadOut /\ Steps

Held == FileBytes \cup {Unread, Ending}

\* A function of the first numbers is a sequence.
LEMMA ASequence ==
  ASSUME NEW S, NEW n \in Nat, NEW f \in [1..n -> S]
  PROVE  f \in Seq(S) /\ Len(f) = n
<1>1. f \in Seq(S)
  BY SeqDef
<1>2. DOMAIN f = 1..n
  OBVIOUS
<1> QED  BY <1>1, <1>2, LenProperties

\* Room for sz bytes, and the NUL of a string behind it.
LEMMA RoomIs ==
  ASSUME NEW into \in Targets, NEW sz \in Nat
  PROVE  /\ Room(into, sz) \in [bytes : Seq(Held), size : Nat] /\ Room(into, sz).size = sz
         /\ into # "string" => Len(Room(into, sz).bytes) = sz
         /\ into = "string" => /\ Len(Room(into, sz).bytes) = sz + 1
                               /\ Room(into, sz).bytes[sz + 1] = Ending
<1> DEFINE e == IF into = "string" THEN <<Ending>> ELSE <<>>
<1>0. PICK r : r = [i \in 1..sz |-> Unread] /\ r \in [1..sz -> Held]
  <2>1. Unread \in Held
    BY DEF Held
  <2>2. [i \in 1..sz |-> Unread] \in [1..sz -> Held]
    BY <2>1
  <2> QED  BY <2>2, Zenon
<1>1. r \in Seq(Held) /\ Len(r) = sz
  BY <1>0, ASequence
<1>2. e \in Seq(Held) /\ (into = "string" => Len(e) = 1 /\ e[1] = Ending)
      /\ (into # "string" => Len(e) = 0)
  <2>1. <<Ending>> \in Seq(Held)
    <3>1. Ending \in Held
      BY DEF Held
    <3> QED  BY <3>1
  <2> QED  BY <2>1, EmptySeq
<1>3. Room(into, sz) = [bytes |-> r \o e, size |-> sz]
  BY <1>0 DEF Room
<1> HIDE DEF e
<1>4. /\ r \o e \in Seq(Held) /\ Len(r \o e) = sz + Len(e)
      /\ into = "string" => (r \o e)[sz + 1] = e[1]
  BY <1>1, <1>2
<1> QED  BY <1>2, <1>3, <1>4

\* What is read lies in front; behind it is the NUL, whether the size is corrected or not.
LEMMA FilledIs ==
  ASSUME EntireTypeOK, out = Room(job.into, out.size),
         NEW s \in Seq(FileBytes), Len(s) <= out.size
  PROVE  LET o == Filled(s)
         IN  /\ o \in [bytes : Seq(Held), size : Nat]
             /\ o.size = Len(s) => SubSeq(o.bytes, 1, o.size) = s
             /\ o.size = out.size \/ o.size = Len(s)
             /\ job.into = "string" => o.bytes[o.size + 1] = Ending
             /\ job.into = "string" /\ job.from # "file" => o.size = Len(s)
<1>0. PICK z : z = out.size
  OBVIOUS
<1>1. PICK b : b = out.bytes
  OBVIOUS
<1>2. PICK n : n = Len(s)
  OBVIOUS
<1>3. z \in Nat /\ n \in Nat /\ n <= z /\ job.into \in Targets
  BY <1>0, <1>2 DEF EntireTypeOK, JobStates
<1>4. /\ b \in Seq(Held) /\ DOMAIN b = 1..Len(b) /\ Len(b) \in Nat
      /\ job.into # "string" => Len(b) = z
      /\ job.into = "string" => Len(b) = z + 1 /\ b[z + 1] = Ending
  <2>1. Room(job.into, z).bytes = b
    BY <1>0, <1>1
  <2>2. b \in Seq(Held)
    BY <1>3, <2>1, RoomIs
  <2>3. /\ job.into # "string" => Len(b) = z
        /\ job.into = "string" => Len(b) = z + 1 /\ b[z + 1] = Ending
    BY <1>3, <2>1, RoomIs
  <2> QED  BY <2>2, <2>3, LenProperties
<1> DEFINE corrected == job.from # "file" /\ job.into = "string" /\ n # z
           k == IF corrected THEN n ELSE z
<1>14. PICK f : f = [i \in 1..Len(b) |-> IF i <= n THEN s[i]
                                         ELSE IF corrected /\ i = n + 1 THEN Ending ELSE b[i]]
  OBVIOUS
<1>5. Filled(s) = [bytes |-> f, size |-> k]
  BY <1>0, <1>1, <1>2, <1>4, <1>14 DEF Filled
<1>6. \A i \in 1..Len(b) : f[i] \in Held
  <2>1. \A i \in 1..Len(b) : i <= n => s[i] \in FileBytes
    BY <1>2, <1>3
  <2>2. \A i \in 1..Len(b) : b[i] \in Held
    BY <1>4
  <2>3. Ending \in Held /\ FileBytes \subseteq Held
    BY DEF Held
  <2> QED  BY <1>14, <2>1, <2>2, <2>3
<1>7. f \in Seq(Held) /\ Len(f) = Len(b) /\ k \in Nat /\ n <= k /\ k <= Len(b)
  <2>1. f \in Seq(Held) /\ Len(f) = Len(b)
    <3>1. f \in [1..Len(b) -> Held]
      BY <1>6, <1>14
    <3> QED  BY <1>4, <3>1, ASequence
  <2>2. z <= Len(b)
    <3>1. PICK m : m = Len(b)
      OBVIOUS
    <3>2. CASE job.into = "string"
      <4>1. m = z + 1
        BY <1>4, <3>1, <3>2
      <4> QED  BY <1>3, <3>1, <4>1
    <3>3. CASE job.into # "string"
      <4>1. m = z
        BY <1>4, <3>1, <3>3
      <4> QED  BY <1>3, <3>1, <4>1
    <3> QED  BY <3>2, <3>3
  <2>3. k = n \/ k = z
    OBVIOUS
  <2> HIDE DEF k
  <2>4. k \in Nat /\ n <= k
    BY <1>3, <2>3
  <2>5. k <= z
    BY <1>3, <2>3
  <2>6. k <= Len(b)
    <3>1. PICK m : m = Len(b)
      OBVIOUS
    <3>2. m \in Nat /\ z <= m
      BY <1>4, <2>2, <3>1
    <3>3. k <= m
      BY <1>3, <2>4, <2>5, <3>2
    <3> QED  BY <3>1, <3>3
  <2> QED  BY <2>1, <2>4, <2>6
<1>8. \A i \in 1..n : f[i] = s[i]
  BY <1>3, <1>7, <1>14
<1>9. job.into = "string" => f[k + 1] = Ending
  BY <1>3, <1>4, <1>14
<1>10. ASSUME k = n PROVE SubSeq(f, 1, k) = s
  <2>1. /\ SubSeq(f, 1, n) \in Seq(Held) /\ Len(SubSeq(f, 1, n)) = n
        /\ \A i \in 1..n : SubSeq(f, 1, n)[i] = f[i]
    BY <1>3, <1>7, <1>10, SubSeqProperties
  <2>2. s \in Seq(Held)
    BY DEF Held
  <2>3. SubSeq(f, 1, n) = s
    BY <1>2, <1>8, <2>1, <2>2, SeqEqual
  <2> QED  BY <1>10, <2>3
<1>11. k = z \/ k = n
  OBVIOUS
<1>12. job.into = "string" /\ job.from # "file" => k = n
  OBVIOUS
<1> HIDE DEF k
<1>13. [bytes |-> f, size |-> k] \in [bytes : Seq(Held), size : Nat]
  BY <1>7
<1> QED  BY <1>0, <1>2, <1>5, <1>9, <1>10, <1>11, <1>12, <1>13

\* Another program adds behind the bytes, or takes some away.
LEMMA ChangedStarts ==
  ASSUME file \in Seq(FileBytes), FileChanged
  PROVE  /\ file' \in Seq(FileBytes) /\ fs' = fs
         /\ Len(file') < Len(file) \/ StartsWith(file', file)
<1>1. CASE \E b \in FileBytes : file' = Append(file, b)
  BY <1>1 DEF FileChanged, StartsWith
<1>2. CASE \E n \in 0..(Len(file) - 1) : file' = SubSeq(file, 1, n)
  <2>1. PICK n \in 0..(Len(file) - 1) : file' = SubSeq(file, 1, n)
    BY <1>2
  <2>2. file' \in Seq(FileBytes) /\ Len(file') = n
    <3>1. n \in Nat /\ n < Len(file)
      BY <2>1
    <3> QED  BY <2>1, <3>1, SubSeqProperties
  <2> QED  BY <2>1, <2>2 DEF FileChanged
<1> QED  BY <1>1, <1>2 DEF FileChanged

LEMMA StartsTransitive ==
  ASSUME NEW r \in Seq(FileBytes), NEW s \in Seq(FileBytes), NEW t \in Seq(FileBytes),
         StartsWith(r, s), StartsWith(s, t)
  PROVE  StartsWith(r, t)
  BY DEF StartsWith

\* Room is made for what is there.
LEMMA BeginKeeps ==
  ASSUME EntireInv, NEW from \in Sources, NEW into \in Targets, EntireBegin(from, into)
  PROVE  EntireInv'
<1>1. PICK z : z = SizeOf(from)
  OBVIOUS
<1>2. PICK p : p = fs.position
  OBVIOUS
<1>3. PICK t : t = IF from = "pipe" THEN pipe ELSE IF from = "file" THEN file
                   ELSE SubSeq(file, p + 1, Len(file))
  OBVIOUS
<1>4. PICK a : a = IF z = 0 THEN "done" ELSE IF from = "file" THEN "look" ELSE "poll"
  OBVIOUS
<1>5. PICK r : r = (z = 0)
  OBVIOUS
<1>6. /\ out' = Room(into, z) /\ taken' = [before |-> t, read |-> <<>>, cut |-> FALSE]
      /\ job' = [at |-> a, from |-> from, into |-> into, size |-> z, position |-> p, ret |-> r]
      /\ fs' = (IF from = "file" THEN [fs EXCEPT !.cached = z] ELSE fs)
      /\ pipe' = pipe /\ file' = file
  BY <1>1, <1>2, <1>3, <1>4, <1>5, Zenon DEF EntireBegin
<1>7. /\ file \in Seq(FileBytes) /\ pipe \in Seq(FileBytes) /\ p \in Nat
      /\ fs \in [open : BOOLEAN, position : Nat, cached : Int]
  BY <1>2 DEF EntireInv, EntireTypeOK
<1>8. z \in Nat /\ r \in BOOLEAN /\ a \in {"done", "look", "poll"}
  BY <1>1, <1>4, <1>5, <1>7 DEF SizeOf
<1>9. t \in Seq(FileBytes)
  <2>1. SubSeq(file, p + 1, Len(file)) \in Seq(FileBytes)
    BY <1>7
  <2> QED  BY <1>3, <1>7, <2>1, Zenon
<1>10. Source' \in Seq(FileBytes) /\ Len(Source') = z
  BY <1>1, <1>6, <1>7 DEF Source, SizeOf
<1>11. Exact' => t = Source'
  <2>1. CASE from = "handle"
    <3>1. ASSUME Exact' PROVE p = 0
      BY <1>6, <1>7, <2>1, <3>1 DEF Exact
    <3>2. SubSeq(file, 1, Len(file)) = file
      BY <1>7, SubSeqFull
    <3>3. p = 0 => t = file
      BY <1>3, <2>1, <3>2
    <3> QED  BY <1>6, <2>1, <3>1, <3>3 DEF Source
  <2> QED  BY <1>3, <1>6, <2>1 DEF Source, Sources
<1>12. fs' \in [open : BOOLEAN, position : Nat, cached : Int] /\ fs'.position = p
  BY <1>2, <1>6, <1>7, <1>8
<1>13. /\ out' \in [bytes : Seq(Held), size : Nat] /\ out'.size = z
       /\ into = "string" => out'.bytes[z + 1] = Ending
  BY <1>6, <1>8, RoomIs
<1>14. EntireTypeOK'
  BY <1>6, <1>7, <1>8, <1>9, <1>12, <1>13 DEF EntireTypeOK, JobStates, Held
<1>15. /\ job'.at = a /\ job'.from = from /\ job'.into = into /\ job'.size = z
       /\ job'.position = p /\ job'.ret = r /\ taken'.before = t /\ taken'.read = <<>>
  BY <1>6
<1>16. Prepared'
  <2> SUFFICES ASSUME a \in {"look", "poll", "read"}
               PROVE  /\ ~r /\ out' = Room(into, out'.size) /\ z <= out'.size
                      /\ from = "handle" => fs'.position = p
                      /\ Exact' => /\ out'.size = Len(t) /\ z = out'.size
                                   /\ StartsWith(Source', t)
    BY <1>15 DEF Prepared
  <2>1. ~r
    BY <1>4, <1>5
  <2>2. Exact' => out'.size = Len(t) /\ StartsWith(Source', t)
    BY <1>10, <1>11, <1>13 DEF StartsWith
  <2> QED  BY <1>6, <1>8, <1>12, <1>13, <2>1, <2>2
<1>17. ReadOut'
  <2> SUFFICES ASSUME r
               PROVE  /\ Exact' => Result' = t
                      /\ into = "string" /\ from # "file" => Result' = <<>>
                      /\ into = "string" => out'.bytes[out'.size + 1] = Ending
    BY <1>15 DEF ReadOut
  <2>1. z = 0
    BY <1>5
  <2>2. PICK b : b = out'.bytes
    OBVIOUS
  <2>3. b \in Seq(Held) /\ Result' = SubSeq(b, 1, 0)
    BY <1>13, <2>1, <2>2 DEF Result
  <2>4. Result' = <<>>
    BY <2>3
  <2>5. Exact' => t = <<>>
    BY <1>10, <1>11, <2>1
  <2> QED  BY <1>13, <2>4, <2>5
<1>18. Steps'
  BY <1>4, <1>12, <1>15 DEF Steps
<1> QED  BY <1>14, <1>16, <1>17, <1>18 DEF EntireInv

\* A job that fails, or one that is yet to come, has read nothing.
LEMMA FailedKeeps ==
  ASSUME EntireTypeOK', job'.at \in {"none", "done"}, ~job'.ret
  PROVE  EntireInv'
  BY DEF EntireInv, Prepared, ReadOut, Steps

LEMMA NoSizeKeeps ==
  ASSUME EntireInv, NEW from \in Sources, NEW into \in Targets, EntireNoSize(from, into)
  PROVE  EntireInv'
<1>1. job' \in JobStates /\ job'.at = "done" /\ job'.ret = FALSE
  BY DEF EntireInv, EntireTypeOK, EntireNoSize, NoJob, JobStates
<1>2. fs' \in [open : BOOLEAN, position : Nat, cached : Int]
  <2>1. fs \in [open : BOOLEAN, position : Nat, cached : Int]
    BY DEF EntireInv, EntireTypeOK
  <2>2. fs' = [fs EXCEPT !.cached = -1] \/ fs' = fs
    BY Zenon DEF EntireNoSize
  <2>3. CASE fs' = [fs EXCEPT !.cached = -1]
    BY <2>1, <2>3
  <2>4. CASE fs' = fs
    BY <2>1, <2>4
  <2> QED  BY <2>2, <2>3, <2>4
<1>3. EntireTypeOK'
  BY <1>1, <1>2 DEF EntireInv, EntireTypeOK, EntireNoSize
<1> QED  BY <1>1, <1>3, FailedKeeps

LEMMA LookKeeps ==
  ASSUME EntireInv, EntireLook
  PROVE  EntireInv'
<1>1. PICK n : n = IF Len(file) < job.size THEN Len(file) ELSE job.size
  OBVIOUS
<1>2. /\ job.at = "look" /\ job.from = "file" /\ job \in JobStates /\ file \in Seq(FileBytes)
      /\ fs \in [open : BOOLEAN, position : Nat, cached : Int]
  BY DEF EntireInv, EntireTypeOK, Steps, EntireLook, At
<1>3. /\ fs' = [fs EXCEPT !.cached = Len(file), !.position = 0] /\ file' = file
      /\ job' = [job EXCEPT !.at = "read", !.size = n]
      /\ pipe' = pipe /\ out' = out /\ taken' = taken
  BY <1>1 DEF EntireLook
<1>4. n \in Nat /\ n <= job.size
  BY <1>1, <1>2 DEF JobStates
<1>5. /\ job' \in JobStates /\ job'.at = "read" /\ job'.from = job.from /\ job'.size = n
      /\ job'.into = job.into /\ job'.position = job.position /\ job'.ret = job.ret
  BY <1>2, <1>3, <1>4 DEF JobStates
<1>6. EntireTypeOK'
  <2>1. fs' \in [open : BOOLEAN, position : Nat, cached : Int]
    <3>1. PICK c : c = Len(file)
      OBVIOUS
    <3>2. c \in Int
      BY <1>2, <3>1
    <3>3. fs' = [fs EXCEPT !.cached = c, !.position = 0]
      BY <1>3, <3>1
    <3> QED  BY <1>2, <3>2, <3>3
  <2> QED  BY <1>3, <1>5, <2>1 DEF EntireInv, EntireTypeOK
<1>7. Exact' = Exact /\ Source' = Source /\ Source = file
  BY <1>2, <1>3, <1>5 DEF Exact, Source
<1>8. /\ ~job.ret /\ out = Room(job.into, out.size) /\ job.size <= out.size
      /\ Exact => /\ out.size = Len(taken.before) /\ job.size = out.size
                  /\ StartsWith(file, taken.before)
  BY <1>2, <1>7 DEF EntireInv, Prepared
<1>9. Exact => n = job.size
  BY <1>1, <1>2, <1>8 DEF StartsWith, JobStates
<1>10. out.size \in Nat /\ job.size \in Nat
  BY DEF EntireInv, EntireTypeOK, JobStates
<1>11. n <= out.size
  BY <1>4, <1>8, <1>10
<1>12. Prepared'
  BY <1>2, <1>3, <1>5, <1>7, <1>8, <1>9, <1>11 DEF Prepared
<1> QED  BY <1>5, <1>6, <1>12 DEF EntireInv, ReadOut, Steps

LEMMA PollKeeps ==
  ASSUME EntireInv, EntirePoll
  PROVE  EntireInv'
<1>1. /\ job.at = "poll" /\ job.from # "file" /\ job \in JobStates
      /\ pipe' = pipe /\ out' = out /\ taken' = taken /\ file' = file /\ fs' = fs
  BY DEF EntireInv, EntireTypeOK, Steps, EntirePoll, At, fileVars
<1>2. CASE Ends(FALSE)
  <2>1. job' \in JobStates /\ job'.at = "done" /\ job'.ret = FALSE
    BY <1>1, <1>2 DEF Ends, JobStates
  <2>2. EntireTypeOK'
    BY <1>1, <2>1 DEF EntireInv, EntireTypeOK
  <2> QED  BY <2>1, <2>2, FailedKeeps
<1>3. CASE job' = [job EXCEPT !.at = "read"]
  <2>1. /\ job' \in JobStates /\ job'.at = "read" /\ job'.from = job.from
        /\ job'.size = job.size /\ job'.into = job.into /\ job'.position = job.position
        /\ job'.ret = job.ret
    BY <1>1, <1>3 DEF JobStates
  <2>2. EntireTypeOK'
    BY <1>1, <2>1 DEF EntireInv, EntireTypeOK
  <2>3. Exact' = Exact /\ Source' = Source
    BY <1>1, <2>1 DEF Exact, Source
  <2>4. Prepared'
    BY <1>1, <2>1, <2>3 DEF EntireInv, Prepared
  <2> QED  BY <2>1, <2>2, <2>4 DEF EntireInv, ReadOut, Steps
<1> QED  BY <1>2, <1>3 DEF EntirePoll

\* What a read at the handle's position does to the handle.
LEMMA HandleReads ==
  ASSUME EntireTypeOK, NEW n \in Nat, FileRead(-1, 1, n)
  PROVE  file' = file /\ fs' \in [open : BOOLEAN, position : Nat, cached : Int]
<1>1. PICK p : p = fs.position
  OBVIOUS
<1>2. PICK l : l = Len(Beyond(file, p, 1 * n))
  OBVIOUS
<1>3. file' = file /\ fs' = [fs EXCEPT !.position = p + l]
  BY <1>1, <1>2 DEF FileRead, FileStart
<1>4. fs \in [open : BOOLEAN, position : Nat, cached : Int] /\ p \in Nat /\ file \in Seq(FileBytes)
  BY <1>1 DEF EntireTypeOK
<1>5. l \in Nat
  <2>1. PICK e : e = IF p + 1 * n < Len(file) THEN p + 1 * n ELSE Len(file)
    OBVIOUS
  <2>2. e \in Int
    BY <1>4, <2>1
  <2>3. SubSeq(file, p + 1, e) \in Seq(FileBytes)
    <3>1. CASE p + 1 <= e + 1
      <4>1. p + 1 \in 1..(Len(file) + 1) /\ e \in p..Len(file)
        BY <1>4, <2>1, <2>2, <3>1
      <4> QED  BY <1>4, <4>1, SubSeqProperties
    <3>2. CASE ~(p + 1 <= e + 1)
      <4>1. SubSeq(file, p + 1, e) = <<>>
        BY <1>4, <2>2, <3>2
      <4> QED  BY <4>1, EmptySeq
    <3> QED  BY <3>1, <3>2
  <2>4. Beyond(file, p, 1 * n) = SubSeq(file, p + 1, e)
    BY <2>1 DEF Beyond
  <2> QED  BY <1>2, <2>3, <2>4, LenProperties
<1> QED  BY <1>3, <1>4, <1>5

\* What is read is all that was there, unless some of it has been taken away.
LEMMA ReadKeeps ==
  ASSUME EntireInv, EntireRead
  PROVE  EntireInv'
<1>0. EntireTypeOK
  BY DEF EntireInv
<1>1. PICK w : w = There
  OBVIOUS
<1>2. PICK m : m = IF job.size < Len(w) THEN job.size ELSE Len(w)
  OBVIOUS
<1>3. PICK s : s = SubSeq(w, 1, m)
  OBVIOUS
<1>4. /\ job.at = "read" /\ out' = Filled(s) /\ taken' = [taken EXCEPT !.read = s]
      /\ IF job.from = "pipe"
         THEN pipe' = SubSeq(pipe, Len(s) + 1, Len(pipe)) /\ UNCHANGED fileVars
         ELSE FileRead(-1, 1, job.size) /\ UNCHANGED pipe
      /\ IF job.from = "file" THEN job' = [job EXCEPT !.at = "back", !.ret = TRUE]
         ELSE Ends(TRUE)
  BY <1>1, <1>2, <1>3, Zenon DEF EntireRead, At
<1>5. /\ job \in JobStates /\ job.size \in Nat /\ out.size \in Nat /\ job.position \in Nat
      /\ file \in Seq(FileBytes) /\ pipe \in Seq(FileBytes) /\ fs.position \in Nat
      /\ taken \in [before : Seq(FileBytes), read : Seq(FileBytes), cut : BOOLEAN]
  BY <1>0 DEF EntireTypeOK, JobStates
<1>6. /\ out = Room(job.into, out.size) /\ job.size <= out.size
      /\ job.from = "handle" => fs.position = job.position
      /\ Exact => /\ out.size = Len(taken.before) /\ job.size = out.size
                  /\ StartsWith(Source, taken.before)
  BY <1>4 DEF EntireInv, Prepared
<1>7. w \in Seq(FileBytes)
  <2>1. SubSeq(file, fs.position + 1, Len(file)) \in Seq(FileBytes)
    BY <1>5
  <2> QED  BY <1>1, <1>5, <2>1, Zenon DEF There
<1>8. Exact => w = Source
  <2>1. SubSeq(file, 1, Len(file)) = file
    BY <1>5, SubSeqFull
  <2>2. ASSUME job.from = "handle", Exact PROVE fs.position + 1 = 1
    BY <1>5, <1>6, <2>2 DEF Exact
  <2>3. CASE job.from = "handle"
    BY <1>1, <2>1, <2>2, <2>3 DEF There, Source
  <2>4. CASE job.from # "handle"
    BY <1>1, <2>4 DEF There, Source
  <2> QED  BY <2>3, <2>4
<1>9. /\ m \in Nat /\ m <= out.size /\ s \in Seq(FileBytes) /\ Len(s) = m
      /\ \A i \in 1..m : s[i] = w[i]
  <2>1. PICK l : l = Len(w)
    OBVIOUS
  <2>2. l \in Nat
    BY <1>7, <2>1
  <2>3. m \in Nat /\ m <= job.size /\ m <= l
    BY <1>2, <1>5, <2>1, <2>2
  <2>4. m <= out.size
    BY <1>5, <1>6, <2>3
  <2>5. 1 \in 1..(Len(w) + 1) /\ m \in (1 - 1)..Len(w)
    BY <2>1, <2>2, <2>3
  <2>6. /\ s \in Seq(FileBytes) /\ Len(s) = (IF 1 <= m THEN m - 1 + 1 ELSE 0)
        /\ \A i \in 1..(m - 1 + 1) : s[i] = w[1 + i - 1]
    BY <1>3, <1>7, <2>5, SubSeqProperties
  <2> QED  BY <2>3, <2>4, <2>6
<1>10. ASSUME Exact PROVE s = taken.before
  <2>1. Len(w) \in Nat /\ Len(taken.before) <= Len(w) /\ \A i \in 1..Len(taken.before) : w[i] = taken.before[i]
    BY <1>6, <1>7, <1>8, <1>10 DEF StartsWith
  <2>2. job.size = Len(taken.before)
    BY <1>6, <1>10
  <2>3. m = Len(taken.before)
    <3>1. PICK l : l = Len(w)
      OBVIOUS
    <3> QED  BY <1>2, <1>5, <2>1, <2>2, <3>1
  <2>4. taken.before \in Seq(FileBytes)
    BY <1>5
  <2>5. Len(s) = Len(taken.before) /\ \A i \in 1..Len(s) : s[i] = taken.before[i]
    BY <1>9, <2>1, <2>3
  <2> QED  BY <1>9, <2>4, <2>5, SeqEqual
<1>11. PICK o : o = Filled(s)
  OBVIOUS
<1>12. /\ o \in [bytes : Seq(Held), size : Nat]
       /\ o.size = Len(s) => SubSeq(o.bytes, 1, o.size) = s
       /\ o.size = out.size \/ o.size = Len(s)
       /\ job.into = "string" => o.bytes[o.size + 1] = Ending
       /\ job.into = "string" /\ job.from # "file" => o.size = Len(s)
  BY <1>0, <1>6, <1>9, <1>11, FilledIs
<1>13. /\ job' \in JobStates /\ job'.ret = TRUE /\ job'.from = job.from /\ job'.into = job.into
       /\ job'.position = job.position
       /\ job'.at = IF job.from = "file" THEN "back" ELSE "done"
  <2>1. CASE job.from = "file"
    <3>1. job' = [job EXCEPT !.at = "back", !.ret = TRUE]
      BY <1>4, <2>1
    <3> QED  BY <1>5, <2>1, <3>1 DEF JobStates
  <2>2. CASE job.from # "file"
    <3>1. job' = [job EXCEPT !.at = "done", !.ret = TRUE]
      BY <1>4, <2>2 DEF Ends
    <3> QED  BY <1>5, <2>2, <3>1 DEF JobStates
  <2> QED  BY <2>1, <2>2
<1>14. /\ file' \in Seq(FileBytes) /\ pipe' \in Seq(FileBytes)
       /\ fs' \in [open : BOOLEAN, position : Nat, cached : Int]
  <2>1. CASE job.from = "pipe"
    <3>1. pipe' = SubSeq(pipe, m + 1, Len(pipe)) /\ file' = file /\ fs' = fs
      BY <1>4, <1>9, <2>1 DEF fileVars
    <3>2. SubSeq(pipe, m + 1, Len(pipe)) \in Seq(FileBytes)
      BY <1>5, <1>9
    <3> QED  BY <1>0, <1>5, <3>1, <3>2 DEF EntireTypeOK
  <2>2. CASE job.from # "pipe"
    <3>1. FileRead(-1, 1, job.size) /\ pipe' = pipe
      BY <1>4, <2>2
    <3> QED  BY <1>0, <1>5, <3>1, HandleReads
  <2> QED  BY <2>1, <2>2
<1>15. /\ taken' \in [before : Seq(FileBytes), read : Seq(FileBytes), cut : BOOLEAN]
       /\ taken'.before = taken.before /\ taken'.read = s /\ taken'.cut = taken.cut
  BY <1>4, <1>5, <1>9
<1>16. EntireTypeOK'
  BY <1>4, <1>11, <1>12, <1>13, <1>14, <1>15 DEF EntireTypeOK, Held
<1>17. Exact' = Exact
  BY <1>13, <1>15 DEF Exact
<1>18. out' = o /\ Result' = SubSeq(o.bytes, 1, o.size)
  BY <1>4, <1>11 DEF Result
<1>19. ReadOut'
  <2>1. Exact' => Result' = taken'.before
    <3> SUFFICES ASSUME Exact PROVE Result' = taken.before
      BY <1>15, <1>17
    <3>1. Len(s) = out.size
      BY <1>6, <1>10
    <3> QED  BY <1>10, <1>12, <1>18, <3>1
  <2>2. job'.into = "string" /\ job'.from # "file" => Result' = taken'.read
    BY <1>12, <1>13, <1>15, <1>18
  <2>3. job'.into = "string" => out'.bytes[out'.size + 1] = Ending
    BY <1>12, <1>13, <1>18
  <2> QED  BY <2>1, <2>2, <2>3 DEF ReadOut
<1>20. Prepared' /\ Steps'
  BY <1>13 DEF Prepared, Steps
<1> QED  BY <1>16, <1>19, <1>20 DEF EntireInv

LEMMA FailsKeeps ==
  ASSUME EntireInv, EntireFails
  PROVE  EntireInv'
<1>1. /\ job \in JobStates /\ pipe' = pipe /\ out' = out /\ taken' = taken
      /\ file' = file /\ fs' = fs
  BY DEF EntireInv, EntireTypeOK, EntireFails, fileVars
<1>2. CASE job.at = "read" /\ job.from = "file"
  <2>1. job' = [job EXCEPT !.at = "back"] /\ ~job.ret
    BY <1>2 DEF EntireFails, At, EntireInv, Prepared
  <2>2. job' \in JobStates /\ job'.at = "back" /\ ~job'.ret /\ job'.from = "file"
    BY <1>1, <1>2, <2>1 DEF JobStates
  <2>3. EntireTypeOK'
    BY <1>1, <2>2 DEF EntireInv, EntireTypeOK
  <2> QED  BY <2>2, <2>3 DEF EntireInv, Prepared, ReadOut, Steps
<1>3. CASE ~(job.at = "read" /\ job.from = "file")
  <2>1. job' = [job EXCEPT !.at = "done", !.ret = FALSE]
    BY <1>3 DEF EntireFails, At, Ends
  <2>2. job' \in JobStates /\ job'.at = "done" /\ ~job'.ret
    BY <1>1, <2>1 DEF JobStates
  <2>3. EntireTypeOK'
    BY <1>1, <2>2 DEF EntireInv, EntireTypeOK
  <2> QED  BY <2>2, <2>3, FailedKeeps
<1> QED  BY <1>2, <1>3

\* A seek to a position that is not before the start succeeds.
LEMMA SeekIs ==
  ASSUME EntireTypeOK, NEW p \in Nat, FileSeekTo(p)
  PROVE  /\ file' = file /\ fs' \in [open : BOOLEAN, position : Nat, cached : Int]
         /\ fs'.position = p
<1>1. file' = file /\ fs' = [fs EXCEPT !.position = p]
  BY DEF FileSeekTo
<1>2. fs \in [open : BOOLEAN, position : Nat, cached : Int]
  BY DEF EntireTypeOK
<1> QED  BY <1>1, <1>2

LEMMA BackKeeps ==
  ASSUME EntireInv, EntireBack
  PROVE  EntireInv'
<1>1. /\ job \in JobStates /\ job.at = "back" /\ EntireTypeOK /\ job.position \in Nat
      /\ pipe' = pipe /\ out' = out /\ taken' = taken
      /\ job' = [job EXCEPT !.at = "done", !.ret = job.ret]
  BY DEF EntireInv, EntireTypeOK, EntireBack, At, Ends, JobStates
<1>2. /\ file' = file /\ fs' \in [open : BOOLEAN, position : Nat, cached : Int]
      /\ fs'.position = job.position
  BY <1>1, SeekIs DEF EntireBack
<1>3. /\ job' \in JobStates /\ job'.at = "done" /\ job'.ret = job.ret /\ job'.from = job.from
      /\ job'.into = job.into /\ job'.position = job.position
  BY <1>1 DEF JobStates
<1>4. EntireTypeOK'
  BY <1>1, <1>2, <1>3 DEF EntireTypeOK
<1>5. Exact' = Exact /\ Result' = Result
  BY <1>1, <1>3 DEF Exact, Result
<1>6. ReadOut'
  BY <1>1, <1>3, <1>5 DEF EntireInv, ReadOut
<1> QED  BY <1>2, <1>3, <1>4, <1>6 DEF EntireInv, Prepared, Steps

(***************************************************************************)
(* Others add behind what was there, or take some away and are seen to.    *)
(***************************************************************************)

\* A step that leaves the job alone and changes no more than what bytes come from.
LEMMA SourceMoves ==
  ASSUME EntireInv, EntireTypeOK', job' = job, out' = out, fs' = fs,
         taken'.before = taken.before, taken'.read = taken.read,
         taken.cut => taken'.cut,
         taken'.cut \/ StartsWith(Source', Source)
  PROVE  EntireInv'
<1>1. Exact' => Exact /\ StartsWith(Source', Source)
  BY DEF Exact
<1>2. /\ Source \in Seq(FileBytes) /\ Source' \in Seq(FileBytes)
      /\ taken.before \in Seq(FileBytes)
  BY DEF Source, EntireInv, EntireTypeOK
<1>3. Exact' /\ StartsWith(Source, taken.before) => StartsWith(Source', taken.before)
  BY <1>1, <1>2, StartsTransitive
<1>4. Prepared'
  BY <1>1, <1>3 DEF EntireInv, Prepared
<1>5. Result' = Result
  BY DEF Result
<1>6. ReadOut'
  BY <1>1, <1>5 DEF EntireInv, ReadOut
<1> QED  BY <1>4, <1>6 DEF EntireInv, Steps

LEMMA OtherChangesKeep ==
  ASSUME EntireInv, OthersChange \/ OthersAdd \/ OthersTake
  PROVE  EntireInv'
<1>1. /\ EntireTypeOK /\ file \in Seq(FileBytes) /\ pipe \in Seq(FileBytes)
      /\ taken \in [before : Seq(FileBytes), read : Seq(FileBytes), cut : BOOLEAN]
  BY DEF EntireInv, EntireTypeOK
<1>2. CASE OthersChange
  <2>1. /\ file' \in Seq(FileBytes) /\ fs' = fs
        /\ Len(file') < Len(file) \/ StartsWith(file', file)
    BY <1>1, <1>2, ChangedStarts DEF OthersChange
  <2>2. PICK c : c = (taken.cut \/ Len(file') < Len(file))
    OBVIOUS
  <2>3. /\ taken' = [taken EXCEPT !.cut = c] /\ job' = job /\ out' = out /\ pipe' = pipe
        /\ job.from # "pipe"
    BY <1>2, <2>2 DEF OthersChange
  <2>4. c \in BOOLEAN
    BY <1>1, <2>2
  <2>5. /\ taken' \in [before : Seq(FileBytes), read : Seq(FileBytes), cut : BOOLEAN]
        /\ taken'.before = taken.before /\ taken'.read = taken.read /\ taken'.cut = c
    BY <1>1, <2>3, <2>4
  <2>6. EntireTypeOK'
    BY <1>1, <2>1, <2>3, <2>5 DEF EntireTypeOK
  <2>7. Source' = file' /\ Source = file
    BY <2>3 DEF Source
  <2> QED  BY <2>1, <2>2, <2>3, <2>5, <2>6, <2>7, SourceMoves
<1>3. CASE OthersAdd
  <2>1. PICK b \in FileBytes : pipe' = Append(pipe, b)
    BY <1>3 DEF OthersAdd
  <2>2. job' = job /\ out' = out /\ taken' = taken /\ file' = file /\ fs' = fs /\ job.from = "pipe"
    BY <1>3 DEF OthersAdd, fileVars
  <2>3. pipe' \in Seq(FileBytes) /\ StartsWith(pipe', pipe)
    BY <1>1, <2>1 DEF StartsWith
  <2>4. EntireTypeOK'
    BY <1>1, <2>2, <2>3 DEF EntireTypeOK
  <2>5. Source' = pipe' /\ Source = pipe
    BY <2>2 DEF Source
  <2> QED  BY <2>2, <2>3, <2>4, <2>5, SourceMoves
<1>4. CASE OthersTake
  <2>1. /\ pipe' = Tail(pipe) /\ taken' = [taken EXCEPT !.cut = TRUE] /\ job' = job /\ out' = out
        /\ file' = file /\ fs' = fs /\ pipe # <<>>
    BY <1>4 DEF OthersTake, fileVars
  <2>2. pipe' \in Seq(FileBytes)
    BY <1>1, <2>1
  <2>3. /\ taken' \in [before : Seq(FileBytes), read : Seq(FileBytes), cut : BOOLEAN]
        /\ taken'.before = taken.before /\ taken'.read = taken.read /\ taken'.cut
    BY <1>1, <2>1
  <2>4. EntireTypeOK'
    BY <1>1, <2>1, <2>2, <2>3 DEF EntireTypeOK
  <2> QED  BY <2>1, <2>3, <2>4, SourceMoves
<1> QED  BY <1>2, <1>3, <1>4

\* The program opens the file or moves in it, and comes to the next call.
LEMMA NewJobKeeps ==
  ASSUME EntireInv, job' = NoJob, out' = NoRoom, taken' = NothingRead, pipe' = pipe,
         FileOpen("Read") \/ \E p \in 1..FileMax : fs.open /\ FileSeekTo(p)
  PROVE  EntireInv'
<1>1. /\ EntireTypeOK /\ file \in Seq(FileBytes) /\ pipe \in Seq(FileBytes)
      /\ fs \in [open : BOOLEAN, position : Nat, cached : Int]
  BY DEF EntireInv, EntireTypeOK
<1>2. file' = file /\ fs' \in [open : BOOLEAN, position : Nat, cached : Int]
  <2>1. CASE FileOpen("Read")
    <3>1. PICK l \in Nat : l = Len(file)
      BY <1>1
    <3>2. CASE FileOpened("Read", 0)
      BY <3>1, <3>2 DEF FileOpened
    <3>3. CASE FileOpened("Read", -1)
      BY <3>3 DEF FileOpened
    <3>4. CASE FileFails(-1, fs.position)
      BY <1>1, <3>4 DEF FileFails
    <3> QED  BY <2>1, <3>2, <3>3, <3>4 DEF FileOpen
  <2>2. CASE \E p \in 1..FileMax : fs.open /\ FileSeekTo(p)
    <3>1. PICK p \in 1..FileMax : FileSeekTo(p)
      BY <2>2
    <3>2. p \in Nat
      BY <3>1
    <3> QED  BY <1>1, <3>1, <3>2, SeekIs
  <2> QED  BY <2>1, <2>2
<1>3. job' \in JobStates /\ job'.at = "none" /\ job'.ret = FALSE
  BY DEF NoJob, JobStates, Sources, Targets
<1>4. EntireTypeOK'
  BY <1>1, <1>2, <1>3 DEF EntireTypeOK, NoRoom, NothingRead
<1> QED  BY <1>3, <1>4, FailedKeeps

\* What the bytes of a file or pipe are at the start.
LEMMA BytesAre ==
  ASSUME NEW f \in UNION {[1..n -> FileBytes] : n \in FileLengths}
  PROVE  f \in Seq(FileBytes)
<1>1. PICK n \in FileLengths : f \in [1..n -> FileBytes]
  OBVIOUS
<1>2. n \in Nat
  BY <1>1 DEF FileLengths
<1> QED  BY <1>1, <1>2, ASequence

LEMMA EntireInductive ==
  /\ FileInit /\ EntireInit => EntireInv
  /\ EntireInv /\ [EntireNext]_<<entireVars, fileVars>> => EntireInv'
<1>1. FileInit /\ EntireInit => EntireInv
  <2> SUFFICES ASSUME FileInit, EntireInit PROVE EntireInv
    OBVIOUS
  <2>1. file \in Seq(FileBytes) /\ pipe \in Seq(FileBytes)
    BY BytesAre DEF FileInit, EntireInit
  <2>2. job \in JobStates
    BY DEF EntireInit, NoJob, JobStates, Sources, Targets
  <2>3. fs \in [open : BOOLEAN, position : Nat, cached : Int]
    BY DEF FileInit
  <2>4. EntireTypeOK
    BY <2>1, <2>2, <2>3 DEF EntireInit, EntireTypeOK, NoRoom, NothingRead
  <2> QED  BY <2>4 DEF EntireInit, EntireInv, NoJob, Prepared, ReadOut, Steps
<1>2. EntireInv /\ [EntireNext]_<<entireVars, fileVars>> => EntireInv'
  <2> SUFFICES ASSUME EntireInv, [EntireNext]_<<entireVars, fileVars>> PROVE EntireInv'
    OBVIOUS
  <2>1. CASE UNCHANGED <<entireVars, fileVars>>
    BY <2>1 DEF entireVars, fileVars, EntireInv, EntireTypeOK, Prepared, ReadOut, Steps,
                Exact, Source, Result
  <2>2. CASE \E from \in Sources, into \in Targets :
               EntireBegin(from, into) \/ EntireNoSize(from, into)
    BY <2>2, BeginKeeps, NoSizeKeeps
  <2>3. CASE /\ job' = NoJob /\ out' = NoRoom /\ taken' = NothingRead /\ UNCHANGED pipe
             /\ FileOpen("Read") \/ \E p \in 1..FileMax : fs.open /\ FileSeekTo(p)
    BY <2>3, NewJobKeeps
  <2> QED  BY <2>1, <2>2, <2>3, LookKeeps, PollKeeps, ReadKeeps, FailsKeeps, BackKeeps,
              OtherChangesKeep DEF EntireNext
<1> QED  BY <1>1, <1>2

\* A whole file or all of a pipe, read into a string or a stream, is all that was there
\* when its size was asked for, whatever others add to it meanwhile and wherever a call
\* fails; a string ends in its NUL, and a file stream stands where it stood (streams.cpp).
THEOREM EntireAlwaysRead ==
  FileInit /\ EntireInit /\ [][EntireNext]_<<entireVars, fileVars>> => []EntireIsRead
<1>1. EntireInv => EntireIsRead
  BY DEF EntireInv, ReadOut, Steps, EntireIsRead, At, Exact
<1> QED  BY <1>1, EntireInductive, PTL

(***************************************************************************)
(* A memory stream is a tape.                                              *)
(***************************************************************************)

\* A stream without memory has no bytes, whatever size it thinks it has.
MemInv ==
  /\ mem \in [open : BOOLEAN, bytes : Seq(Bytes), size : Nat, position : Nat]
  /\ mem.open => Len(mem.bytes) = mem.size /\ mem.size <= StreamMax
  /\ mem.position <= mem.size
  /\ ~mem.open => mem.position = 0

MemStep == Memory!Next \/ UNCHANGED <<IF mem.open THEN mem.bytes ELSE <<>>, mem.position, memCall>>

LEMMA FloorIs ==
  ASSUME NEW n \in Nat, NEW m \in Nat \ {0}
  PROVE  /\ FloorMultiple(n, m) \in Nat /\ FloorMultiple(n, m) <= n /\ n < FloorMultiple(n, m) + m
         /\ FloorMultiple(n, m) % m = 0
<1>1. PICK q : q = n \div m
  OBVIOUS
<1>2. PICK r : r = n % m
  OBVIOUS
<1>3. q \in Int /\ r \in 0..(m - 1) /\ n = m * q + r
  BY <1>1, <1>2
<1>4. q >= 0
  <2> SUFFICES ASSUME q <= -1 PROVE FALSE
    BY <1>3
  <2>1. PICK p \in Nat : q = -1 - p
    <3>1. -1 - q \in Nat /\ q = -1 - (-1 - q)
      BY <1>3
    <3> QED  BY <3>1
  <2>2. m * q = -m - m * p /\ m * p \in Nat
    BY <2>1
  <2> QED  BY <1>3, <2>2
<1>5. FloorMultiple(n, m) = m * q
  BY <1>1, <1>3 DEF FloorMultiple
<1>6. m * q \in Nat
  BY <1>3, <1>4
<1>7. (m * q) % m = 0
  BY <1>3, <1>6, DividesIs
<1> QED  BY <1>3, <1>5, <1>6, <1>7

\* A transfer ends at the end of the stream, behind its last whole element.
LEMMA FittingIs ==
  ASSUME MemInv, NEW p \in Nat, p <= mem.size, NEW size \in Nat \ {0}, NEW count \in Nat
  PROVE  LET n == Fitting(p, size, count)
         IN  /\ n \in Nat /\ p + n <= mem.size /\ n <= size * count /\ n % size = 0
             /\ n < size * count => p + n + size > mem.size
<1>1. PICK rest : rest = mem.size - p
  OBVIOUS
<1>2. PICK want : want = size * count
  OBVIOUS
<1>3. mem.size \in Nat /\ rest \in Nat /\ want \in Nat /\ want % size = 0
  <2>1. (size * count) % size = 0 /\ size * count \in Nat
    BY DividesIs
  <2> QED  BY <1>1, <1>2, <2>1 DEF MemInv
<1>4. PICK n : n = Fitting(p, size, count)
  OBVIOUS
<1>5. n = IF rest <= 0 THEN 0 ELSE IF want > rest THEN FloorMultiple(rest, size) ELSE want
  BY <1>1, <1>2, <1>4 DEF Fitting
<1>6. PICK e : e = FloorMultiple(rest, size)
  OBVIOUS
<1>7. e \in Nat /\ e <= rest /\ rest < e + size /\ e % size = 0
  BY <1>3, <1>6, FloorIs
<1>8. 0 % size = 0
  OBVIOUS
<1>9. n \in Nat /\ n <= rest /\ n <= want /\ n % size = 0 /\ (n < want => n + size > rest)
  BY <1>3, <1>5, <1>6, <1>7, <1>8
<1>10. p + n <= mem.size /\ (n < want => p + n + size > mem.size)
  BY <1>1, <1>3, <1>9
<1> QED  BY <1>2, <1>4, <1>9, <1>10

LEMMA SoughtIs ==
  ASSUME MemInv, NEW p \in Nat
  PROVE  /\ Sought(p) \in Nat /\ Sought(p) <= mem.size
         /\ Sought(p) = IF p > mem.size THEN mem.size ELSE p
  BY DEF MemInv, Sought

\* Where a transfer begins.
MemFrom(at) == IF at = -1 THEN mem.position ELSE Sought(at)

LEMMA MemFromIs ==
  ASSUME MemInv, mem.open, NEW at \in Nat \cup {-1}, memCall'.at = at
  PROVE  /\ MemFrom(at) \in Nat /\ MemFrom(at) <= mem.size /\ Memory!From = MemFrom(at)
<1>1. CASE at = -1
  BY <1>1 DEF MemInv, MemFrom, Memory!From
<1>2. CASE at # -1
  <2>1. at \in Nat
    BY <1>2
  <2>2. MemFrom(at) = Sought(at) /\ Memory!From = IF at > mem.size THEN mem.size ELSE at
    BY <1>2 DEF MemInv, MemFrom, Memory!From, Memory!Clamped
  <2> QED  BY <2>1, <2>2, SoughtIs
<1> QED  BY <1>1, <1>2

\* The bytes that a transfer of n bytes at p takes.
LEMMA TakenIs ==
  ASSUME NEW S, NEW s \in Seq(S), NEW p \in Nat, NEW n \in Nat, p + n <= Len(s)
  PROVE  /\ SubSeq(s, p + 1, p + n) \in Seq(S) /\ Len(SubSeq(s, p + 1, p + n)) = n
         /\ \A i \in 1..n : SubSeq(s, p + 1, p + n)[i] = s[p + i]
<1>1. PICK l : l = Len(s)
  OBVIOUS
<1>2. l \in Nat /\ p + 1 \in 1..(l + 1) /\ p + n \in ((p + 1) - 1)..l
  BY <1>1
<1>3. PICK t : t = SubSeq(s, p + 1, p + n)
  OBVIOUS
<1>4. /\ t \in Seq(S) /\ Len(t) = (IF p + 1 <= p + n THEN (p + n) - (p + 1) + 1 ELSE 0)
      /\ \A i \in 1..((p + n) - (p + 1) + 1) : t[i] = s[(p + 1) + i - 1]
  BY <1>1, <1>2, <1>3, SubSeqProperties
<1>5. Len(t) = n /\ (p + n) - (p + 1) + 1 = n /\ \A i \in 1..n : (p + 1) + i - 1 = p + i
  BY <1>4
<1> QED  BY <1>3, <1>4, <1>5

LEMMA PartIs ==
  ASSUME NEW S, NEW s \in Seq(S), NEW i \in Nat, i >= 1, NEW j \in Nat, j <= Len(s)
  PROVE  SubSeq(s, i, j) \in Seq(S)
<1>1. CASE i <= j + 1
  <2>1. i \in 1..(Len(s) + 1) /\ j \in (i - 1)..Len(s)
    BY <1>1
  <2> QED  BY <2>1, SubSeqProperties
<1>2. CASE ~(i <= j + 1)
  <2>1. SubSeq(s, i, j) = << >>
    BY <1>2
  <2> QED  BY <2>1, EmptySeq
<1> QED  BY <1>1, <1>2

LEMMA MemOpenKeeps ==
  ASSUME MemInv, NEW n \in Lengths, MemOpen(n)
  PROVE  MemInv' /\ MemStep
<1>1. n \in Nat /\ n <= StreamMax
  BY DEF Lengths
<1>2. memCall'.op = "open" /\ memCall'.n = n
  BY DEF MemOpen, MemCalled
<1>3. CASE \E s \in [1..n -> Bytes] :
             mem' = [open |-> TRUE, bytes |-> s, size |-> n, position |-> 0]
  <2>1. PICK s \in [1..n -> Bytes] :
          mem' = [open |-> TRUE, bytes |-> s, size |-> n, position |-> 0]
    BY <1>3
  <2>2. s \in Seq(Bytes) /\ Len(s) = n
    BY <1>1
  <2>3. MemInv'
    BY <1>1, <2>1, <2>2 DEF MemInv
  <2>4. Memory!Open
    BY <1>2, <2>1, <2>2 DEF Memory!Open, Memory!Called
  <2> QED  BY <2>3, <2>4 DEF MemStep, Memory!Next
<1>4. CASE mem' = [NoStream EXCEPT !.size = n]
  <2>1. mem' = [open |-> FALSE, bytes |-> <<>>, size |-> n, position |-> 0]
    BY <1>4 DEF NoStream
  <2>2. MemInv'
    BY <1>1, <2>1 DEF MemInv
  <2>3. Memory!Open
    BY <1>2, <2>1 DEF Memory!Open, Memory!Called
  <2> QED  BY <2>2, <2>3 DEF MemStep, Memory!Next
<1> QED  BY <1>3, <1>4 DEF MemOpen

LEMMA MemFreeKeeps ==
  ASSUME MemInv, MemFree
  PROVE  MemInv' /\ MemStep
<1>1. mem' = [open |-> FALSE, bytes |-> <<>>, size |-> 0, position |-> 0] /\ memCall'.op = "close"
  BY DEF MemFree, NoStream, MemCalled
<1>2. MemInv'
  BY <1>1 DEF MemInv
<1>3. Memory!Close
  BY <1>1 DEF Memory!Close, Memory!Called
<1> QED  BY <1>2, <1>3 DEF MemStep, Memory!Next

LEMMA MemSeekKeeps ==
  ASSUME MemInv, mem.open, NEW p, MemSeekTo(p)
  PROVE  MemInv' /\ MemStep
<1>1. p \in Nat /\ p # -1
  BY DEF MemSeekTo
<1>2. PICK h : h = Sought(p)
  OBVIOUS
<1>3. h \in Nat /\ h <= mem.size /\ mem.size <= StreamMax /\ mem.size \in Nat
  BY <1>1, <1>2, SoughtIs DEF MemInv
<1>4. /\ mem' = [mem EXCEPT !.position = h]
      /\ memCall'.op = "move" /\ memCall'.at = p /\ memCall'.ret = h
  BY <1>2 DEF MemSeekTo, MemCalled
<1>5. mem'.open = mem.open /\ mem'.bytes = mem.bytes /\ mem'.position = h /\ mem'.size = mem.size
  BY <1>4 DEF MemInv
<1>6. MemInv'
  BY <1>3, <1>4, <1>5 DEF MemInv
<1>7. Memory!From = h
  <2>1. mem.position \in Nat /\ Memory!Clamped(p) = h
    BY <1>1, <1>2, <1>3 DEF Memory!Clamped, Sought, MemInv
  <2>2. memCall'.at = p /\ p # -1
    BY <1>1, <1>4
  <2>3. Memory!From = IF memCall'.at = -1 THEN mem.position ELSE Memory!Clamped(memCall'.at)
    BY Zenon DEF Memory!From
  <2>4. Memory!From = IF p = -1 THEN mem.position ELSE Memory!Clamped(p)
    BY <2>2, <2>3, Zenon
  <2> QED  BY <2>1, <2>2, <2>4, Zenon
<1>8. h \in Lengths
  BY <1>3, StreamAssumption DEF Lengths
<1>9. Memory!Move
  BY <1>4, <1>5, <1>7, <1>8 DEF Memory!Move, Memory!Called
<1> QED  BY <1>6, <1>9 DEF MemStep, Memory!Next

\* What a read at p of n bytes leaves and returns.
LEMMA MemTaken ==
  ASSUME MemInv, mem.open, NEW at \in Nat \cup {-1}, NEW n \in Nat, MemFrom(at) + n <= mem.size,
         mem' = [mem EXCEPT !.position = MemFrom(at) + n], memCall'.at = at,
         memCall'.bytes = SubSeq(mem.bytes, MemFrom(at) + 1, MemFrom(at) + n)
  PROVE  /\ MemInv' /\ Len(memCall'.bytes) = n /\ Memory!From = MemFrom(at)
         /\ mem'.open /\ mem'.bytes = mem.bytes /\ mem'.position = MemFrom(at) + n
         /\ Memory!Moved
         /\ memCall'.bytes = SubSeq(mem.bytes, Memory!From + 1, Memory!From + Len(memCall'.bytes))
<1>1. PICK p : p = MemFrom(at)
  OBVIOUS
<1>2. p \in Nat /\ p + n <= mem.size /\ Memory!From = p
  BY <1>1, MemFromIs
<1>3. mem.bytes \in Seq(Bytes) /\ Len(mem.bytes) = mem.size
  BY DEF MemInv
<1>4. PICK b : b = memCall'.bytes
  OBVIOUS
<1>5. PICK s : s = mem.bytes
  OBVIOUS
<1>6. Len(SubSeq(s, p + 1, p + n)) = n
  <2>1. s \in Seq(Bytes) /\ p + n <= Len(s)
    BY <1>2, <1>3, <1>5
  <2> QED  BY <1>2, <2>1, TakenIs
<1>7. b = SubSeq(s, p + 1, p + n) /\ Len(b) = n
  BY <1>1, <1>4, <1>5, <1>6
<1>8. /\ mem'.open /\ mem'.bytes = mem.bytes /\ mem'.position = p + n
      /\ mem' = [mem EXCEPT !.position = p + n] /\ p + n \in Nat
  BY <1>1, <1>2 DEF MemInv
<1>9. MemInv'
  BY <1>2, <1>8 DEF MemInv
<1>10. Memory!Moved
  BY <1>2, <1>4, <1>7, <1>8 DEF Memory!Moved
<1> QED  BY <1>1, <1>2, <1>4, <1>5, <1>7, <1>8, <1>9, <1>10

LEMMA MemReadKeeps ==
  ASSUME MemInv, mem.open, NEW at \in Nat \cup {-1}, NEW size \in Nat \ {0},
         NEW count \in Nat, MemRead(at, size, count)
  PROVE  MemInv' /\ MemStep
<1>1. PICK p : p = MemFrom(at)
  OBVIOUS
<1>2. PICK n : n = Fitting(p, size, count)
  OBVIOUS
<1>3. PICK want : want = size * count
  OBVIOUS
<1>4. /\ mem' = [mem EXCEPT !.position = p + n]
      /\ memCall'.op = "read" /\ memCall'.at = at /\ memCall'.n = want /\ memCall'.size = size
      /\ memCall'.bytes = SubSeq(mem.bytes, p + 1, p + n) /\ memCall'.ret = n \div size
  BY <1>1, <1>2, <1>3 DEF MemRead, MemCalled, MemFrom
<1>5. p \in Nat /\ p <= mem.size
  BY <1>1, <1>4, MemFromIs
<1>6. /\ n \in Nat /\ p + n <= mem.size /\ n <= want /\ n % size = 0
      /\ n < want => p + n + size > mem.size
  BY <1>2, <1>3, <1>5, FittingIs
<1>7. /\ MemInv' /\ Len(memCall'.bytes) = n /\ Memory!From = p
      /\ mem'.open /\ mem'.bytes = mem.bytes /\ mem'.position = p + n
      /\ Memory!Moved
      /\ memCall'.bytes = SubSeq(mem.bytes, Memory!From + 1, Memory!From + Len(memCall'.bytes))
  BY <1>1, <1>4, <1>6, MemTaken
<1>8. Memory!ShortAtEnd
  BY <1>4, <1>6, <1>7 DEF Memory!ShortAtEnd, Memory!Short, MemInv
<1>9. Memory!InElements
  BY <1>4, <1>6, <1>7 DEF Memory!InElements, Memory!WholeOnes
<1>10. Memory!ReadBytes
  BY <1>7, <1>8 DEF Memory!ReadBytes
<1>11. Memory!Read
  BY <1>4, <1>9, <1>10 DEF Memory!Read, Memory!Called
<1> QED  BY <1>7, <1>11 DEF MemStep, Memory!Next

LEMMA MemReadBlockKeeps ==
  ASSUME MemInv, mem.open, NEW at \in Nat \cup {-1}, NEW size \in Nat \ {0},
         MemReadBlock(at, size)
  PROVE  MemInv' /\ MemStep
<1>1. PICK p : p = MemFrom(at)
  OBVIOUS
<1>2. PICK n : n = Fitting(p, 1, size)
  OBVIOUS
<1>4. /\ mem' = [mem EXCEPT !.position = p + n]
      /\ memCall'.op = "read_block" /\ memCall'.at = at /\ memCall'.n = size /\ memCall'.size = 1
      /\ memCall'.bytes = SubSeq(mem.bytes, p + 1, p + n)
      /\ memCall'.ret = IF n < size THEN 0 ELSE n
  BY <1>1, <1>2 DEF MemReadBlock, MemCalled, MemFrom
<1>5. p \in Nat /\ p <= mem.size
  BY <1>1, <1>4, MemFromIs
<1>6. /\ n \in Nat /\ p + n <= mem.size /\ n <= size /\ (n < size => p + n + 1 > mem.size)
  <2>1. PICK one \in Nat \ {0} : one = 1
    OBVIOUS
  <2>2. size \in Nat /\ one * size = size
    BY <2>1
  <2>3. PICK m : m = Fitting(p, one, size)
    OBVIOUS
  <2>4. /\ m \in Nat /\ p + m <= mem.size /\ m <= one * size
        /\ m < one * size => p + m + one > mem.size
    BY <1>5, <2>2, <2>3, FittingIs
  <2> QED  BY <1>2, <2>1, <2>2, <2>3, <2>4
<1>7. /\ MemInv' /\ Len(memCall'.bytes) = n /\ Memory!From = p
      /\ mem'.open /\ mem'.bytes = mem.bytes /\ mem'.position = p + n
      /\ Memory!Moved
      /\ memCall'.bytes = SubSeq(mem.bytes, Memory!From + 1, Memory!From + Len(memCall'.bytes))
  BY <1>1, <1>4, <1>6, MemTaken, Zenon
<1>8. Memory!ShortAtEnd
  <2>1. mem.open /\ Len(mem.bytes) = mem.size /\ mem.size \in Nat
    BY DEF MemInv
  <2>2. Memory!Short => n < size
    BY <1>4, <1>7 DEF Memory!Short
  <2>3. n < size => p + n + 1 > Len(mem.bytes)
    BY <1>6, <2>1
  <2>4. Memory!From + Len(memCall'.bytes) + memCall'.size = p + n + 1
    BY <1>4, <1>7
  <2> QED  BY <2>1, <2>2, <2>3, <2>4 DEF Memory!ShortAtEnd
<1>9. Memory!AllOrNothing
  <2>1. Memory!Short <=> n < size
    BY <1>4, <1>7 DEF Memory!Short
  <2>2. ~(n < size) => n = size
    BY <1>6
  <2> QED  BY <1>4, <2>1, <2>2 DEF Memory!AllOrNothing
<1>10. Memory!ReadBytes
  BY <1>7, <1>8 DEF Memory!ReadBytes
<1>11. Memory!ReadBlock
  BY <1>4, <1>9, <1>10 DEF Memory!ReadBlock, Memory!Called
<1> QED  BY <1>7, <1>11 DEF MemStep, Memory!Next

\* A call that is refused for what it asks for.
LEMMA MemRefuseKeeps ==
  ASSUME MemInv, mem.open, mem' = mem, memCall'.op = "refused", memCall'.ret = 0,
         NEW n \in Nat, memCall'.n = n, mem.position + n > mem.size
  PROVE  MemInv' /\ MemStep
<1>1. MemInv'
  BY DEF MemInv
<1>2. Memory!Refuse
  BY DEF Memory!Refuse, Memory!Called, MemInv
<1> QED  BY <1>1, <1>2 DEF MemStep, Memory!Next

\* s with the first n elements of b written over it behind the first p.
Overwritten(s, b, p, n) ==
  [i \in DOMAIN s |-> IF i \in (p + 1)..(p + n) THEN b[i - p] ELSE s[i]]

Patches(S, s, b, p, n) ==
  /\ Overwritten(s, b, p, n) \in Seq(S) /\ Len(Overwritten(s, b, p, n)) = Len(s)
  /\ Overwritten(s, b, p, n) = SubSeq(s, 1, p) \o SubSeq(b, 1, n) \o SubSeq(s, p + n + 1, Len(s))

LEMMA PatchIs ==
  ASSUME NEW S, NEW s \in Seq(S), NEW b \in Seq(S), NEW p \in Nat, NEW n \in Nat,
         p + n <= Len(s), n <= Len(b)
  PROVE  Patches(S, s, b, p, n)
<1>1. PICK l : l = Len(s)
  OBVIOUS
<1>2. l \in Nat /\ DOMAIN s = 1..l /\ Len(b) \in Nat /\ p + n <= l
  BY <1>1
<1>3. PICK w : w = [i \in 1..l |-> IF i \in (p + 1)..(p + n) THEN b[i - p] ELSE s[i]]
  OBVIOUS
<1>4. \A i \in 1..l : (i \in (p + 1)..(p + n) => b[i - p] \in S) /\ s[i] \in S
  <2>1. ASSUME NEW i \in (p + 1)..(p + n) PROVE b[i - p] \in S
    <3>1. i - p \in 1..Len(b)
      BY <1>2
    <3> QED  BY <3>1, ElementOfSeq
  <2> QED  BY <1>1, <2>1
<1>5. w \in [1..l -> S]
  BY <1>3, <1>4
<1>6. w \in Seq(S) /\ Len(w) = l
  BY <1>2, <1>5, ASequence
<1>7. PICK x : x = SubSeq(s, 1, p)
  OBVIOUS
<1>8. PICK y : y = SubSeq(b, 1, n)
  OBVIOUS
<1>9. PICK z : z = SubSeq(s, p + n + 1, l)
  OBVIOUS
<1>10. x \in Seq(S) /\ Len(x) = p /\ \A i \in 1..p : x[i] = s[i]
  <2>1. 0 + p <= Len(s) /\ 0 \in Nat
    BY <1>1, <1>2
  <2>2. PICK o \in Nat : o = 0
    OBVIOUS
  <2>3. o + p <= Len(s)
    BY <2>1, <2>2
  <2>4. /\ SubSeq(s, o + 1, o + p) \in Seq(S) /\ Len(SubSeq(s, o + 1, o + p)) = p
        /\ \A i \in 1..p : SubSeq(s, o + 1, o + p)[i] = s[o + i]
    BY <2>3, TakenIs
  <2>5. o + 1 = 1 /\ o + p = p /\ \A i \in 1..p : o + i = i
    BY <2>2
  <2> QED  BY <1>7, <2>4, <2>5
<1>11. y \in Seq(S) /\ Len(y) = n /\ \A i \in 1..n : y[i] = b[i]
  <2>2. PICK o \in Nat : o = 0
    OBVIOUS
  <2>3. o + n <= Len(b)
    BY <2>2
  <2>4. /\ SubSeq(b, o + 1, o + n) \in Seq(S) /\ Len(SubSeq(b, o + 1, o + n)) = n
        /\ \A i \in 1..n : SubSeq(b, o + 1, o + n)[i] = b[o + i]
    BY <2>3, TakenIs
  <2>5. o + 1 = 1 /\ o + n = n /\ \A i \in 1..n : o + i = i
    BY <2>2
  <2> QED  BY <1>8, <2>4, <2>5
<1>12. z \in Seq(S) /\ Len(z) = l - p - n /\ \A i \in 1..(l - p - n) : z[i] = s[p + n + i]
  <2>1. PICK q \in Nat : q = p + n
    OBVIOUS
  <2>2. PICK r \in Nat : r = l - p - n
    <3>1. l - p - n \in Nat
      BY <1>2
    <3> QED  BY <3>1
  <2>3. q + r = l /\ q + r <= Len(s)
    BY <1>1, <1>2, <2>1, <2>2
  <2>4. /\ SubSeq(s, q + 1, q + r) \in Seq(S) /\ Len(SubSeq(s, q + 1, q + r)) = r
        /\ \A i \in 1..r : SubSeq(s, q + 1, q + r)[i] = s[q + i]
    BY <2>3, TakenIs
  <2> QED  BY <1>9, <2>1, <2>2, <2>3, <2>4
<1>13. PICK v : v = x \o y \o z
  OBVIOUS
<1>14. PICK u : u = x \o y
  OBVIOUS
<1>15. /\ u \in Seq(S) /\ Len(u) = p + n
       /\ \A i \in 1..(p + n) : u[i] = IF i <= p THEN x[i] ELSE y[i - p]
  BY <1>10, <1>11, <1>14, ConcatProperties
<1>16. /\ v \in Seq(S) /\ Len(v) = l
       /\ \A i \in 1..l : v[i] = IF i <= p + n THEN u[i] ELSE z[i - (p + n)]
  <2>1. v = u \o z
    BY <1>13, <1>14
  <2>2. Len(u) + Len(z) = l
    <3>1. PICK j : j = Len(u)
      OBVIOUS
    <3>2. PICK k : k = Len(z)
      OBVIOUS
    <3>3. j = p + n /\ k = l - p - n
      BY <1>12, <1>15, <3>1, <3>2
    <3>4. l \in Nat /\ p + n + (l - p - n) = l
      BY <1>2
    <3> QED  BY <3>1, <3>2, <3>3, <3>4, Zenon
  <2>3. /\ v \in Seq(S) /\ Len(v) = l
        /\ \A i \in 1..l : v[i] = IF i <= Len(u) THEN u[i] ELSE z[i - Len(u)]
    <3>1. u \in Seq(S) /\ z \in Seq(S)
      BY <1>12, <1>15
    <3>2. /\ u \o z \in Seq(S) /\ Len(u \o z) = Len(u) + Len(z)
          /\ \A i \in 1..(Len(u) + Len(z)) :
               (u \o z)[i] = IF i <= Len(u) THEN u[i] ELSE z[i - Len(u)]
      BY <3>1, ConcatProperties, Zenon
    <3> QED  BY <2>1, <2>2, <3>2, Zenon
  <2> QED  BY <1>15, <2>3
<1>17. \A i \in 1..l : w[i] = v[i]
  <2>1. ASSUME NEW i \in 1..l PROVE w[i] = v[i]
    <3>1. CASE i <= p
      BY <1>2, <1>3, <1>10, <1>15, <1>16, <3>1
    <3>2. CASE i > p /\ i <= p + n
      <4>1. i - p \in 1..n /\ i \in (p + 1)..(p + n) /\ i \in 1..(p + n)
        BY <1>2, <3>2
      <4> QED  BY <1>3, <1>11, <1>15, <1>16, <3>2, <4>1
    <3>3. CASE i > p + n
      <4>1. i - (p + n) \in 1..(l - p - n) /\ p + n + (i - (p + n)) = i /\ i \notin (p + 1)..(p + n)
        BY <1>2, <3>3
      <4>2. z[i - (p + n)] = s[i]
        BY <1>12, <4>1
      <4> QED  BY <1>3, <1>16, <3>3, <4>1, <4>2
    <3> QED  BY <1>2, <3>1, <3>2, <3>3
  <2> QED  BY <2>1
<1>18. w = v
  BY <1>6, <1>16, <1>17, SeqEqual
<1>19. w = Overwritten(s, b, p, n)
  BY <1>2, <1>3 DEF Overwritten
<1> QED  BY <1>1, <1>6, <1>7, <1>8, <1>9, <1>13, <1>18, <1>19, Zenon DEF Patches

\* A tape that is not written beyond its end is not filled up.
Gap(n, c) == [i \in 1..n |-> c]

LEMMA NoGapIs ==
  ASSUME NEW S, NEW t \in Seq(S), NEW h \in Nat, h <= Len(t), NEW c
  PROVE  t \o Gap(h - Len(t), c) = t
<1>1. PICK g : g = Gap(h - Len(t), c)
  OBVIOUS
<1>2. 1..(h - Len(t)) = {}
  <2>1. PICK l \in Nat : l = Len(t)
    OBVIOUS
  <2>2. 1..(h - l) = {}
    BY <2>1
  <2> QED  BY <2>1, <2>2
<1>3. g = << >>
  BY <1>1, <1>2 DEF Gap
<1>4. t \o << >> = t
  OBVIOUS
<1> QED  BY <1>1, <1>3, <1>4, Zenon

LEMMA MemWriteKeeps ==
  ASSUME MemInv, mem.open, NEW at \in Nat \cup {-1}, NEW s \in Seq(Bytes),
         NEW size \in Nat \ {0}, Len(s) % size = 0, MemWrite(at, s, size)
  PROVE  MemInv' /\ MemStep
<1>1. PICK p : p = MemFrom(at)
  OBVIOUS
<1>2. PICK count : count = Len(s) \div size
  OBVIOUS
<1>3. PICK n : n = Fitting(p, size, count)
  OBVIOUS
<1>4. PICK want : want = Len(s)
  OBVIOUS
<1>5. PICK old : old = mem.bytes
  OBVIOUS
<1>6. PICK new : new = Overwritten(old, s, p, n)
  OBVIOUS
<1>7. /\ mem' = [mem EXCEPT !.position = p + n, !.bytes = new]
      /\ memCall'.op = "write" /\ memCall'.at = at /\ memCall'.n = want /\ memCall'.size = size
      /\ memCall'.bytes = SubSeq(s, 1, n) /\ memCall'.ret = n \div size
  BY <1>1, <1>2, <1>3, <1>4, <1>5, <1>6 DEF MemWrite, MemCalled, MemFrom, Overwritten
<1>8. p \in Nat /\ p <= mem.size /\ Memory!From = p
  BY <1>1, <1>7, MemFromIs
<1>9. want \in Nat /\ count \in Nat /\ size * count = want
  <2>1. want \in Nat /\ want \in Int /\ want % size = 0
    BY <1>4
  <2>2. PICK q \in Int : want = size * q
    <3>1. \E q \in Int : want = size * q
      BY <2>1, DividesIs, Zenon
    <3> QED  BY <3>1
  <2>3. q >= 0
    <3> SUFFICES ASSUME q <= -1 PROVE FALSE
      BY <2>2
    <3>1. PICK e \in Nat : q = -1 - e
      <4>1. -1 - q \in Nat /\ q = -1 - (-1 - q)
        BY <2>2
      <4> QED  BY <4>1
    <3>2. size * q = -size - size * e /\ size * e \in Nat
      BY <3>1
    <3> QED  BY <2>1, <2>2, <3>2
  <2>4. want \div size = q
    BY <2>2
  <2> QED  BY <1>2, <1>4, <2>1, <2>2, <2>3, <2>4
<1>10. /\ n \in Nat /\ p + n <= mem.size /\ n <= want /\ n % size = 0
       /\ n < want => p + n + size > mem.size
  BY <1>3, <1>8, <1>9, FittingIs
<1>11. old \in Seq(Bytes) /\ Len(old) = mem.size /\ mem.size \in Nat
  BY <1>5 DEF MemInv
<1>12. PICK b : b = SubSeq(s, 1, n)
  OBVIOUS
<1>13. b \in Seq(Bytes) /\ Len(b) = n
  <2>1. PICK o \in Nat : o = 0
    OBVIOUS
  <2>2. o + n <= Len(s)
    BY <1>4, <1>10, <2>1
  <2>3. SubSeq(s, o + 1, o + n) \in Seq(Bytes) /\ Len(SubSeq(s, o + 1, o + n)) = n
    BY <1>10, <2>2, TakenIs
  <2>4. o + 1 = 1 /\ o + n = n
    BY <1>10, <2>1
  <2> QED  BY <1>12, <2>3, <2>4, Zenon
<1>14. PICK l : l = Len(old)
  OBVIOUS
<1>15. new \in Seq(Bytes) /\ Len(new) = l /\ new = SubSeq(old, 1, p) \o b \o SubSeq(old, p + n + 1, l)
  <2>1. n <= Len(s) /\ p + n <= Len(old)
    BY <1>4, <1>10, <1>11
  <2>2. s \in Seq(Bytes) /\ old \in Seq(Bytes) /\ p \in Nat /\ n \in Nat
    BY <1>8, <1>10, <1>11
  <2>3. /\ Overwritten(old, s, p, n) \in Seq(Bytes) /\ Len(Overwritten(old, s, p, n)) = Len(old)
        /\ Overwritten(old, s, p, n) =
             SubSeq(old, 1, p) \o SubSeq(s, 1, n) \o SubSeq(old, p + n + 1, Len(old))
    <3>1. Patches(Bytes, old, s, p, n)
      BY <2>1, <2>2, PatchIs
    <3> QED  BY <3>1 DEF Patches
  <2> QED  BY <1>6, <1>12, <1>14, <2>3, Zenon
<1>16. /\ mem'.open /\ mem'.bytes = new /\ mem'.position = p + n /\ mem'.size = mem.size
       /\ mem' = [open |-> TRUE, bytes |-> new, size |-> mem.size, position |-> p + n]
  BY <1>7 DEF MemInv
<1>17. MemInv'
  BY <1>8, <1>10, <1>11, <1>14, <1>15, <1>16 DEF MemInv
<1>18. memCall'.bytes = b
  BY <1>7, <1>12
<1>19. Memory!Moved
  BY <1>8, <1>13, <1>16, <1>18, Zenon DEF Memory!Moved
<1>20. Memory!InElements
  BY <1>7, <1>10, <1>13, <1>18 DEF Memory!InElements, Memory!WholeOnes
<1>21. Memory!Padded = old
  <2>1. p <= Len(old)
    BY <1>8, <1>11
  <2>2. PICK c : c = 0
    OBVIOUS
  <2>3. old \o Gap(p - Len(old), c) = old
    BY <1>8, <1>11, <2>1, NoGapIs
  <2>4. Memory!Padded = old \o Gap(p - Len(old), 0)
    BY <1>5, <1>8 DEF Memory!Padded, Gap
  <2> QED  BY <2>2, <2>3, <2>4, Zenon
<1>22. Memory!Patched = new
  <2>1. Memory!Patched = SubSeq(old, 1, p) \o b \o SubSeq(old, p + Len(b) + 1, Len(old))
    BY <1>8, <1>18, <1>21, Zenon DEF Memory!Patched
  <2> QED  BY <1>13, <1>14, <1>15, <2>1, Zenon
<1>23. n = 0 => new = old
  <2> SUFFICES ASSUME n = 0 PROVE new = old
    OBVIOUS
  <2>1. (p + 1)..(p + n) = {}
    BY <1>8, <1>10
  <2>2. new = [i \in DOMAIN old |-> old[i]]
    BY <1>6, <2>1 DEF Overwritten
  <2> QED  BY <1>11, <2>2
<1>24. mem'.bytes = IF memCall'.bytes = << >> THEN mem.bytes ELSE Memory!Patched
  <2>1. b = << >> => n = 0
    BY <1>13
  <2> QED  BY <1>5, <1>16, <1>18, <1>22, <1>23, <2>1
<1>25. Memory!ShortAtEnd
  <2>1. Memory!Short => n < want
    BY <1>7, <1>13, <1>18 DEF Memory!Short
  <2>2. n < want => p + n + size > Len(old)
    BY <1>10, <1>11
  <2>3. Memory!From + Len(memCall'.bytes) + memCall'.size = p + n + size
    BY <1>7, <1>8, <1>13, <1>18
  <2> QED  BY <1>5, <2>1, <2>2, <2>3 DEF Memory!ShortAtEnd
<1>26. Memory!Write
  <2>1. Len(mem'.bytes) = Len(mem.bytes)
    BY <1>5, <1>14, <1>15, <1>16
  <2> QED  BY <1>7, <1>16, <1>19, <1>20, <1>24, <1>25, <2>1 DEF Memory!Write, Memory!Called
<1> QED  BY <1>17, <1>26 DEF MemStep, Memory!Next

LEMMA MemReadBlocksKeeps ==
  ASSUME MemInv, mem.open, NEW nth \in Nat, NEW size \in Nat \ {0}, NEW count \in Nat \ {0},
         MemReadBlocks(nth, size, count)
  PROVE  MemInv' /\ MemStep
<1>1. CASE AtEnd
  <2>1. PICK n : n = size * count
    OBVIOUS
  <2>2. n \in Nat /\ n >= 1
    <3>1. PICK e \in Nat : size = 1 + e
      <4>1. size - 1 \in Nat /\ size = 1 + (size - 1)
        OBVIOUS
      <4> QED  BY <4>1
    <3>2. size * count = count + e * count /\ e * count \in Nat
      BY <3>1
    <3> QED  BY <2>1, <3>2
  <2>3. mem.position + n > mem.size
    <3>1. mem.position >= mem.size /\ mem.position \in Nat /\ mem.size \in Nat
      BY <1>1 DEF AtEnd, MemInv
    <3> QED  BY <2>2, <3>1
  <2>4. mem' = mem /\ memCall'.op = "refused" /\ memCall'.ret = 0 /\ memCall'.n = n
    BY <1>1, <2>1 DEF MemReadBlocks, MemCalled
  <2> QED  BY <2>2, <2>3, <2>4, MemRefuseKeeps
<1>2. CASE ~AtEnd
  <2>1. PICK at : at = nth * size
    OBVIOUS
  <2>2. at \in Nat \cup {-1}
    BY <2>1
  <2>3. MemRead(at, size, count)
    BY <1>2, <2>1 DEF MemReadBlocks
  <2> QED  BY <2>2, <2>3, MemReadKeeps
<1> QED  BY <1>1, <1>2

LEMMA MemWriteBlockKeeps ==
  ASSUME MemInv, mem.open, NEW s \in Seq(Bytes), MemWriteBlock(s)
  PROVE  MemInv' /\ MemStep
<1>1. CASE mem.position + Len(s) > mem.size
  <2>1. PICK n \in Nat : n = Len(s)
    OBVIOUS
  <2>2. mem' = mem /\ memCall'.op = "refused" /\ memCall'.ret = 0 /\ memCall'.n = n
    BY <1>1, <2>1 DEF MemWriteBlock, MemCalled
  <2> QED  BY <1>1, <2>1, <2>2, MemRefuseKeeps
<1>2. CASE ~(mem.position + Len(s) > mem.size)
  <2>1. PICK at \in Nat \cup {-1}, one \in Nat \ {0} : at = -1 /\ one = 1
    OBVIOUS
  <2>2. MemWrite(at, s, one)
    BY <1>2, <2>1 DEF MemWriteBlock
  <2>3. Len(s) % one = 0
    <3>1. PICK n \in Nat : n = Len(s)
      OBVIOUS
    <3> QED  BY <2>1, <3>1
  <2> QED  BY <2>2, <2>3, MemWriteKeeps
<1> QED  BY <1>1, <1>2

LEMMA MemCopyKeeps ==
  ASSUME MemInv, NEW most, MemCopyEntire(most)
  PROVE  MemInv' /\ MemStep
<1>1. mem' = mem /\ memCall'.op = "other"
  BY DEF MemCopyEntire, MemCalled
<1>2. MemInv'
  BY <1>1 DEF MemInv
<1>3. Memory!Other
  BY <1>1 DEF Memory!Other, Memory!Called
<1> QED  BY <1>2, <1>3 DEF MemStep, Memory!Next

LEMMA StartsIs ==
  ASSUME NEW size \in Nat \ {0}, NEW at \in Starts(size)
  PROVE  at \in Nat \cup {-1}
<1>1. CASE at = -1
  BY <1>1
<1>2. CASE at \in {nth * size : nth \in Lengths}
  <2>1. PICK nth \in Lengths : at = nth * size
    BY <1>2
  <2>2. nth \in Nat
    BY StreamAssumption DEF Lengths
  <2> QED  BY <2>1, <2>2
<1> QED  BY <1>1, <1>2 DEF Starts

LEMMA MemNextKeeps ==
  ASSUME MemInv, MemNext
  PROVE  MemInv' /\ MemStep
<1>1. CASE \E n \in Lengths : MemOpen(n)
  BY <1>1, MemOpenKeeps
<1>2. CASE MemFree
  BY <1>2, MemFreeKeeps
<1>3. CASE mem.open /\ \E offset \in (-StreamMax)..StreamMax : MemSeek(offset)
  BY <1>3, MemSeekKeeps DEF MemSeek
<1>4. CASE mem.open /\ \E size \in Blocks : \E nth \in (-1)..StreamMax : MemSeekBlock(nth, size)
  BY <1>4, MemSeekKeeps DEF MemSeekBlock
<1>5. CASE mem.open /\ \E size \in Blocks : MemAlign(size)
  BY <1>5, MemSeekKeeps DEF MemAlign
<1>6. \A size \in Blocks : size \in Nat \ {0}
  BY StreamAssumption DEF Blocks
<1>7. CASE mem.open /\ \E size \in Blocks : \E at \in Starts(size) : MemReadBlock(at, size)
  BY <1>6, <1>7, StartsIs, MemReadBlockKeeps
<1>8. CASE mem.open /\ \E size \in Blocks : \E count \in Blocks : \E at \in Starts(size) :
             MemRead(at, size, count)
  BY <1>6, <1>8, StartsIs, MemReadKeeps
<1>9. CASE mem.open /\ \E size \in Blocks : \E count \in Blocks : \E nth \in Lengths :
             MemReadBlocks(nth, size, count)
  <2>1. \A nth \in Lengths : nth \in Nat
    BY StreamAssumption DEF Lengths
  <2> QED  BY <1>6, <1>9, <2>1, MemReadBlocksKeeps
<1>10. \A s \in Writes : s \in Seq(Bytes)
  <2>1. ASSUME NEW s \in Writes PROVE s \in Seq(Bytes)
    <3>1. PICK n \in 1..StreamMax : s \in [1..n -> Bytes]
      BY DEF Writes
    <3>2. n \in Nat
      BY StreamAssumption
    <3> QED  BY <3>1, <3>2
  <2> QED  BY <2>1
<1>11. CASE mem.open /\ \E s \in Writes : MemWriteBlock(s)
  BY <1>10, <1>11, MemWriteBlockKeeps
<1>12. CASE mem.open /\ \E s \in Writes : \E size \in {d \in Blocks : Len(s) % d = 0} :
              \E at \in Starts(size) : MemWrite(at, s, size)
  <2>1. PICK s \in Writes : \E size \in {d \in Blocks : Len(s) % d = 0} :
              \E at \in Starts(size) : MemWrite(at, s, size)
    BY <1>12
  <2>2. PICK size \in {d \in Blocks : Len(s) % d = 0} : \E at \in Starts(size) : MemWrite(at, s, size)
    BY <2>1
  <2>3. PICK at \in Starts(size) : MemWrite(at, s, size)
    BY <2>2
  <2>4. size \in Nat \ {0} /\ Len(s) % size = 0 /\ s \in Seq(Bytes)
    BY <1>6, <1>10
  <2>5. at \in Nat \cup {-1}
    BY <2>4, StartsIs
  <2> QED  BY <1>12, <2>3, <2>4, <2>5, MemWriteKeeps
<1>13. CASE mem.open /\ \E most \in Lengths : MemCopyEntire(most)
  BY <1>13, MemCopyKeeps
<1> QED  BY <1>1, <1>2, <1>3, <1>4, <1>5, <1>7, <1>8, <1>9, <1>11, <1>12, <1>13 DEF MemNext

(***************************************************************************)
(* A file is a tape.                                                       *)
(***************************************************************************)

FileHeld == FileBytes \cup {Zero}

FileInv ==
  /\ file \in Seq(FileHeld)
  /\ fs \in [open : BOOLEAN, position : Nat, cached : Int]

FileStep == File!Next \/ UNCHANGED <<file, fs.position, fileCall>>

\* What a read of n bytes at p takes from s.
Takes(s, p, n, b, l) ==
  Len(b) = l /\ l <= n /\ b = SubSeq(s, p + 1, p + l) /\ (l < n => p + l >= Len(s))

LEMMA BeyondIs ==
  ASSUME NEW S, NEW s \in Seq(S), NEW p \in Nat, NEW n \in Nat
  PROVE  \E l \in Nat : Takes(s, p, n, Beyond(s, p, n), l)
<1>1. PICK b : b = Beyond(s, p, n)
  OBVIOUS
<1>2. PICK k \in Nat : k = Len(s)
  OBVIOUS
<1>3. b = SubSeq(s, p + 1, IF p + n < k THEN p + n ELSE k)
  BY <1>1, <1>2 DEF Beyond
<1>4. CASE p <= k
  <2>1. PICK l \in Nat : p + l = IF p + n < k THEN p + n ELSE k
    <3>1. n \in Nat /\ k - p \in Nat /\ p + (k - p) = k
      BY <1>4
    <3> QED  BY <3>1
  <2>2. p + l <= Len(s) /\ l <= n /\ (l < n => p + l >= k)
    BY <1>2, <1>4, <2>1
  <2>3. SubSeq(s, p + 1, p + l) \in Seq(S) /\ Len(SubSeq(s, p + 1, p + l)) = l
    BY <2>2, TakenIs
  <2>4. b = SubSeq(s, p + 1, p + l)
    BY <1>3, <2>1
  <2>5. Takes(s, p, n, b, l)
    BY <1>2, <2>2, <2>3, <2>4 DEF Takes
  <2> QED  BY <1>1, <2>5
<1>5. CASE p > k
  <2>1. PICK e : e = IF p + n < k THEN p + n ELSE k
    OBVIOUS
  <2>2. e = k /\ p + 1 > e
    BY <1>5, <2>1
  <2>3. b = << >>
    BY <1>2, <1>3, <2>1, <2>2
  <2>4. PICK l \in Nat : l = 0
    OBVIOUS
  <2>5. SubSeq(s, p + 1, p + l) = << >>
    BY <2>4
  <2>6. Len(b) = l /\ l <= n /\ p + l >= Len(s)
    BY <1>2, <1>5, <2>3, <2>4
  <2>7. Takes(s, p, n, b, l)
    BY <2>3, <2>5, <2>6, Zenon DEF Takes
  <2> QED  BY <1>1, <2>7
<1> QED  BY <1>2, <1>4, <1>5

\* Where a call begins.
LEMMA FileStartIs ==
  ASSUME FileInv, NEW at \in Nat \cup {-1}, fileCall'.at = at
  PROVE  FileStart(at) \in Nat /\ File!From = FileStart(at)
<1>1. fs.position \in Nat
  BY DEF FileInv
<1>2. CASE at = -1
  BY <1>1, <1>2 DEF FileStart, File!From
<1>3. CASE at # -1
  <2>1. FileStart(at) = at /\ at \in Nat
    BY <1>3 DEF FileStart
  <2>2. File!From = at
    BY <1>3 DEF File!From, File!Clamped
  <2> QED  BY <2>1, <2>2
<1> QED  BY <1>2, <1>3

LEMMA FileOpenedKeeps ==
  ASSUME FileInv, NEW mode, NEW size, FileOpened(mode, size)
  PROVE  FileInv' /\ FileStep
<1>1. file' \in {file, << >>} /\ file' \in Seq(FileHeld)
  BY DEF FileOpened, FileInv
<1>3. PICK cached \in Int : cached = IF size = -1 THEN -1 ELSE Len(file')
  <2>1. PICK l \in Nat : l = Len(file')
    BY <1>1
  <2>2. (IF size = -1 THEN -1 ELSE l) \in Int
    <3>1. CASE size = -1
      BY <3>1
    <3>2. CASE size # -1
      BY <3>2
    <3> QED  BY <3>1, <3>2
  <2> QED  BY <2>1, <2>2
<1>2. fs' = [open |-> TRUE, position |-> 0, cached |-> cached] /\ fileCall'.op = "open"
  BY <1>3 DEF FileOpened, FileCalled
<1>4. FileInv'
  BY <1>1, <1>2, <1>3 DEF FileInv
<1>5. File!Open
  BY <1>1, <1>2 DEF File!Open, File!Called
<1> QED  BY <1>4, <1>5 DEF FileStep, File!Next

LEMMA FileFreeKeeps ==
  ASSUME FileInv, FileFree
  PROVE  FileInv' /\ FileStep
<1>1. /\ fs' = [fs EXCEPT !.open = FALSE, !.position = 0] /\ file' = file
      /\ fileCall'.op = "close"
  BY DEF FileFree, FileCalled
<1>2. FileInv' /\ fs'.position = 0
  BY <1>1 DEF FileInv
<1>3. File!Close
  BY <1>1, <1>2 DEF File!Close, File!Called
<1> QED  BY <1>2, <1>3 DEF FileStep, File!Next

LEMMA FileSizeKeeps ==
  ASSUME FileInv, FileSize
  PROVE  FileInv' /\ FileStep
<1>1. PICK l \in Nat : l = Len(file)
  BY DEF FileInv
<1>2. fs' = [fs EXCEPT !.cached = l] /\ file' = file /\ fileCall'.op = "other"
  BY <1>1 DEF FileSize, FileCalled
<1>3. FileInv' /\ fs'.position = fs.position
  BY <1>2 DEF FileInv
<1>4. File!Other
  BY <1>2, <1>3 DEF File!Other, File!Called
<1> QED  BY <1>3, <1>4 DEF FileStep, File!Next

LEMMA FileFailsKeeps ==
  ASSUME FileInv, NEW at \in Nat \cup {-1}, NEW p \in {fs.position, FileStart(at)}, FileFails(at, p)
  PROVE  FileInv' /\ FileStep
<1>1. /\ fs' = [fs EXCEPT !.position = p] /\ file' = file
      /\ fileCall'.op = "failed" /\ fileCall'.at = at /\ fileCall'.ret = -1
  BY DEF FileFails, FileCalled
<1>2. FileStart(at) \in Nat /\ File!From = FileStart(at)
  BY <1>1, FileStartIs
<1>3. p \in Nat /\ p \in {fs.position, File!From}
  BY <1>2 DEF FileInv
<1>4. FileInv' /\ fs'.position = p
  BY <1>1, <1>3 DEF FileInv
<1>5. File!Fail
  BY <1>1, <1>3, <1>4 DEF File!Fail, File!Called
<1> QED  BY <1>4, <1>5 DEF FileStep, File!Next

LEMMA FileOpenKeeps ==
  ASSUME FileInv, NEW mode, FileOpen(mode)
  PROVE  FileInv' /\ FileStep
<1>1. CASE FileOpened(mode, 0) \/ FileOpened(mode, -1)
  BY <1>1, FileOpenedKeeps
<1>2. CASE FileFails(-1, fs.position)
  <2>1. PICK at \in Nat \cup {-1} : at = -1
    OBVIOUS
  <2>2. FileFails(at, fs.position)
    BY <1>2, <2>1
  <2> QED  BY <2>2, FileFailsKeeps
<1> QED  BY <1>1, <1>2 DEF FileOpen

\* The position goes to p, whatever else is noted of the handle.
LEMMA FileMoves ==
  ASSUME FileInv, NEW p \in Nat, p <= 2 * FileMax, NEW c \in Int,
         fs' = [open |-> fs.open, position |-> p, cached |-> c], file' = file,
         FileCalled("move", p, 0, 1, << >>, p)
  PROVE  FileInv' /\ FileStep
<1>1. fileCall'.op = "move" /\ fileCall'.at = p /\ fileCall'.ret = p
  BY DEF FileCalled
<1>2. PICK at : at = p
  OBVIOUS
<1>3. at \in Nat \cup {-1} /\ at # -1
  BY <1>2
<1>4. File!From = p
  BY <1>1, <1>2, <1>3, FileStartIs DEF FileStart
<1>5. FileInv' /\ fs'.position = p
  BY DEF FileInv
<1>6. p \in 0..(2 * FileMax)
  BY FileAssumption
<1>7. File!Move
  BY <1>1, <1>4, <1>5, <1>6 DEF File!Move, File!Called
<1> QED  BY <1>5, <1>7 DEF FileStep, File!Next

LEMMA FileSeekKeeps ==
  ASSUME FileInv, NEW p \in Int, FileSeekTo(p)
  PROVE  FileInv' /\ FileStep
<1>1. CASE p < 0
  <2>1. PICK at \in Nat \cup {-1} : at = -1
    OBVIOUS
  <2>2. FileFails(at, fs.position)
    BY <1>1, <2>1 DEF FileSeekTo
  <2> QED  BY <2>2, FileFailsKeeps
<1>2. CASE ~(p < 0)
  <2>1. p \in Nat /\ p <= 2 * FileMax
    BY <1>2 DEF FileSeekTo
  <2>2. fs' = [fs EXCEPT !.position = p] /\ file' = file /\ FileCalled("move", p, 0, 1, << >>, p)
    BY <1>2 DEF FileSeekTo
  <2>3. fs' = [open |-> fs.open, position |-> p, cached |-> fs.cached] /\ fs.cached \in Int
    BY <2>2 DEF FileInv
  <2> QED  BY <2>1, <2>2, <2>3, FileMoves
<1> QED  BY <1>1, <1>2

\* What a read of n bytes leaves and takes.
LEMMA FileTaken ==
  ASSUME FileInv, NEW at \in Nat \cup {-1}, NEW n \in Nat, fileCall'.at = at, fileCall'.n = n,
         file' = file, fileCall'.bytes = Beyond(file, FileStart(at), n),
         fs' = [fs EXCEPT !.position = FileStart(at) + Len(fileCall'.bytes)],
         fileCall'.size \in Nat \ {0}
  PROVE  FileInv' /\ File!ReadBytes
<1>1. PICK p \in Nat : p = FileStart(at) /\ p = File!From
  BY FileStartIs
<1>2. PICK b : b = fileCall'.bytes
  OBVIOUS
<1>3. PICK d : d = fileCall'.size
  OBVIOUS
<1>4. file \in Seq(FileHeld)
  BY DEF FileInv
<1>5. PICK l \in Nat : /\ Len(b) = l /\ b = SubSeq(file, p + 1, p + l)
                       /\ l < n => p + l >= Len(file)
  <2>1. b = Beyond(file, p, n)
    BY <1>1, <1>2
  <2>2. \E l \in Nat : Takes(file, p, n, Beyond(file, p, n), l)
    BY <1>4, BeyondIs
  <2> QED  BY <2>1, <2>2, Zenon DEF Takes
<1>6. fs' = [fs EXCEPT !.position = p + l] /\ p + l \in Nat
  BY <1>1, <1>2, <1>5
<1>7. FileInv' /\ fs'.position = p + l
  BY <1>6 DEF FileInv
<1>8. File!Moved
  BY <1>1, <1>2, <1>5, <1>7, Zenon DEF File!Moved
<1>9. File!ShortAtEnd
  <2>1. File!Short => l < n
    BY <1>2, <1>5 DEF File!Short
  <2>2. PICK k \in Nat : k = Len(file)
    BY <1>4
  <2>3. l < n => p + l + d > k
    <3>1. l < n => p + l >= k
      BY <1>5, <2>2, Zenon
    <3>2. d \in Nat \ {0}
      BY <1>3
    <3> QED  BY <3>1, <3>2
  <2>4. File!From + Len(fileCall'.bytes) + fileCall'.size = p + l + d
    BY <1>1, <1>2, <1>3, <1>5
  <2> QED  BY <2>1, <2>2, <2>3, <2>4, Zenon DEF File!ShortAtEnd
<1>10. fileCall'.bytes = SubSeq(file, File!From + 1, File!From + Len(fileCall'.bytes))
  BY <1>1, <1>2, <1>5, Zenon
<1> QED  BY <1>7, <1>8, <1>9, <1>10, Zenon DEF File!ReadBytes

LEMMA FileReadKeeps ==
  ASSUME FileInv, NEW at \in Nat \cup {-1}, NEW size \in Nat \ {0}, NEW count \in Nat,
         FileRead(at, size, count)
  PROVE  FileInv' /\ FileStep
<1>1. PICK n \in Nat : n = size * count
  OBVIOUS
<1>2. PICK b : b = Beyond(file, FileStart(at), n)
  OBVIOUS
<1>3. /\ fs' = [fs EXCEPT !.position = FileStart(at) + Len(b)] /\ file' = file
      /\ fileCall'.op = "read" /\ fileCall'.at = at /\ fileCall'.n = n /\ fileCall'.size = size
      /\ fileCall'.bytes = b /\ fileCall'.ret = Len(b) \div size
  BY <1>1, <1>2 DEF FileRead, FileCalled
<1>4. FileInv' /\ File!ReadBytes
  BY <1>2, <1>3, FileTaken
<1>5. File!InElements
  BY <1>3, Zenon DEF File!InElements, File!WholeOnes
<1>6. File!Read
  BY <1>3, <1>4, <1>5 DEF File!Read, File!Called
<1> QED  BY <1>4, <1>6 DEF FileStep, File!Next

LEMMA FileReadBlockKeeps ==
  ASSUME FileInv, NEW at \in Nat \cup {-1}, NEW size \in Nat \ {0}, FileReadBlock(at, size)
  PROVE  FileInv' /\ FileStep
<1>1. PICK b : b = Beyond(file, FileStart(at), size)
  OBVIOUS
<1>2. /\ fs' = [fs EXCEPT !.position = FileStart(at) + Len(b)] /\ file' = file
      /\ fileCall'.op = "read_block" /\ fileCall'.at = at /\ fileCall'.n = size
      /\ fileCall'.size = 1 /\ fileCall'.bytes = b
      /\ fileCall'.ret = IF Len(b) < size THEN 0 ELSE Len(b)
  BY <1>1 DEF FileReadBlock, FileCalled
<1>3. size \in Nat /\ fileCall'.size \in Nat \ {0}
  BY <1>2
<1>4. FileInv' /\ File!ReadBytes
  BY <1>1, <1>2, <1>3, FileTaken
<1>5. File!AllOrNothing
  <2>1. FileStart(at) \in Nat /\ file \in Seq(FileHeld)
    BY <1>2, FileStartIs DEF FileInv
  <2>2. PICK l \in Nat : Len(b) = l /\ l <= size
    <3>1. \E l \in Nat : Takes(file, FileStart(at), size, b, l)
      BY <1>1, <1>3, <2>1, BeyondIs
    <3> QED  BY <3>1, Zenon DEF Takes
  <2>3. File!Short <=> l < size
    BY <1>2, <2>2 DEF File!Short
  <2>4. fileCall'.ret = IF l < size THEN 0 ELSE size
    BY <1>2, <1>3, <2>2
  <2> QED  BY <1>2, <2>3, <2>4, Zenon DEF File!AllOrNothing
<1>6. File!ReadBlock
  BY <1>2, <1>4, <1>5 DEF File!ReadBlock, File!Called
<1> QED  BY <1>4, <1>6 DEF FileStep, File!Next

LEMMA FilledUptoIs ==
  ASSUME NEW s \in Seq(FileHeld), NEW p \in Nat
  PROVE  FilledUpto(s, p) \in Seq(FileHeld) /\ Len(FilledUpto(s, p)) >= p
<1>1. PICK k \in Nat : k = Len(s)
  OBVIOUS
<1>2. PICK g : g = [i \in 1..(p - k) |-> Zero]
  OBVIOUS
<1>3. PICK m \in Nat : m = IF p > k THEN p - k ELSE 0
  <2>1. p > k => p - k \in Nat
    OBVIOUS
  <2> QED  BY <2>1
<1>4. 1..(p - k) = 1..m
  BY <1>3
<1>5. g \in [1..m -> FileHeld]
  BY <1>2, <1>4 DEF FileHeld
<1>6. g \in Seq(FileHeld) /\ Len(g) = m
  BY <1>5, ASequence
<1>7. FilledUpto(s, p) = s \o g
  BY <1>1, <1>2 DEF FilledUpto
<1>8. s \o g \in Seq(FileHeld) /\ Len(s \o g) = k + m
  BY <1>1, <1>6, ConcatProperties
<1> QED  BY <1>3, <1>7, <1>8

LEMMA FileWriteKeeps ==
  ASSUME FileInv, NEW at \in Nat \cup {-1}, NEW s \in Seq(FileBytes), NEW size \in Nat \ {0},
         NEW n \in 1..Len(s), FileWrite(at, s, size, n)
  PROVE  FileInv' /\ FileStep
<1>1. PICK p : p = FileStart(at)
  OBVIOUS
<1>2. PICK old : old = FilledUpto(file, p)
  OBVIOUS
<1>3. PICK b : b = SubSeq(s, 1, n)
  OBVIOUS
<1>4. /\ file' = SubSeq(old, 1, p) \o b \o SubSeq(old, p + n + 1, Len(old))
      /\ fs' = [fs EXCEPT !.position = p + n]
      /\ fileCall'.op = "write" /\ fileCall'.at = at /\ fileCall'.n = Len(s)
      /\ fileCall'.size = size /\ fileCall'.bytes = b /\ fileCall'.ret = n \div size
  BY <1>1, <1>2, <1>3 DEF FileWrite, FileCalled
<1>5. p \in Nat /\ File!From = p
  BY <1>1, <1>4, FileStartIs
<1>6. n \in Nat /\ n >= 1 /\ n <= Len(s) /\ s \in Seq(FileHeld)
  <2>1. FileBytes \subseteq FileHeld
    BY DEF FileHeld
  <2> QED  BY <2>1
<1>7. b \in Seq(FileHeld) /\ Len(b) = n
  <2>1. PICK o \in Nat : o = 0
    OBVIOUS
  <2>2. o + n <= Len(s)
    BY <1>6, <2>1
  <2>3. SubSeq(s, o + 1, o + n) \in Seq(FileHeld) /\ Len(SubSeq(s, o + 1, o + n)) = n
    BY <1>6, <2>2, TakenIs
  <2>4. o + 1 = 1 /\ o + n = n
    BY <1>6, <2>1
  <2> QED  BY <1>3, <2>3, <2>4, Zenon
<1>8. old \in Seq(FileHeld) /\ Len(old) >= p
  BY <1>2, <1>5, FilledUptoIs DEF FileInv
<1>9. file' \in Seq(FileHeld)
  <2>1. PICK k \in Nat : k = Len(old)
    BY <1>8
  <2>2. PICK x : x = SubSeq(old, 1, p)
    OBVIOUS
  <2>3. PICK y : y = SubSeq(old, p + n + 1, k)
    OBVIOUS
  <2>4. x \in Seq(FileHeld)
    <3>1. PICK i \in Nat : i = 1
      OBVIOUS
    <3>2. i >= 1 /\ p <= Len(old)
      BY <1>8, <3>1
    <3> QED  BY <1>5, <1>8, <2>2, <3>1, <3>2, PartIs
  <2>5. y \in Seq(FileHeld)
    <3>1. PICK i \in Nat : i = p + n + 1
      BY <1>5, <1>6
    <3>2. i >= 1 /\ k <= Len(old)
      BY <1>5, <1>6, <2>1, <3>1
    <3> QED  BY <1>8, <2>3, <3>1, <3>2, PartIs
  <2>6. x \o b \in Seq(FileHeld)
    BY <1>7, <2>4, ConcatProperties
  <2>7. (x \o b) \o y \in Seq(FileHeld)
    BY <2>5, <2>6, ConcatProperties
  <2> QED  BY <1>4, <2>1, <2>2, <2>3, <2>7, Zenon
<1>10. FileInv' /\ fs'.position = p + n
  <2>1. fs' = [fs EXCEPT !.position = p + n] /\ p + n \in Nat
    BY <1>4, <1>5, <1>6
  <2> QED  BY <1>9, <2>1 DEF FileInv
<1>11. File!Moved
  BY <1>4, <1>5, <1>7, <1>10, Zenon DEF File!Moved
<1>12. File!InElements
  BY <1>4, <1>7, Zenon DEF File!InElements, File!WholeOnes
<1>13. File!Padded = old
  BY <1>2, <1>5, Zenon DEF File!Padded, FilledUpto
<1>14. File!Patched = SubSeq(old, 1, p) \o b \o SubSeq(old, p + n + 1, Len(old))
  BY <1>4, <1>5, <1>7, <1>13, Zenon DEF File!Patched
<1>15. b # << >>
  BY <1>6, <1>7
<1>16. File!Write
  BY <1>4, <1>11, <1>12, <1>14, <1>15, Zenon DEF File!Write, File!Called
<1> QED  BY <1>10, <1>16 DEF FileStep, File!Next

LEMMA FileChangedKeeps ==
  ASSUME FileInv, FileChanged
  PROVE  FileInv' /\ FileStep
<1>1. file' \in Seq(FileHeld)
  <2>1. CASE \E b \in FileBytes : file' = Append(file, b)
    BY <2>1 DEF FileInv, FileHeld
  <2>2. CASE \E n \in 0..(Len(file) - 1) : file' = SubSeq(file, 1, n)
    <3>1. PICK n \in 0..(Len(file) - 1) : file' = SubSeq(file, 1, n)
      BY <2>2
    <3>2. PICK o \in Nat : o = 0
      OBVIOUS
    <3>3. file \in Seq(FileHeld) /\ n \in Nat /\ o + n <= Len(file)
      BY <3>2 DEF FileInv
    <3>4. SubSeq(file, o + 1, o + n) \in Seq(FileHeld)
      BY <3>3, TakenIs
    <3>5. o + 1 = 1 /\ o + n = n
      BY <3>2
    <3> QED  BY <3>1, <3>4, <3>5, Zenon
  <2> QED  BY <2>1, <2>2 DEF FileChanged
<1>2. fs' = fs /\ fileCall'.op = "changed"
  BY DEF FileChanged, FileCalled
<1>3. FileInv'
  BY <1>1, <1>2 DEF FileInv
<1>4. File!Change
  BY <1>2 DEF File!Change, File!Called
<1> QED  BY <1>3, <1>4 DEF FileStep, File!Next

LEMMA FileStartsIs ==
  ASSUME NEW size \in Nat \ {0}, NEW at \in FileStarts(size)
  PROVE  at \in Nat \cup {-1}
  BY FileAssumption DEF FileStarts, FileLengths

LEMMA FileFloorIs ==
  ASSUME NEW n \in Int, NEW size \in Nat \ {0}
  PROVE  FileFloor(n, size) \in Int
  BY DEF FileFloor

LEMMA FileSeeksKeep ==
  ASSUME FileInv
  PROVE  /\ \A offset \in Int : FileSeek(offset) => FileInv' /\ FileStep
         /\ \A nth \in Int, size \in Nat \ {0} : FileSeekBlock(nth, size) => FileInv' /\ FileStep
         /\ \A size \in Nat \ {0} : FileAlign(size) => FileInv' /\ FileStep
<1>1. fs.position \in Int /\ Len(file) \in Int
  BY DEF FileInv
<1>2. ASSUME NEW offset \in Int, FileSeek(offset) PROVE FileInv' /\ FileStep
  <2>1. PICK base \in {0, fs.position, Len(file)} : FileSeekTo(base + offset)
    BY <1>2 DEF FileSeek
  <2>2. base + offset \in Int
    BY <1>1
  <2> QED  BY <2>1, <2>2, FileSeekKeeps
<1>3. ASSUME NEW nth \in Int, NEW size \in Nat \ {0}, FileSeekBlock(nth, size)
      PROVE  FileInv' /\ FileStep
  <2>1. PICK base \in {0, FileFloor(fs.position, size), Len(file)} : FileSeekTo(base + nth * size)
    BY <1>3 DEF FileSeekBlock
  <2>2. base \in Int
    BY <1>1, FileFloorIs
  <2>3. base + nth * size \in Int
    BY <2>2
  <2> QED  BY <2>1, <2>3, FileSeekKeeps
<1>4. ASSUME NEW size \in Nat \ {0}, FileAlign(size) PROVE FileInv' /\ FileStep
  <2>1. fs.position + size \in Int
    BY <1>1
  <2>2. FileFloor(fs.position + size, size) \in Int
    BY <2>1, FileFloorIs
  <2> QED  BY <1>4, <2>2, FileSeekKeeps DEF FileAlign
<1> QED  BY <1>2, <1>3, <1>4

LEMMA FileNextKeeps ==
  ASSUME FileInv, FileNext
  PROVE  FileInv' /\ FileStep
<1>1. \A size \in FileBlocks : size \in Nat \ {0}
  BY FileAssumption DEF FileBlocks
<1>2. CASE \E mode \in {"Read", "Write", "WriteTrunc"} : FileOpen(mode)
  BY <1>2, FileOpenKeeps
<1>3. CASE FileChanged \/ FileFree \/ FileSize
  BY <1>3, FileChangedKeeps, FileFreeKeeps, FileSizeKeeps
<1>4. CASE \E offset \in (-FileMax)..FileMax : FileSeek(offset)
  <2>1. PICK offset \in (-FileMax)..FileMax : FileSeek(offset)
    BY <1>4
  <2>2. offset \in Int
    BY FileAssumption
  <2> QED  BY <2>1, <2>2, FileSeeksKeep
<1>5. CASE \E size \in FileBlocks : \E nth \in (-1)..FileMax : FileSeekBlock(nth, size)
  <2>1. PICK size \in FileBlocks : \E nth \in (-1)..FileMax : FileSeekBlock(nth, size)
    BY <1>5
  <2>2. PICK nth \in (-1)..FileMax : FileSeekBlock(nth, size)
    BY <2>1
  <2>3. nth \in Int
    BY FileAssumption
  <2> QED  BY <1>1, <2>2, <2>3, FileSeeksKeep
<1>6. CASE \E size \in FileBlocks : FileAlign(size)
  BY <1>1, <1>6, FileSeeksKeep
<1>7. CASE \E size \in FileBlocks : \E at \in FileStarts(size) : FileReadBlock(at, size)
  BY <1>1, <1>7, FileStartsIs, FileReadBlockKeeps
<1>8. CASE \E size \in FileBlocks : \E at \in FileStarts(size) : \E count \in FileBlocks :
             FileRead(at, size, count)
  <2>1. \A count \in FileBlocks : count \in Nat
    BY <1>1
  <2> QED  BY <1>1, <1>8, <2>1, FileStartsIs, FileReadKeeps
<1>9. CASE \E size \in FileBlocks : \E at \in FileStarts(size) :
             \E p \in {fs.position, FileStart(at)} : FileFails(at, p)
  BY <1>1, <1>9, FileStartsIs, FileFailsKeeps
<1>10. CASE \E size \in FileBlocks : \E at \in FileStarts(size) :
              \E s \in {t \in FileWrites : Len(t) % size = 0} :
                \E n \in IF IoMayFail THEN 1..Len(s) ELSE {Len(s)} : FileWrite(at, s, size, n)
  <2>1. PICK size \in FileBlocks : \E at \in FileStarts(size) :
              \E s \in {t \in FileWrites : Len(t) % size = 0} :
                \E n \in IF IoMayFail THEN 1..Len(s) ELSE {Len(s)} : FileWrite(at, s, size, n)
    BY <1>10
  <2>2. PICK at \in FileStarts(size) : \E s \in {t \in FileWrites : Len(t) % size = 0} :
                \E n \in IF IoMayFail THEN 1..Len(s) ELSE {Len(s)} : FileWrite(at, s, size, n)
    BY <2>1
  <2>3. PICK s \in FileWrites :
                \E n \in IF IoMayFail THEN 1..Len(s) ELSE {Len(s)} : FileWrite(at, s, size, n)
    BY <2>2
  <2>4. PICK n \in IF IoMayFail THEN 1..Len(s) ELSE {Len(s)} : FileWrite(at, s, size, n)
    BY <2>3
  <2>5. PICK m \in 1..FileMax : s \in [1..m -> FileBytes]
    BY <2>3 DEF FileWrites
  <2>6. s \in Seq(FileBytes) /\ Len(s) = m /\ m \in Nat /\ m >= 1
    BY <2>5, FileAssumption, ASequence
  <2>7. n \in 1..Len(s)
    <3>1. Len(s) \in 1..Len(s)
      BY <2>6
    <3> QED  BY <2>4, <3>1
  <2>8. size \in Nat \ {0} /\ at \in Nat \cup {-1}
    BY <1>1, <2>2, FileStartsIs
  <2> QED  BY <2>4, <2>6, <2>7, <2>8, FileWriteKeeps
<1> QED  BY <1>2, <1>3, <1>4, <1>5, <1>6, <1>7, <1>8, <1>9, <1>10, Zenon DEF FileNext

(***************************************************************************)
(* The steps of an entire read are calls of its file.                      *)
(***************************************************************************)

LEMMA EntireFileStays ==
  ASSUME FileInv, file' = file, fileCall' = fileCall, fs'.position = fs.position,
         fs' \in [open : BOOLEAN, position : Nat, cached : Int]
  PROVE  FileInv' /\ FileStep
BY DEF FileInv, FileStep

LEMMA EntireBeginSteps ==
  ASSUME FileInv, NEW from, NEW into, EntireBegin(from, into) \/ EntireNoSize(from, into)
  PROVE  FileInv' /\ FileStep
<1>1. file' = file /\ fileCall' = fileCall
  BY DEF EntireBegin, EntireNoSize
<1>2. fs' = fs \/ \E c \in Int : fs' = [fs EXCEPT !.cached = c]
  <2>1. CASE EntireBegin(from, into)
    <3>1. PICK sz : sz = SizeOf(from)
      OBVIOUS
    <3>2. fs' = IF from = "file" THEN [fs EXCEPT !.cached = sz] ELSE fs
      BY <2>1, <3>1 DEF EntireBegin
    <3>3. from = "file" => sz \in Int
      BY <3>1 DEF SizeOf, FileInv
    <3> QED  BY <3>2, <3>3
  <2>2. CASE EntireNoSize(from, into)
    <3>1. fs' = IF from = "file" THEN [fs EXCEPT !.cached = -1] ELSE fs
      BY <2>2 DEF EntireNoSize
    <3>2. PICK c \in Int : c = -1
      OBVIOUS
    <3> QED  BY <3>1, <3>2
  <2> QED  BY <2>1, <2>2
<1>3. fs'.position = fs.position /\ fs' \in [open : BOOLEAN, position : Nat, cached : Int]
  BY <1>2 DEF FileInv
<1> QED  BY <1>1, <1>3, EntireFileStays

LEMMA EntireLookSteps ==
  ASSUME FileInv, EntireLook
  PROVE  FileInv' /\ FileStep
<1>1. PICK c \in Int : c = Len(file)
  BY DEF FileInv
<1>2. PICK p \in Nat : p = 0
  OBVIOUS
<1>3. fs' = [fs EXCEPT !.cached = c, !.position = p] /\ file' = file
      /\ FileCalled("move", p, 0, 1, << >>, p)
  BY <1>1, <1>2 DEF EntireLook
<1>4. fs' = [open |-> fs.open, position |-> p, cached |-> c]
  BY <1>3 DEF FileInv
<1>5. p <= 2 * FileMax
  BY <1>2, FileAssumption
<1> QED  BY <1>3, <1>4, <1>5, FileMoves

LEMMA EntireReadSteps ==
  ASSUME FileInv, EntireInv, EntireRead
  PROVE  FileInv' /\ FileStep
<1>1. CASE job.from = "pipe"
  <2>1. UNCHANGED fileVars
    BY <1>1 DEF EntireRead
  <2>2. file' = file /\ fs' = fs /\ fileCall' = fileCall
    BY <2>1 DEF fileVars
  <2> QED  BY <2>2 DEF FileInv, FileStep
<1>2. CASE job.from # "pipe"
  <2>1. PICK at \in Nat \cup {-1}, one \in Nat \ {0} : at = -1 /\ one = 1
    OBVIOUS
  <2>2. FileRead(at, one, job.size)
    BY <1>2, <2>1 DEF EntireRead
  <2>3. job.size \in Nat
    BY DEF EntireInv, EntireTypeOK, JobStates
  <2> QED  BY <2>2, <2>3, FileReadKeeps
<1> QED  BY <1>1, <1>2

LEMMA EntireNextSteps ==
  ASSUME FileInv, EntireInv, EntireNext
  PROVE  FileInv' /\ FileStep
<1>1. CASE FileOpen("Read")
  BY <1>1, FileOpenKeeps
<1>2. CASE \E p \in 1..FileMax : fs.open /\ FileSeekTo(p)
  BY <1>2, FileSeekKeeps
<1>3. CASE \E from \in Sources, into \in Targets :
             EntireBegin(from, into) \/ EntireNoSize(from, into)
  BY <1>3, EntireBeginSteps
<1>4. CASE EntirePoll \/ EntireFails \/ OthersAdd \/ OthersTake
  <2>1. file' = file /\ fs' = fs /\ fileCall' = fileCall
    BY <1>4 DEF EntirePoll, EntireFails, OthersAdd, OthersTake, fileVars
  <2> QED  BY <2>1 DEF FileInv, FileStep
<1>5. CASE EntireBack
  <2>1. job.position \in Int /\ FileSeekTo(job.position)
    BY <1>5 DEF EntireBack, EntireInv, EntireTypeOK, JobStates
  <2> QED  BY <2>1, FileSeekKeeps
<1>6. CASE OthersChange
  BY <1>6, FileChangedKeeps DEF OthersChange
<1> QED  BY <1>1, <1>2, <1>3, <1>4, <1>5, <1>6, EntireLookSteps, EntireReadSteps DEF EntireNext

(***************************************************************************)
(* Memory and files alike                                                  *)
(***************************************************************************)

StreamInv == MemInv /\ FileInv /\ (part = "entire" => EntireInv)

\* Memory streams and file streams promise the same: every call moves whole elements
\* between its buffer and the bytes at the position and leaves the others alone, only the
\* end cuts it short, and the position is behind what was moved, for streams, files and
\* transfers of every size and whatever fails; the steps of an entire read are such calls,
\* too (memory_stream.hpp, file_stream.hpp).
THEOREM StreamsImplementTapes == Spec => StreamsAreTapes
<1>1. Init => StreamInv /\ Memory!Init /\ File!Init
  <2> SUFFICES ASSUME Init PROVE StreamInv /\ Memory!Init /\ File!Init
    OBVIOUS
  <2>1. MemInit /\ FileInit /\ EntireInit
    BY DEF Init
  <2>2. MemInv /\ Memory!Init
    BY <2>1 DEF MemInit, MemInv, NoStream, NoTransfer, Memory!Init
  <2>3. file \in Seq(FileBytes) /\ FileBytes \subseteq FileHeld
    BY <2>1, BytesAre DEF FileInit, FileHeld
  <2>4. FileInv
    BY <2>1, <2>3 DEF FileInit, FileInv
  <2>5. File!Init
    BY <2>1 DEF FileInit, File!Init
  <2> QED  BY <2>1, <2>2, <2>4, <2>5, EntireInductive DEF StreamInv
<1>2. StreamInv /\ [Next]_systemVars =>
        StreamInv' /\ [Memory!Next]_(Memory!vars) /\ [File!Next]_(File!vars)
  <2> SUFFICES ASSUME StreamInv, [Next]_systemVars
               PROVE  StreamInv' /\ (MemStep \/ UNCHANGED memVars) /\ (FileStep \/ UNCHANGED fileVars)
    BY DEF MemStep, FileStep, memVars, fileVars, Memory!vars, File!vars
  <2>1. /\ MemInv /\ FileInv
        /\ UNCHANGED memVars => MemInv'
        /\ UNCHANGED fileVars => FileInv'
    BY DEF StreamInv, memVars, fileVars, MemInv, FileInv
  <2>2. /\ part = "entire" => EntireInv
        /\ UNCHANGED <<entireVars, fileVars>> /\ EntireInv => EntireInv'
    BY EntireInductive DEF StreamInv
  <2>3. CASE UNCHANGED systemVars
    BY <2>1, <2>2, <2>3 DEF systemVars, StreamInv
  <2>4. CASE part = "memory" /\ MemNext /\ part' = part /\ UNCHANGED fileVars
    BY <2>1, <2>4, MemNextKeeps DEF StreamInv
  <2>5. CASE part = "file" /\ FileNext /\ part' = part /\ UNCHANGED memVars
    BY <2>1, <2>5, FileNextKeeps DEF StreamInv
  <2>6. CASE part = "entire" /\ EntireNext /\ part' = part /\ UNCHANGED memVars
    BY <2>1, <2>2, <2>6, EntireNextSteps, EntireInductive DEF StreamInv
  <2>7. CASE part' = part /\ part # "entire" /\ UNCHANGED <<memVars, fileVars>>
    BY <2>1, <2>7 DEF StreamInv
  <2> QED  BY <2>3, <2>4, <2>5, <2>6, <2>7, Zenon DEF Next, OthersStay
<1> QED  BY <1>1, <1>2, PTL DEF Spec, StreamsAreTapes, MemoryIsTape, FileIsTape, Memory!Spec, File!Spec
=============================================================================
