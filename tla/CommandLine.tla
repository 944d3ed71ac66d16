---------------------------- MODULE CommandLine ----------------------------
(***************************************************************************)
(* process.cpp on Linux: the arguments of a program made from one string,  *)
(* with the name of the program, if its path has one, as the first.        *)
(***************************************************************************)
EXTENDS Integers, Sequences, SequencesExt, FiniteSets

CONSTANTS Space, Quote, Escape, Slash   \* units of a command line or a path

\* _get_exe_name: what follows the last slash; a path without one has no name.
ExeName(path) ==
  LET slashes == {i \in DOMAIN path : path[i] = Slash}
      last == CHOOSE i \in slashes : \A j \in slashes : j <= i
  IN  IF slashes = {} THEN <<>> ELSE SubSeq(path, last + 1, Len(path))

WithArgument(args, arg) == IF arg = <<>> THEN args ELSE Append(args, arg)

\* Variant: the argument the string ends in is forgotten.
FinishedEarly(state) == state.args

Finished(state) == WithArgument(state.args, state.arg)

\* _cmdline_to_args: unit by unit; one that is escaped was taken with its escape, and
\* an escape at the end of the string ends it.
Taken(state, unit, next) ==
  IF state.skips THEN [state EXCEPT !.skips = FALSE]
  ELSE CASE unit = Escape -> IF next = <<>> THEN state
                             ELSE [state EXCEPT !.arg = @ \o next, !.skips = TRUE]
         [] unit = Quote -> [state EXCEPT !.quoted = ~@]
         [] unit = Space /\ ~state.quoted ->
              [state EXCEPT !.args = WithArgument(@, state.arg), !.arg = <<>>]
         [] OTHER -> [state EXCEPT !.arg = Append(@, unit)]

CmdlineToArgs(cmd, path) ==
  Finished(FoldLeftDomain(
    LAMBDA state, i : Taken(state, cmd[i],
                             IF i = Len(cmd) THEN <<>> ELSE <<cmd[i + 1]>>),
    [args |-> WithArgument(<<>>, ExeName(path)), arg |-> <<>>, quoted |-> FALSE, skips |-> FALSE],
    cmd))

(***************************************************************************)
(* What a command line says                                                *)
(***************************************************************************)

\* A unit escapes the next one unless it is escaped itself.
Escapes(cmd) ==
  LET escapes[i \in 0..Len(cmd)] == i > 0 /\ cmd[i] = Escape /\ ~escapes[i - 1] IN escapes
Plain(cmd, i)   == ~Escapes(cmd)[i - 1]
Quotes(cmd, i)  == cmd[i] = Quote /\ Plain(cmd, i)
Quoted(cmd, i)  == Cardinality({j \in 1..(i - 1) : Quotes(cmd, j)}) % 2 = 1
Parts(cmd, i)   == cmd[i] = Space /\ Plain(cmd, i) /\ ~Quoted(cmd, i)
Written(cmd, i) == ~Escapes(cmd)[i] /\ ~Quotes(cmd, i) /\ ~Parts(cmd, i)

\* The units that are written between parting spaces i and j.
Between(cmd, i, j) ==
  FoldLeftDomain(LAMBDA arg, k : IF k \in (i + 1)..(j - 1) /\ Written(cmd, k)
                                 THEN Append(arg, cmd[k]) ELSE arg, <<>>, cmd)

Arguments(cmd) ==
  LET ends == {0, Len(cmd) + 1} \cup {i \in DOMAIN cmd : Parts(cmd, i)}
      after(i) == CHOOSE j \in ends : j > i /\ \A k \in ends : k > i => j <= k
      pieces == FoldLeftDomain(
        LAMBDA args, k : IF k - 1 \in ends THEN Append(args, Between(cmd, k - 1, after(k - 1))) ELSE args,
        <<>>, Append(cmd, Space))
  IN  SelectSeq(pieces, LAMBDA arg : arg # <<>>)

\* Spaces part arguments unless they are quoted or escaped, wherever they stand, quotes
\* and escapes do not get into the arguments, and none of their units is lost.
SplitsAs(cmd, path) ==
  CmdlineToArgs(cmd, path) =
    (IF ExeName(path) = <<>> THEN <<>> ELSE <<ExeName(path)>>) \o Arguments(cmd)
=============================================================================
