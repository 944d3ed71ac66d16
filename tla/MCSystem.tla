------------------------------ MODULE MCSystem ------------------------------
(* A behaviour is that of one part of the system interface, chosen at its      *)
(* start: the parts share nothing, but for the file that entire reads read.   *)
EXTENDS MemoryStream, EntireReads, RingBuffer, ExitFunctions, Arena, Process,
        CommandLine, TLC

CONSTANTS b1, b2

VARIABLES
  part,
  sample   \* a command line, made up a unit at a time

MCIo ==
  {<<0, 1, 2>>, <<3, 1, 2>>, <<0, 1, 4>>, <<0, 4, 4>>, <<3, 4, 4>>, <<4, 3, 5>>, <<0, 2, 4>>, <<0, 4, 1>>,
   <<3, 0, 4>>, <<1, 2, 2>>}

MCUnits == {Space, Quote, Escape, 97}
MCPath  == <<Slash, 98>>
MostUnits == 6

ByteSymmetry == Permutations({b1, b2})

systemVars ==
  <<memVars, fileVars, entireVars, ringVars, exitVars, arenaVars, processVars, part, sample>>

Init ==
  /\ MemInit /\ FileInit /\ EntireInit /\ RingInit /\ ExitInit /\ ArenaInit /\ ProcessInit
  /\ sample = <<>>
  /\ part \in {"memory", "file", "entire", "ring", "exit", "arena", "process", "command line"}
  /\ file # <<>> => part \in {"file", "entire"}
  /\ pipe # <<>> => part = "entire" /\ file = <<>>

CommandLineNext ==
  /\ Len(sample) < MostUnits
  /\ \E u \in MCUnits : sample' = Append(sample, u)

OthersStay(vs) == part' = part /\ UNCHANGED vs

Next ==
  \/ /\ part = "memory" /\ MemNext
     /\ OthersStay(<<fileVars, entireVars, ringVars, exitVars, arenaVars, processVars, sample>>)
  \/ /\ part = "file" /\ FileNext
     /\ OthersStay(<<memVars, entireVars, ringVars, exitVars, arenaVars, processVars, sample>>)
  \/ /\ part = "entire" /\ EntireNext
     /\ OthersStay(<<memVars, ringVars, exitVars, arenaVars, processVars, sample>>)
  \/ /\ part = "ring" /\ RingNext
     /\ OthersStay(<<memVars, fileVars, entireVars, exitVars, arenaVars, processVars, sample>>)
  \/ /\ part = "exit" /\ ExitNext
     /\ OthersStay(<<memVars, fileVars, entireVars, ringVars, arenaVars, processVars, sample>>)
  \/ /\ part = "arena" /\ ArenaNext
     /\ OthersStay(<<memVars, fileVars, entireVars, ringVars, exitVars, processVars, sample>>)
  \/ /\ part = "process" /\ ProcessNext
     /\ OthersStay(<<memVars, fileVars, entireVars, ringVars, exitVars, arenaVars, sample>>)
  \/ /\ part = "command line" /\ CommandLineNext
     /\ OthersStay(<<memVars, fileVars, entireVars, ringVars, exitVars, arenaVars, processVars>>)

Spec == Init /\ [][Next]_systemVars

\* Memory streams and file streams promise the same: bytes in a row with a head that
\* moves over what it read or wrote (memory_stream.hpp, file_stream.hpp); the steps of
\* an entire read are such calls, too.
StreamsAreTapes == MemoryIsTape /\ FileIsTape

\* A command line is split into arguments at its spaces, whatever is quoted and escaped
\* where (set_process_arguments and its test).
ArgumentsAreSplit == part = "command line" => SplitsAs(sample, MCPath)
=============================================================================
