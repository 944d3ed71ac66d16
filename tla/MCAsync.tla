------------------------------ MODULE MCAsync ------------------------------
(* Small contexts with more commands than entries, and counters that wrap. A  *)
(* behaviour is on one of the systems.                                       *)
EXTENDS IoUring, Overlapped

VARIABLE system

asyncVars == <<system, vars, winVars>>

AsyncInit == system \in {"Linux", "Windows"} /\ Init /\ WinInit

AsyncNext ==
  /\ UNCHANGED system
  /\ \/ system = "Linux" /\ Next /\ UNCHANGED winVars
     \/ system = "Windows" /\ WinNext /\ UNCHANGED vars

AsyncSpec == AsyncInit /\ [][AsyncNext]_asyncVars

AsyncFairSpec == AsyncSpec /\ RingFair /\ WinFair

\* The fields of both contexts keep their types.
ContextsTypeOK == TypeOK /\ WinTypeOK

\* No completion, event or result reaches a command other than its own, on Linux
\* (io_uring_context.cpp) and on Windows (async_context.cpp).
ResultsFindTheirCommands == CompletionFindsItsTask /\ EventFindsItsCommand

\* Both contexts keep what async_io.hpp promises of commands.
CommandsOnce == EachCommandOnce /\ WinCommandOnce

\* async_await returns, whatever ends before the command it waits for.
AwaitsReturn == AwaitReturns /\ WinAwaitReturns
=============================================================================
