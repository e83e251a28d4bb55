----------------------------- MODULE MCBotProcess -----------------------------
(* Constants for the runs of BotProcess.                                       *)
EXTENDS BotProcess, TLC

CONSTANTS h1, h2

OneHandler  == {Main, h1}
TwoHandlers == {Main, h1, h2}

TwoDescriptors == 1 .. 2
AnyOfTwo       == 0 .. 2
NoGarbage      == {0}

AllFaults == {"ctx", "net", "db", "gone", "signal"}
NoFaults  == {}
NetOnly   == {"net"}

Handlers == Permutations(Handler)

(* What tells two states apart: no guard asks which failures happened, the     *)
(* invariants ask for two of them, and signalled is the opposite of running.   *)
Seen == <<httpsVars, connVars, pPc, todo, running, happened \cap {"ctx", "gone"}>>

=============================================================================
