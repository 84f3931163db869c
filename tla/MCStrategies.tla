---------------------------- MODULE MCStrategies ----------------------------
(***************************************************************************)
(* The two strategies of src/alloc, each under its own calls: g_strategy   *)
(* points to one of them.                                                  *)
(*                                                                         *)
(* First fit has an arena of ten cells: room for three minimal blocks.     *)
(* Its sizes are the zero request, a two-cell request and one whose block  *)
(* size would wrap around size_t.  The buddy system has 256 bytes, 32 of   *)
(* them its own state: seeds of 32, 64 and 128 bytes; its requests need    *)
(* orders 5, 6 and 7, one is larger than any block and one larger than the *)
(* arena.                                                                  *)
(***************************************************************************)
EXTENDS FirstFit, Buddy

VARIABLE g_strategy

MCSpan == 10
MCSizeMax == 255
MCSizes == {0, 17, 240}
MCBuddySizes == {16, 17, 112, 200, 257}

ASSUME BuddyAssumption == ArenaAssumption /\ BuddyRequestAssumption

allvars == <<vars, buddyvars, g_strategy>>

StrategiesInit == Init /\ BuddyInit /\ g_strategy \in {"firstfit", "buddy"}

FirstFitStep == g_strategy = "firstfit" /\ Next /\ UNCHANGED buddyvars
BuddyStep == g_strategy = "buddy" /\ BuddyNext /\ UNCHANGED vars

StrategiesNext ==
    \/ FirstFitStep /\ UNCHANGED g_strategy
    \/ BuddyStep /\ UNCHANGED g_strategy

StrategiesSpec == StrategiesInit /\ [][StrategiesNext]_allvars

=============================================================================
