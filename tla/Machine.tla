-------------------------------- MODULE Machine --------------------------------
(***************************************************************************)
(* What the hardware shares out: the registers, between threads; the       *)
(* memory, between the two processors; and the SD card, between a program  *)
(* and the calls that it has outstanding.  A behaviour is about one of     *)
(* them, its part.                                                         *)
(***************************************************************************)
EXTENDS Registers, Card

CONSTANTS Parts,   \* the parts that a behaviour may be about
          User, MaxArgs, MaxHeap, Values, Results, Calls   \* see IosRequest

VARIABLES part, m, st, call, given, took, answer

Req == INSTANCE IosRequest

ASSUME MachineAssumption == Req!CallsAssumption

MachineInit ==
  /\ part \in Parts /\ Init /\ Req!Init /\ CardInit
  /\ part # "memory" => \A l \in User : m.ram[l] = CHOOSE v \in Values : TRUE
  /\ part # "card" => ~reserved

MachineNext ==
  \/ part = "registers" /\ Next
     /\ UNCHANGED <<part, m, st, call, given, took, answer, cardVars>>
  \/ part = "memory" /\ Req!Next /\ UNCHANGED <<part, vars, cardVars>>
  \/ part = "card" /\ CardNext /\ UNCHANGED <<part, vars, m, st, call, given, took, answer>>

MachineSpec == MachineInit /\ [][MachineNext]_<<part, vars, Req!vars, cardVars>>

-----------------------------------------------------------------------------
(***************************************************************************)
(* IOS acts on what the caller gave it, and the caller reads the result    *)
(* and the outputs of IOS, in its buffers and in those of the request,     *)
(* whatever goes through the cache meanwhile (Ipc.cpp:76-146, 240-398;     *)
(* Interface.hpp:66-325): see module IosRequest.                           *)
(***************************************************************************)
ImplementsIosCall == Req!ImplementsIosCall
=============================================================================
