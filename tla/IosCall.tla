------------------------------- MODULE IosCall -------------------------------
(***************************************************************************)
(* What a call of IOS promises: IOS acts on what the caller gave, and the  *)
(* caller has the answer when the call has synced, as if both processors   *)
(* had one memory.  What the call uses is lent until then.                 *)
(***************************************************************************)
EXTENDS Naturals, Sequences

CONSTANTS Values, Results,
          User,        \* the lines of the caller's buffers
          Calls,
          Inputs(_),   \* of a call: its inputs, each the lines of one
          Copies(_),   \* the lines that are copies of values
          Lines(_),    \* all that it uses
          Written(_),  \* what IOS writes
          Refused(_), Waits(_)

VARIABLES mem,    \* the caller's buffers
          st,     \* "none", "sent", "taken", "answered", "synced", "refused"
          call,
          given,  \* the inputs, when the caller asked
          took,   \* the inputs, as IOS has them
          answer  \* the result and the outputs
vars == <<mem, st, call, given, took, answer>>

Idle == st \in {"none", "synced"}
Lent == IF Idle THEN {} ELSE Lines(call)

Store(u, v) == /\ u \in User \ Lent
               /\ mem' = [mem EXCEPT ![u] = v]
               /\ UNCHANGED <<st, call, given, took, answer>>

\* The caller gives what its buffers hold, and copies of values.
Given(c, copies) ==
    [i \in DOMAIN Inputs(c) |->
        [k \in DOMAIN Inputs(c)[i] |->
            LET l == Inputs(c)[i][k] IN IF l \in User THEN mem[l] ELSE copies[l]]]

Issue(c, copies) ==
    /\ Idle /\ ~Refused(c)
    /\ st' = "sent" /\ call' = c
    /\ given' = Given(c, copies) /\ took' = <<>> /\ answer' = <<>>
    /\ mem' = [u \in User |-> IF u \in Written(c) THEN "lent" ELSE mem[u]]

\* A call that waits says that it is refused; a request does not come back.
Refuse(c) ==
    /\ Idle /\ Refused(c)
    /\ st' = (IF Waits(c) THEN "synced" ELSE "refused") /\ call' = c
    /\ given' = <<>> /\ took' = <<>>
    /\ answer' = IF Waits(c) THEN [result |-> "INVALID", lines |-> <<>>] ELSE <<>>
    /\ UNCHANGED mem

Take == /\ st = "sent" /\ st' = "taken"
        /\ took' = given
        /\ UNCHANGED <<mem, call, given, answer>>

Answer(result, new) ==
    /\ st = "taken" /\ st' = "answered"
    /\ answer' = [result |-> result, lines |-> new]
    /\ UNCHANGED <<mem, call, given, took>>

Sync == /\ st = "answered" /\ st' = "synced"
        /\ mem' = [u \in User |-> IF u \in Written(call) THEN answer.lines[u] ELSE mem[u]]
        /\ UNCHANGED <<call, given, took, answer>>

Init == /\ mem \in [User -> Values]
        /\ st = "none" /\ call = <<>> /\ given = <<>> /\ took = <<>> /\ answer = <<>>

Next == \/ \E u \in User, v \in Values : Store(u, v)
        \/ \E c \in Calls : \E copies \in [Copies(c) -> Values] : Issue(c, copies)
        \/ \E c \in Calls : Refuse(c)
        \/ Take
        \/ \E result \in Results, new \in [Written(call) -> Values] : Answer(result, new)
        \/ Sync

Spec == Init /\ [][Next]_vars
==============================================================================
