--------------------------- MODULE IndexDirectory ---------------------------
(***************************************************************************)
(* What the keypair store and the network store promise their user: a      *)
(* directory from indices to values.  A call works on one index and touches*)
(* no other; it fills the entry if nothing is there, or empties it, each   *)
(* in one step, or it leaves it alone.  Entry 0 holds the one-time object, *)
(* which a create replaces in two steps and a restart forgets.             *)
(***************************************************************************)
EXTENDS Integers

CONSTANTS MaxIndex, Values, None, Idle

VARIABLES
  dir,      \* the value each index holds, None for no value
  call      \* the index of the call under way, Idle between calls

Indices == 0..MaxIndex

Init == dir = [i \in Indices |-> None] /\ call = Idle

\* The entries outside S stay as they are.
OnlyIn(S) == DOMAIN dir' = Indices /\ \A i \in Indices \ S : dir'[i] = dir[i]

Begin == call = Idle /\ call' \in Indices /\ OnlyIn({})

\* An entry is filled, emptied or left alone; it never changes its value.
Work ==
  /\ call # Idle
  /\ call' \in {call, Idle}
  /\ OnlyIn({call})
  /\ dir'[call] \in {dir[call], None} \/ (dir[call] = None /\ dir'[call] \in Values)

Restart == call = Idle /\ UNCHANGED call /\ OnlyIn({0}) /\ dir'[0] = None

Next == Begin \/ Work \/ Restart

Spec == Init /\ [][Next]_<<dir, call>>
=============================================================================
