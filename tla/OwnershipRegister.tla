-------------------------- MODULE OwnershipRegister --------------------------
(***************************************************************************)
(* What the migration endpoint promises, without threads, messages or      *)
(* generation ids: a register that names one owner per switch and the set  *)
(* of controllers the switch itself has as MASTER.                         *)
(*                                                                         *)
(*   - Mastership of a switch is granted to a new controller only while a  *)
(*     transaction holds the switch.                                       *)
(*   - The register changes only inside such a transaction, once per       *)
(*     settled transaction, and counts its versions.                       *)
(*   - A switch is let go only when no controller but the one the register *)
(*     names is MASTER.                                                    *)
(*   - A transaction that cannot restore the switch never lets it go.      *)
(***************************************************************************)
EXTENDS Integers

CONSTANTS Controller, Switch, InitialOwner

VARIABLES owner, version, masters, held

registerVars == <<owner, version, masters, held>>

\* A switch is free, held by a transaction that has not settled, settled, or
\* held for good by a transaction that gave up.
Hold == {"free", "open", "settled", "stuck"}

Init ==
  /\ owner = InitialOwner
  /\ version = 1
  /\ masters \in [Switch -> SUBSET Controller]
  /\ \A s \in Switch : masters[s] \subseteq {owner[s]}
  /\ held = [s \in Switch |-> "free"]

Open(s) ==
  /\ held[s] = "free"
  /\ held' = [held EXCEPT ![s] = "open"]
  /\ UNCHANGED <<owner, version, masters>>

\* The switch has a new MASTER, or has its owner as MASTER again.
Grant(s, c) ==
  /\ held[s] \in {"free", "settled"} => c = owner[s]
  /\ masters' = [masters EXCEPT ![s] = {c}]
  /\ UNCHANGED <<owner, version, held>>

\* A controller loses its connections to some switches.
Lose(c, lost) ==
  /\ masters' = [s \in Switch |-> IF s \in lost THEN masters[s] \ {c} ELSE masters[s]]
  /\ UNCHANGED <<owner, version, held>>

Settle(s, c) ==
  /\ held[s] = "open"
  /\ masters[s] \subseteq {c}
  /\ owner' = [owner EXCEPT ![s] = c]
  /\ version' = version + 1
  /\ held' = [held EXCEPT ![s] = "settled"]
  /\ UNCHANGED masters

Free(s) ==
  /\ held[s] = "settled"
  /\ held' = [held EXCEPT ![s] = "free"]
  /\ UNCHANGED <<owner, version, masters>>

Stick(s) ==
  /\ held[s] = "open"
  /\ held' = [held EXCEPT ![s] = "stuck"]
  /\ UNCHANGED <<owner, version, masters>>

Next ==
  \/ \E s \in Switch :
       \/ Open(s) \/ Free(s) \/ Stick(s)
       \/ \E c \in Controller : Grant(s, c) \/ Settle(s, c)
  \/ \E c \in Controller, lost \in SUBSET Switch : Lose(c, lost)

Spec == Init /\ [][Next]_registerVars
=============================================================================
