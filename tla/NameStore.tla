----------------------------- MODULE NameStore -----------------------------
(***************************************************************************)
(* What a store of named values promises to the programs that share it,    *)
(* whatever fails: each name is a register of its own.  Its value changes  *)
(* only to one that an operation under way on that name asked for, and     *)
(* what an operation was told stays, also when the machine stops, but for  *)
(* the operations that are still under way on that name.                   *)
(***************************************************************************)
CONSTANTS Names, Values, Nothing

VARIABLES
  value,   \* of each name, as programs read it
  due,     \* the values that operations under way want
  open     \* the values a stop of the machine may leave

Init ==
  /\ value = [n \in Names |-> Nothing]
  /\ due   = [n \in Names |-> {}]
  /\ open  = [n \in Names |-> {Nothing}]

Begin(n, v) ==
  /\ due'  = [due  EXCEPT ![n] = @ \cup {v}]
  /\ open' = [open EXCEPT ![n] = @ \cup {v}]
  /\ UNCHANGED value

Put(n) ==
  /\ \E v \in due[n] : value' = [value EXCEPT ![n] = v]
  /\ UNCHANGED <<due, open>>

(* An operation ends and promises nothing. *)
End(n) ==
  /\ \E left \in SUBSET due[n] : due' = [due EXCEPT ![n] = left]
  /\ UNCHANGED <<value, open>>

(* An operation ends and tells that the value is safe. *)
Settle(n) ==
  /\ \E left \in SUBSET due[n] :
       /\ due'  = [due  EXCEPT ![n] = left]
       /\ open' = [open EXCEPT ![n] = {value[n]} \cup left]
  /\ UNCHANGED value

Stop ==
  /\ value' \in [Names -> Values]
  /\ \A n \in Names : value'[n] \in open[n]
  /\ due' = [n \in Names |-> {}]
  /\ UNCHANGED open

Next ==
  \/ \E n \in Names : Put(n) \/ End(n) \/ Settle(n) \/ \E v \in Values : Begin(n, v)
  \/ Stop

Spec == Init /\ [][Next]_<<value, due, open>>
============================================================================
