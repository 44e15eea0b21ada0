---------------------------- MODULE MemoFutures ----------------------------
(***************************************************************************)
(* What CWMemo keeps of the promise of futures over a persistent store: an *)
(* owed call is never answered, a value answers only from the store, and   *)
(* the store changes by results alone.  While a result is landing the call *)
(* is no longer owed and not yet stored, and a get may miss it; an ideal   *)
(* future would not have that state.                                       *)
(***************************************************************************)
EXTENDS Naturals

CONSTANTS Keys, Values, NoValue, NoKey

VARIABLES
  store,     \* the value kept for each call
  owed,      \* the calls whose result a job still owes
  landing,   \* the call whose result is between its job and the store
  broken,    \* a job has failed and nobody was told
  answer     \* the last answer: kind, key and value

vars == <<store, owed, landing, broken, answer>>

Say(kind, k, v) == answer' = <<kind, k, v>>

Init ==
  /\ store = [k \in Keys |-> NoValue]
  /\ owed = {} /\ landing = NoKey /\ broken = FALSE
  /\ answer = <<"none", NoKey, NoValue>>

\* A value that no job of this process computed may be barred.
Bar(k) ==
  /\ k \notin owed /\ k # landing
  /\ store' = [store EXCEPT ![k] = NoValue]
  /\ UNCHANGED <<owed, landing, broken, answer>>

Owe(k) ==
  /\ owed' = owed \cup {k}
  /\ UNCHANGED <<store, landing, broken, answer>>

\* A job brings a result; another job of the same call may still be out.
Arrive(k) ==
  /\ landing = NoKey /\ k \in owed
  /\ landing' = k
  /\ owed' \in {owed, owed \ {k}}
  /\ UNCHANGED <<store, broken, answer>>

Land(v) ==
  /\ landing # NoKey
  /\ store' = [store EXCEPT ![landing] = v]
  /\ landing' = NoKey
  /\ UNCHANGED <<owed, broken, answer>>

\* Without a cluster the call is computed where it is asked for.
Compute(k, v) ==
  /\ owed = {} /\ landing = NoKey
  /\ store' = [store EXCEPT ![k] = v]
  /\ UNCHANGED <<owed, landing, broken, answer>>

\* A failed job goes on owing its call.
Break ==
  /\ owed # {}
  /\ broken' = TRUE
  /\ UNCHANGED <<store, owed, landing, answer>>

Reply(k) ==
  /\ k \notin owed /\ ~broken /\ store[k] # NoValue
  /\ Say("value", k, store[k])
  /\ UNCHANGED <<store, owed, landing, broken>>

Miss(k) ==
  /\ k \notin owed /\ ~broken /\ store[k] = NoValue
  /\ Say("KeyError", k, NoValue)
  /\ UNCHANGED <<store, owed, landing, broken>>

Raise(k) ==
  /\ broken
  /\ Say("RemoteException", k, NoValue)
  /\ broken' = FALSE
  /\ UNCHANGED <<store, owed, landing>>

\* A new session on the same object starts with a client that has seen nothing.
Forgive ==
  /\ landing = NoKey
  /\ broken' = FALSE
  /\ UNCHANGED <<store, owed, landing, answer>>

\* A crash forfeits what is owed, and keeps the store.
Forfeit ==
  /\ owed' = {} /\ landing' = NoKey /\ broken' = FALSE
  /\ answer' = <<"none", NoKey, NoValue>>
  /\ UNCHANGED store

Next ==
  \/ \E k \in Keys : Bar(k) \/ Owe(k) \/ Arrive(k) \/ Reply(k) \/ Miss(k) \/ Raise(k)
  \/ \E k \in Keys, v \in Values : Compute(k, v)
  \/ \E v \in Values : Land(v)
  \/ Break \/ Forgive \/ Forfeit

Spec == Init /\ [][Next]_vars
=============================================================================
