----------------------------- MODULE SaveStore -----------------------------
(***************************************************************************)
(* What the memory card promises its users (loader.c, main.c, the card     *)
(* menu): a store of saves by name.  One call is in progress at a time,    *)
(* and it may change only the save it names.  A call that no failure       *)
(* disturbs either leaves exactly what it was asked to leave, or leaves    *)
(* everything as it was; after a disturbed call the store promises nothing *)
(* about that one name until the next undisturbed one.                     *)
(***************************************************************************)
CONSTANTS Names, Nobody, Unknown

VARIABLES
  store,    \* what a load of each name returns
  promise,  \* what it is known to return, or Unknown
  busy      \* the name the call in progress works on, or Nobody

svars == <<store, promise, busy>>

OnlyBusyChanges == \A n \in Names \ {busy} :
  store'[n] = store[n] /\ promise'[n] = promise[n]

Init ==
  /\ busy = Nobody
  /\ promise = store

Start == /\ busy = Nobody
         /\ busy' \in Names
         /\ store' = store
         /\ promise' \in {promise, [promise EXCEPT ![busy'] = Unknown]}

Work == /\ busy # Nobody /\ busy' = busy
        /\ OnlyBusyChanges
        /\ promise'[busy] \in {promise[busy], Unknown}

(* The call ends: with what it promised in place, or in doubt.             *)
End == /\ busy # Nobody /\ busy' = Nobody
       /\ OnlyBusyChanges
       /\ promise'[busy] \in {store'[busy], Unknown}

Next == Start \/ Work \/ End

Spec == Init /\ [][Next]_svars
=============================================================================
