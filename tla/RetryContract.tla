--------------------------- MODULE RetryContract ---------------------------
(***************************************************************************)
(* What an idempotency key promises its clients, whichever way the call is *)
(* paid for: the tool takes effect once, that effect is charged once and   *)
(* nothing else is, and a result is only ever the result of that effect.   *)
(***************************************************************************)
EXTENDS Naturals

CONSTANTS
    Clients,    \* clients that retry with the key
    Effects,    \* what the tool may do
    Prices      \* what it may cost

VARIABLES
    done,       \* the effects of the key that stand
    billed,     \* the effects that were charged
    paid,       \* what the key costs its owner in all
    told        \* told[c]: the results that client c was given last

vars == <<done, billed, paid, told>>

Init ==
    /\ done = {} /\ billed = {}
    /\ paid = 0
    /\ told = [c \in Clients |-> {}]

TakeEffect ==
    /\ done = {}
    /\ \E o \in done' : o \in Effects /\ done' = {o}
    /\ UNCHANGED <<billed, paid, told>>

Charge ==
    /\ billed = {}
    /\ \E o \in done : billed' = {o}
    /\ paid' \in Prices
    /\ UNCHANGED <<done, told>>

\* A charge that could not be confirmed is given back, for good.
GiveBack ==
    /\ billed # {}
    /\ paid' = 0
    /\ UNCHANGED <<done, billed, told>>

\* An effect that was never paid for, and of which nobody was told (its call
\* was answered with an error), is written off: the key is free again, and a
\* retry may repeat that effect.
WriteOff ==
    /\ done # {} /\ billed = {}
    /\ \A c \in Clients : told[c] = {}
    /\ done' = {}
    /\ UNCHANGED <<billed, paid, told>>

\* A client is told the result, or that there is none for it.
Tell(c) ==
    /\ told' \in {[told EXCEPT ![c] = done], [told EXCEPT ![c] = {}]}
    /\ UNCHANGED <<done, billed, paid>>

Next ==
    \/ TakeEffect \/ Charge \/ GiveBack \/ WriteOff
    \/ \E c \in Clients : Tell(c)

Spec == Init /\ [][Next]_vars
============================================================================
