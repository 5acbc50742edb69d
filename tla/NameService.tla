---------------------------- MODULE NameService -----------------------------
(***************************************************************************)
(* What the certificate registry promises, with no storage layout: each    *)
(* name is free or held by one account with a binding, a free name goes to *)
(* whoever claims it, and only its holder can rebind or release it.        *)
(***************************************************************************)
CONSTANTS
    Holders,    \* who can hold a name
    NameSet,    \* the names
    Bindings,   \* what a name can be bound to
    Free        \* the state of a name nobody holds, no holding itself

VARIABLE holding    \* name -> Free or its holder and binding

Holdings == [holder : Holders, binding : Bindings]

Holding(h, b) == [holder |-> h, binding |-> b]

ServiceInit == holding = [n \in NameSet |-> Free]

Claim(h, n, b) ==
    /\ holding[n] = Free
    /\ holding' = [holding EXCEPT ![n] = Holding(h, b)]

Rebind(h, n, b) ==
    /\ holding[n] # Free
    /\ holding[n].holder = h
    /\ holding[n].binding # b
    /\ holding' = [holding EXCEPT ![n] = Holding(h, b)]

Release(h, n) ==
    /\ holding[n] # Free
    /\ holding[n].holder = h
    /\ holding' = [holding EXCEPT ![n] = Free]

ServiceNext ==
    \E h \in Holders, n \in NameSet :
        \/ \E b \in Bindings : Claim(h, n, b) \/ Rebind(h, n, b)
        \/ Release(h, n)

ServiceSpec == ServiceInit /\ [][ServiceNext]_holding

=============================================================================
