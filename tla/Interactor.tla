----------------------------- MODULE Interactor -----------------------------
(***************************************************************************)
(* The pallet interactor (Interactor.js): lists of pallets, of callables   *)
(* and of parameter fields are states of their own, computed by effects    *)
(* from the interaction type and the form.  React runs the effects of a    *)
(* change before the next event, so an action is the change and its        *)
(* effects.                                                                *)
(***************************************************************************)
EXTENDS Naturals, Filtering

CONSTANTS
    Api         \* interaction type -> pallet -> callable -> its parameters

VARIABLES
    interxType,
    palletRPCs, callables, paramFields,     \* what the effects have computed
    palletRpc, callable, inputParams        \* formState

interactorVars ==
    <<interxType, palletRPCs, callables, paramFields, palletRpc, callable, inputParams>>

InterxTypes == {"EXTRINSIC", "QUERY", "RPC", "CONSTANT"}

ASSUME ApiAssumption ==
    /\ DOMAIN Api = InterxTypes
    /\ \A t \in InterxTypes : \A p \in DOMAIN Api[t] : \A c \in DOMAIN Api[t][p] :
          LET params == Api[t][p][c]
          IN  /\ params \in Seq({params[i] : i \in DOMAIN params})
              /\ \A i \in DOMAIN params : params[i].optional \in BOOLEAN

Pallets == UNION {DOMAIN Api[t] : t \in InterxTypes}
Callables == UNION {UNION {DOMAIN Api[t][p] : p \in DOMAIN Api[t]} : t \in InterxTypes}

\* What can be typed for a parameter: nothing, spaces only, or a text.
ParamTexts == {"", "blank", "text"}

InteractorTypeOK ==
    /\ interxType \in InterxTypes
    /\ palletRPCs \subseteq Pallets /\ callables \subseteq Callables
    /\ palletRpc \in Pallets \cup {""} /\ callable \in Callables \cup {""}
    /\ \A i \in DOMAIN paramFields : paramFields[i].optional \in BOOLEAN
    /\ \A i \in DOMAIN inputParams : inputParams[i].value \in ParamTexts

-----------------------------------------------------------------------------
(* The effects *)

\* updatePalletRPCs leaves out what has no callable.
NonEmptyPallets(t) == {p \in DOMAIN Api[t] : DOMAIN Api[t][p] # {}}

\* updatePalletRPCs, updateCallables and updateParamFields for the new form:
\* without a pallet the callables stay what they were.
Effects ==
    /\ palletRPCs' = NonEmptyPallets(interxType')
    /\ callables' = IF palletRpc' = "" THEN callables
                    ELSE DOMAIN Api[interxType'][palletRpc']
    /\ paramFields' = IF palletRpc' = "" \/ callable' = "" THEN << >>
                      ELSE Api[interxType'][palletRpc'][callable']

InteractorInit ==
    /\ interxType = "EXTRINSIC"
    /\ palletRPCs = NonEmptyPallets("EXTRINSIC")
    /\ callables = {} /\ paramFields = << >>
    /\ palletRpc = "" /\ callable = "" /\ inputParams = << >>

-----------------------------------------------------------------------------
(* The form *)

\* onInterxTypeChange.
OnInterxTypeChange(t) ==
    /\ t # interxType
    /\ interxType' = t
    /\ palletRpc' = "" /\ callable' = "" /\ inputParams' = << >>
    /\ Effects

\* onPalletCallableParamChange of the pallets' dropdown.
SelectPallet(p) ==
    /\ p \in palletRPCs /\ p # palletRpc
    /\ palletRpc' = p /\ callable' = "" /\ inputParams' = << >>
    /\ UNCHANGED interxType
    /\ Effects

\* Mutant: the parameters typed for another callable are kept.
KeptParams == inputParams

\* The parameters after a callable was selected.
NoParams == << >>

\* onPalletCallableParamChange of the callables' dropdown, which may still
\* list those of a pallet that is not selected any more.
SelectCallable(c) ==
    /\ c \in callables /\ c # callable
    /\ callable' = c /\ inputParams' = NoParams
    /\ UNCHANGED <<interxType, palletRpc>>
    /\ Effects

\* onPalletCallableParamChange of the input of a parameter: the array may
\* have holes.
TypeParam(i, v) ==
    /\ i \in DOMAIN paramFields
    /\ inputParams' = [j \in DOMAIN inputParams \cup {i} |->
                          IF j = i THEN [type |-> paramFields[i].type, value |-> v]
                          ELSE inputParams[j]]
    /\ UNCHANGED <<interxType, palletRPCs, callables, paramFields, palletRpc, callable>>

InteractorNext ==
    \/ \E t \in InterxTypes : OnInterxTypeChange(t)
    \/ \E p \in palletRPCs : SelectPallet(p)
    \/ \E c \in callables : SelectCallable(c)
    \/ \E i \in DOMAIN paramFields, v \in ParamTexts : TypeParam(i, v)

-----------------------------------------------------------------------------
(* What the button is given *)

\* InteractorSubmit: the buttons by their instances.  For the types other than
\* EXTRINSIC React keeps the instance, the element staying a TxButton.
Submits(t) ==
    IF t = "EXTRINSIC" THEN [b \in {"UNSIGNED-TX", "SIGNED-TX", "SUDO-TX"} |-> b]
    ELSE [b \in {"single"} |-> t]

\* allParamsFilled of TxButton, which does not trim.
AllParamsFilled ==
    \A i \in DOMAIN paramFields :
        \/ paramFields[i].optional
        \/ i \in DOMAIN inputParams /\ inputParams[i].value # ""

SubmitEnabled == palletRpc # "" /\ callable # "" /\ AllParamsFilled

\* transformParams of TxButton: what is empty once trimmed is sent as null, or
\* for an RPC not at all, and the later arguments move forward.
Filled == {i \in DOMAIN inputParams : inputParams[i].value = "text"}

Arguments ==
    LET null == [type |-> "null", value |-> ""]
        params == [i \in DOMAIN paramFields |-> IF i \in Filled THEN inputParams[i] ELSE null]
        given == {i \in DOMAIN paramFields : params[i] # null}
    IN  IF interxType = "RPC" THEN EntriesAt(params, given) ELSE params

\* A call that can be submitted exists in the api of the interaction type and
\* is given its own parameters: one argument each, or null, of the type of
\* the parameter in its place.  An RPC is not given those left empty: up to
\* the first of them the arguments are in their places, and each of the rest
\* is one of a later parameter.  The lists come from effects of different
\* changes, and what was typed for one callable is in the form when the next
\* is selected.
SubmitFits ==
    SubmitEnabled =>
        /\ palletRpc \in DOMAIN Api[interxType]
        /\ callable \in DOMAIN Api[interxType][palletRpc]
        /\ LET params == Api[interxType][palletRpc][callable]
           IN  IF interxType = "RPC"
               THEN /\ Len(Arguments) <= Len(params)
                    /\ \A i \in DOMAIN Arguments :
                          IF 1..i \subseteq Filled
                          THEN Arguments[i].type = params[i].type
                          ELSE \E k \in DOMAIN params :
                                  i < k /\ Arguments[i].type = params[k].type
               ELSE /\ Len(Arguments) = Len(params)
                    /\ \A i \in DOMAIN Arguments :
                          Arguments[i].type \in {params[i].type, "null"}

=============================================================================
