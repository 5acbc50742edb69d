--------------------------- MODULE UiPagesProofs ----------------------------
(***************************************************************************)
(* What UiPages' run checks of two clicks, four accounts and two           *)
(* transactions, proved for any number of them.  A page touches nothing    *)
(* but its own states, so each argument is about one of the modules.       *)
(***************************************************************************)
EXTENDS UiPages, DataLemmas, TLAPS

\* A step of the pages is one of the buttons, or shows those of another
\* interaction type, or leaves them alone.
LEMMA ButtonSteps ==
    ASSUME [Next]_vars
    PROVE  \/ ButtonNext
           \/ \E t \in InterxTypes : Retype(Submits(t))
           \/ UNCHANGED buttonVars
<1>1. InteractorNext => interxType' \in InterxTypes \/ interxType' = interxType
  BY DEF InteractorNext, OnInterxTypeChange, SelectPallet, SelectCallable, TypeParam
<1>2. CASE InteractorPage
  BY <1>1, <1>2 DEF InteractorPage, FormChanges, ButtonWorks
<1>3. CASE ~InteractorPage
  BY <1>3 DEF Next, AmountsPage, BalancesPage, DemocracyPage, vars
<1>4. QED
  BY <1>2, <1>3

\* So it is with the other pages.
LEMMA InteractorSteps ==
    ASSUME [Next]_vars PROVE InteractorNext \/ UNCHANGED interactorVars
  BY DEF Next, InteractorPage, FormChanges, ButtonWorks, AmountsPage, BalancesPage,
         DemocracyPage, vars

\* A step of the app is one of the amounts, or leaves them alone.
LEMMA AmountsSteps ==
    ASSUME [Next]_vars PROVE AmountsNext \/ UNCHANGED amountsVars
  BY DEF Next, InteractorPage, AmountsPage, BalancesPage, DemocracyPage, vars

\* A step of the app is one of the transfer form, or leaves it alone.
LEMMA StartsSteps ==
    ASSUME [Next]_vars PROVE StartsNext \/ UNCHANGED startsVars
  BY DEF Next, InteractorPage, AmountsPage, BalancesPage, DemocracyPage, vars

\* A step of the app is one of the modals, or leaves them alone.
LEMMA ModalSteps ==
    ASSUME [Next]_vars PROVE ModalNext \/ UNCHANGED modalVars
  BY DEF Next, InteractorPage, AmountsPage, BalancesPage, DemocracyPage, vars

-----------------------------------------------------------------------------
(* The amounts of a transfer *)

DeltaField(side) == IF side = "sndr" THEN "sndrDelta" ELSE "rcptDelta"

EndField(side) == IF side = "sndr" THEN "sndrEnd" ELSE "rcptEnd"
ShownTexts == [num : {NaN} \cup Amounts, dot : BOOLEAN]

\* A field whose text is complete and whose criteria are met says what is
\* transferred: each on its own, since an ignored text spoils only its field.
\* An end says it for the balance shown, when it was not ignored for being out
\* of reach.
AmountInv ==
    /\ \A side \in Sides : ~delta[side].dot /\ fieldOk[DeltaField(side)] =>
          delta[side].num = IF side = "sndr" THEN -amount ELSE amount
    /\ \A side \in Sides \ outdated : ~end[side].dot /\ fieldOk[EndField(side)] =>
          end[side].num = After(side, start[side], amount) \/ OutOfReach(side)

\* What updateAmount leaves while a text is typed.
LEMMA TypedAmount ==
    ASSUME AmountsTypeOK, NEW f \in AmountFields, NEW text \in TypedTexts
    PROVE  /\ AmountOf(f, text.num) \in {NaN} \cup Amounts
           /\ AmountOf(f, text.num) \in Int => AmountOf(f, text.num) <= 2 * MaxCoins
           /\ text \in ShownTexts /\ text.num \in {NaN} \cup Amounts
<1>1. text.num \in {NaN} \cup (-MaxCoins..MaxCoins) /\ text.dot \in BOOLEAN /\ text \in ShownTexts
  <2> DEFINE Typed == {NaN} \cup (-MaxCoins..MaxCoins)
  <2>1. 0 \in Typed /\ Typed \subseteq {NaN} \cup Amounts
    BY CoinsAssumption DEF Amounts
  <2>2. (\E n \in Typed : text = [num |-> n, dot |-> FALSE]) \/ text = [num |-> 0, dot |-> TRUE]
    BY DEF TypedTexts, Number
  <2> HIDE DEF Typed
  <2>3. text.num \in Typed /\ text.dot \in BOOLEAN /\ text = [num |-> text.num, dot |-> text.dot]
    <3>1. ASSUME NEW n, NEW dot, text = [num |-> n, dot |-> dot]
          PROVE  text.num = n /\ text.dot = dot /\ text = [num |-> text.num, dot |-> text.dot]
      BY <3>1
    <3>2. FALSE \in BOOLEAN /\ TRUE \in BOOLEAN
      OBVIOUS
    <3>3. QED
      BY <2>1, <2>2, <3>1, <3>2, Zenon
  <2>4. text \in ShownTexts
    BY <2>1, <2>3 DEF ShownTexts
  <2>5. QED
    BY <2>3, <2>4 DEF Typed
<1>2. \A side \in Sides : start[side] \in 0..MaxCoins
  BY DEF AmountsTypeOK, Coins
<1>3. QED
  BY <1>1, <1>2, CoinsAssumption DEF AmountFields, AmountOf, Minus, Amounts, Sides, ShownTexts

\* What an amount leaves of the balance of a side.
LEMMA AfterTypes ==
    ASSUME NEW side \in Sides, NEW coins \in Coins, NEW new \in Transferred
    PROVE  Number(After(side, coins, new)) \in ShownTexts
  BY CoinsAssumption DEF Coins, Transferred, After, Number, ShownTexts, Amounts

\* A callback keeps AmountInv: it computes the end, of its own amount.
LEMMA BalanceKeeps ==
    ASSUME AmountsTypeOK, AmountInv, NEW side \in Sides, NEW coins \in Coins, NEW old \in rendered,
           BalanceShown(side, coins, old)
    PROVE  AmountsTypeOK' /\ AmountInv'
<1>1. /\ start' = [start EXCEPT ![side] = coins]
      /\ end' = [end EXCEPT ![side] = Number(After(side, coins, old))]
      /\ outdated' = IF old = amount THEN outdated \ {side} ELSE outdated \cup {side}
      /\ UNCHANGED <<delta, fieldOk, amount, rendered>>
  BY DEF BalanceShown
<1>2. old \in Transferred
  BY DEF AmountsTypeOK
<1>3. AmountsTypeOK'
  <2>1. Number(After(side, coins, old)) \in ShownTexts
    BY <1>2, AfterTypes
  <2>2. outdated' \subseteq Sides
    BY <1>1 DEF AmountsTypeOK
  <2>3. QED
    BY <1>1, <2>1, <2>2 DEF AmountsTypeOK, ShownTexts
<1>4. ASSUME NEW s \in Sides \ outdated', ~end'[s].dot /\ fieldOk'[EndField(s)]
      PROVE  end'[s].num = After(s, start'[s], amount') \/ OutOfReach(s)'
  <2>1. CASE s = side
    <3>1. old = amount
      BY <1>1, <1>4, <2>1
    <3>2. end'[s] = Number(After(s, coins, amount)) /\ start'[s] = coins
      BY <1>1, <2>1, <3>1 DEF AmountsTypeOK
    <3>3. QED
      BY <1>1, <3>2 DEF Number
  <2>2. CASE s # side
    <3>1. end'[s] = end[s] /\ start'[s] = start[s] /\ s \in Sides \ outdated
      BY <1>1, <1>4, <2>2 DEF AmountsTypeOK
    <3>2. end[s].num = After(s, start[s], amount) \/ OutOfReach(s)
      BY <1>1, <1>4, <3>1 DEF AmountInv
    <3>3. OutOfReach(s)' = OutOfReach(s)
      BY <1>1, <3>1 DEF OutOfReach, AmountOf, Sides
    <3>4. QED
      BY <1>1, <3>1, <3>2, <3>3
  <2>3. QED
    BY <2>1, <2>2
<1>5. \A s \in Sides : ~delta'[s].dot /\ fieldOk'[DeltaField(s)] =>
          delta'[s].num = IF s = "sndr" THEN -amount' ELSE amount'
  BY <1>1 DEF AmountInv
<1>6. QED
  BY <1>3, <1>4, <1>5 DEF AmountInv

\* A text that is ignored and yet valid is an end out of reach.
LEMMA IgnoredKeeps ==
    ASSUME AmountsTypeOK, AmountInv, NEW f \in AmountFields, NEW text \in TypedTexts,
           TypeAmount(f, text), IgnoresAmount(text, AmountOf(f, text.num))
    PROVE  AmountsTypeOK' /\ AmountInv'
<1> DEFINE new == AmountOf(f, text.num)
<1>1. /\ start' = start /\ amount' = amount /\ rendered' = rendered /\ outdated' = outdated
      /\ fieldOk' = [fieldOk EXCEPT ![f] = CriteriaOk(f, text.num)]
      /\ delta' = CASE f = "sndrDelta" -> [delta EXCEPT !["sndr"] = text]
                    [] f = "rcptDelta" -> [delta EXCEPT !["rcpt"] = text]
                    [] OTHER -> delta
      /\ end' = CASE f = "sndrEnd" -> [end EXCEPT !["sndr"] = text]
                  [] f = "rcptEnd" -> [end EXCEPT !["rcpt"] = text]
                  [] OTHER -> end
  BY DEF TypeAmount, TypedInto
<1>2. text \in ShownTexts /\ CriteriaOk(f, text.num) \in BOOLEAN
  BY TypedAmount DEF CriteriaOk
<1>3. AmountsTypeOK'
  <2>1. fieldOk' \in [AmountFields -> BOOLEAN]
    BY <1>1, <1>2 DEF AmountsTypeOK
  <2>2. delta' \in [Sides -> ShownTexts] /\ end' \in [Sides -> ShownTexts]
    BY <1>1, <1>2 DEF AmountsTypeOK, ShownTexts, Sides
  <2>3. QED
    BY <1>1, <2>1, <2>2 DEF AmountsTypeOK, ShownTexts
<1>4. text.num \in {NaN} \cup Int /\ NaN \notin Int /\ (text.num \in Int => text.num # NaN)
  BY TypedAmount, CoinsAssumption DEF Amounts
<1>5. f \in {"sndrDelta", "rcptDelta"} => text.dot \/ ~CriteriaOk(f, text.num)
  BY <1>4, CoinsAssumption DEF IgnoresAmount, AmountOf, CriteriaOk, Minus
<1>6. f \in {"sndrEnd", "rcptEnd"} => text.dot \/ ~CriteriaOk(f, text.num) \/ new < 0
  <2>1. \A side \in Sides : start[side] \in Int
    BY CoinsAssumption DEF AmountsTypeOK, Coins
  <2>2. ASSUME f \in {"sndrEnd", "rcptEnd"}, text.num # NaN PROVE new \in Int
    BY <1>4, <2>1, <2>2, CoinsAssumption DEF AmountOf, Minus, Sides
  <2>3. QED
    BY <2>2, CoinsAssumption DEF IgnoresAmount, CriteriaOk
<1>7. ASSUME NEW s \in Sides, ~delta'[s].dot, fieldOk'[DeltaField(s)]
      PROVE  delta'[s].num = IF s = "sndr" THEN -amount' ELSE amount'
  <2>1. CASE f = DeltaField(s)
    BY <1>1, <1>5, <1>7, <2>1 DEF DeltaField, Sides, AmountsTypeOK, AmountFields
  <2>2. CASE f # DeltaField(s)
    BY <1>1, <1>7, <2>2 DEF DeltaField, Sides, AmountsTypeOK, AmountFields, AmountInv
  <2>3. QED
    BY <2>1, <2>2
<1>8. ASSUME NEW s \in Sides \ outdated', ~end'[s].dot, fieldOk'[EndField(s)]
      PROVE  end'[s].num = After(s, start'[s], amount') \/ OutOfReach(s)'
  <2>1. CASE f = EndField(s)
    <3>1. end'[s] = text /\ fieldOk'[f] = CriteriaOk(f, text.num)
      BY <1>1, <2>1 DEF EndField, Sides, AmountsTypeOK, AmountFields
    <3>2. new < 0
      BY <1>6, <1>8, <2>1, <3>1 DEF EndField, Sides
    <3>3. OutOfReach(s)' <=> AmountOf(f, text.num) < 0
      BY <1>1, <2>1, <3>1 DEF OutOfReach, EndField, AmountOf, Sides
    <3>4. QED
      BY <3>2, <3>3
  <2>2. CASE f # EndField(s)
    <3>1. end'[s] = end[s] /\ fieldOk'[EndField(s)] = fieldOk[EndField(s)]
      BY <1>1, <2>2 DEF EndField, Sides, AmountsTypeOK, AmountFields
    <3>2. end[s].num = After(s, start[s], amount) \/ OutOfReach(s)
      BY <1>1, <1>8, <3>1 DEF AmountInv
    <3>3. OutOfReach(s)' = OutOfReach(s)
      BY <1>1, <3>1 DEF OutOfReach, AmountOf, Sides
    <3>4. QED
      BY <1>1, <3>1, <3>2, <3>3
  <2>3. QED
    BY <2>1, <2>2
<1>9. QED
  BY <1>3, <1>7, <1>8 DEF AmountInv

\* A text that is taken over makes every other field agree with it.
LEMMA TakenKeeps ==
    ASSUME AmountsTypeOK, AmountInv, NEW f \in AmountFields, NEW text \in TypedTexts,
           TypeAmount(f, text), ~IgnoresAmount(text, AmountOf(f, text.num))
    PROVE  AmountsTypeOK' /\ AmountInv'
<1> DEFINE new == AmountOf(f, text.num)
<1>1. new \in Transferred
  BY TypedAmount, CoinsAssumption DEF IgnoresAmount, Amounts, Transferred
<1>2. /\ delta' = [sndr |-> Number(-new), rcpt |-> Number(new)]
      /\ end' = [s \in Sides |-> Number(After(s, start[s], new))]
      /\ amount' = new /\ rendered' = rendered \cup {new} /\ outdated' = {} /\ start' = start
      /\ fieldOk' = [g \in AmountFields |-> g = f => CriteriaOk(f, text.num)]
  BY DEF TypeAmount, UpdateAmount
<1>3. CriteriaOk(f, text.num) \in BOOLEAN
  BY DEF CriteriaOk
<1> HIDE DEF new
<1>4. AmountsTypeOK'
  <2>1. fieldOk' \in [AmountFields -> BOOLEAN]
    <3>1. \A g \in AmountFields : (g = f => CriteriaOk(f, text.num)) \in BOOLEAN
      BY <1>3
    <3>2. QED
      BY <1>2, <3>1
  <2>2. delta' \in [Sides -> ShownTexts]
    <3>1. Number(-new) \in ShownTexts /\ Number(new) \in ShownTexts
      BY <1>1, CoinsAssumption DEF Number, ShownTexts, Amounts, Transferred
    <3>2. \A r, q \in ShownTexts : [sndr |-> r, rcpt |-> q] \in [Sides -> ShownTexts]
      BY DEF Sides
    <3>3. QED
      BY <1>2, <3>1, <3>2
  <2>3. end' \in [Sides -> ShownTexts]
    <3>1. \A s \in Sides : start[s] \in Coins
      BY DEF AmountsTypeOK
    <3>2. \A s \in Sides : Number(After(s, start[s], new)) \in ShownTexts
      BY <1>1, <3>1, AfterTypes
    <3>3. QED
      BY <1>2, <3>2
  <2>4. QED
    BY <1>1, <1>2, <2>1, <2>2, <2>3 DEF AmountsTypeOK, ShownTexts
<1>5. \A s \in Sides : delta'[s].num = IF s = "sndr" THEN -amount' ELSE amount'
  BY <1>2 DEF Number, Sides
<1>6. \A s \in Sides : end'[s].num = After(s, start'[s], amount')
  BY <1>2 DEF Number
<1>7. QED
  BY <1>4, <1>5, <1>6 DEF AmountInv

\* So both hold always.
LEMMA AmountsHold == Spec => [](AmountsTypeOK /\ AmountInv)
<1>1. Init => AmountsTypeOK /\ AmountInv
  <2> SUFFICES ASSUME AmountsInit PROVE AmountsTypeOK /\ AmountInv
    BY DEF Init
  <2>1. Number(0) \in ShownTexts /\ 0 \in Coins /\ 0 \in Transferred
    BY CoinsAssumption DEF Number, ShownTexts, Amounts, Coins, Transferred
  <2>2. AmountsTypeOK
    BY <2>1 DEF AmountsInit, AmountsTypeOK, ShownTexts
  <2>3. AmountInv
    BY DEF AmountsInit, AmountInv, Number, After
  <2>4. QED
    BY <2>2, <2>3
<1>2. AmountsTypeOK /\ AmountInv /\ [Next]_vars => AmountsTypeOK' /\ AmountInv'
  <2> SUFFICES ASSUME AmountsTypeOK, AmountInv, [Next]_vars PROVE AmountsTypeOK' /\ AmountInv'
    OBVIOUS
  <2>1. CASE UNCHANGED amountsVars
    BY <2>1 DEF amountsVars, AmountsTypeOK, AmountInv, OutOfReach, AmountOf
  <2>2. CASE AmountsNext
    BY <2>2, BalanceKeeps, IgnoredKeeps, TakenKeeps DEF AmountsNext
  <2>3. QED
    BY <2>1, <2>2, AmountsSteps
<1>3. QED
  BY <1>1, <1>2, PTL DEF Spec

\* A transfer form that can be submitted transfers what both its changes say,
\* and its ends are what that leaves of the balances shown, save those that
\* were ignored for being out of reach or computed by an outdated callback.
THEOREM ShownAmountIsTransferred == Spec => []ShownIsTransferred
<1>1. AmountsTypeOK /\ AmountInv => ShownIsTransferred
  <2> SUFFICES ASSUME AmountInv, IsValid, \A side \in Sides : ~delta[side].dot /\ ~end[side].dot
               PROVE  /\ delta["rcpt"].num = amount /\ delta["sndr"].num = -amount
                      /\ \A side \in Sides \ outdated :
                            end[side].num = After(side, start[side], amount) \/ OutOfReach(side)
    BY DEF ShownIsTransferred
  <2>1. \A side \in Sides : fieldOk[DeltaField(side)] /\ fieldOk[EndField(side)]
    BY DEF IsValid, AmountFields, DeltaField, EndField
  <2>2. "sndr" \in Sides /\ "rcpt" \in Sides
    BY DEF Sides
  <2>3. QED
    BY <2>1, <2>2 DEF AmountInv
<1>2. QED
  BY <1>1, AmountsHold, PTL

-----------------------------------------------------------------------------
(* The balances of a transfer *)

\* What the present render waits for: its callbacks are subscribed, and the
\* one whose balance is not the one shown has been called.  What any other
\* callback sets causes a render, and with it a callback for the present
\* recipient.
StartsInv ==
    LET sndr == [side |-> "sndr", addr |-> sndrAddr, start |-> sndrStart, crit |-> ""]
        rcpt == [side |-> "rcpt", addr |-> rcptAddr, start |-> rcptStart, crit |-> rcptAddrCrit]
    IN  /\ sndr \in subscribed
        /\ sndrStart # balances[sndrAddr] => sndr \in called
        /\ rcptAddr \in Accounts => rcpt \in subscribed
        /\ rcptAddr \in Accounts /\ (rcptStart # balances[rcptAddr] \/ rcptAddrCrit # "Ok") =>
              rcpt \in called
        /\ rcptAddr \notin Accounts /\ rcptAddrCrit # "Err" => rcpt \in called

\* A render asks for both balances.
LEMMA RenderAsks ==
    ASSUME NEW rest, Subscribe(rest), sndrAddr' \in Accounts
    PROVE  StartsInv'
  BY DEF Subscribe, ClosuresOf, StartsInv

\* What a closure of the form remembers is an account of the form.
LEMMA ClosuresAreTyped ==
    ASSUME NEW sndr \in Addresses, NEW rcpt \in Addresses, NEW m \in Balances, NEW n \in Balances,
           NEW crit \in {"", "Ok", "Err"}
    PROVE  ClosuresOf(sndr, rcpt, m, n, crit) \subseteq Closures
<1>1. [side |-> "sndr", addr |-> sndr, start |-> m, crit |-> ""] \in Closures
  BY DEF Closures
<1>2. [side |-> "rcpt", addr |-> rcpt, start |-> n, crit |-> crit] \in Closures
  BY DEF Closures
<1>3. QED
  BY <1>1, <1>2 DEF ClosuresOf

\* A render of the transfer form keeps the types.
LEMMA RenderTypes ==
    ASSUME StartsTypeOK, NEW rest \in SUBSET Closures, Subscribe(rest),
           balances' \in [Accounts -> Balances], sndrAddr' \in Senders, rcptAddr' \in Addresses,
           sndrStart' \in Balances, rcptStart' \in Balances, rcptAddrCrit' \in {"", "Ok", "Err"}
    PROVE  StartsTypeOK' /\ StartsInv'
<1>1. sndrAddr' \in Accounts /\ sndrAddr' \in Addresses
  BY AddressesAssumption DEF Addresses
<1>2. ClosuresOf(sndrAddr', rcptAddr', sndrStart', rcptStart', rcptAddrCrit') \subseteq Closures
  BY <1>1, ClosuresAreTyped
<1>3. subscribed' \subseteq Closures /\ called' \subseteq Closures
  BY <1>2 DEF Subscribe, StartsTypeOK
<1>4. QED
  BY <1>1, <1>3, RenderAsks DEF StartsTypeOK

\* The answer to one subscription keeps StartsInv.
LEMMA CalledKeeps ==
    ASSUME StartsTypeOK, StartsInv, NEW c \in called, Called(c)
    PROVE  StartsTypeOK' /\ StartsInv'
<1>1. c \in Closures /\ UNCHANGED <<balances, sndrAddr, rcptAddr>>
  BY DEF StartsTypeOK, Called
<1>2. sndrStart' \in Balances /\ rcptStart' \in Balances /\ rcptAddrCrit' \in {"", "Ok", "Err"}
  <2>1. c.addr \in Accounts => balances[c.addr] \in Balances
    BY DEF StartsTypeOK
  <2>2. QED
    BY <2>1 DEF Called, Set, StartsTypeOK
<1>3. CASE Subscribe(called \ {c})
  BY <1>1, <1>2, <1>3, RenderTypes DEF StartsTypeOK
<1>4. CASE /\ UNCHANGED <<sndrStart, rcptStart, rcptAddrCrit, subscribed>>
           /\ called' = called \ {c}
  <2>1. StartsTypeOK'
    BY <1>1, <1>4 DEF StartsTypeOK
  <2>2. ASSUME c = [side |-> "sndr", addr |-> sndrAddr, start |-> sndrStart, crit |-> ""]
        PROVE  sndrStart = balances[sndrAddr]
    <3>1. c.side = "sndr" /\ c.addr = sndrAddr /\ c.start = sndrStart /\ c.addr \in Accounts
      BY <2>2, AddressesAssumption DEF StartsTypeOK
    <3>2. QED
      BY <1>4, <3>1 DEF Called, Set
  <2>3. ASSUME c = [side |-> "rcpt", addr |-> rcptAddr, start |-> rcptStart, crit |-> rcptAddrCrit]
        PROVE  IF rcptAddr \in Accounts
               THEN rcptStart = balances[rcptAddr] /\ rcptAddrCrit = "Ok"
               ELSE rcptAddrCrit = "Err"
    <3>1. c.side = "rcpt" /\ c.addr = rcptAddr /\ c.start = rcptStart /\ c.crit = rcptAddrCrit
      BY <2>3
    <3>2. QED
      BY <1>4, <3>1 DEF Called, Set
  <2>4. sndrAddr \in Accounts
    BY AddressesAssumption DEF StartsTypeOK
  <2>5. QED
    BY <1>1, <1>4, <2>1, <2>2, <2>3, <2>4 DEF StartsInv
<1>5. QED
  BY <1>3, <1>4 DEF Called

\* StartsInv is inductive, with the types.
LEMMA StartsKeep ==
    ASSUME StartsTypeOK, StartsInv, StartsNext
    PROVE  StartsTypeOK' /\ StartsInv'
<1>1. ASSUME NEW addr \in Senders, SelectSender(addr) PROVE StartsTypeOK' /\ StartsInv'
  BY <1>1, RenderTypes DEF SelectSender, StartsTypeOK
<1>2. ASSUME NEW addr \in Recipients, TypeRcptAddr(addr) PROVE StartsTypeOK' /\ StartsInv'
  BY <1>2, RenderTypes DEF TypeRcptAddr, StartsTypeOK, Addresses
<1>3. ASSUME NEW account \in Accounts, NEW coins \in Balances, BalanceChanges(account, coins)
      PROVE  StartsTypeOK' /\ StartsInv'
  <2>1. StartsTypeOK'
    BY <1>3 DEF BalanceChanges, StartsTypeOK
  <2>2. \A a \in Accounts : a # account => balances'[a] = balances[a]
    BY <1>3 DEF BalanceChanges, StartsTypeOK
  <2>3. \A s \in subscribed : s.addr = account => s \in called'
    BY <1>3 DEF BalanceChanges
  <2>4. sndrAddr \in Accounts
    BY AddressesAssumption DEF StartsTypeOK
  <2>5. UNCHANGED <<sndrAddr, rcptAddr, sndrStart, rcptStart, rcptAddrCrit, subscribed>>
        /\ called \subseteq called'
    BY <1>3 DEF BalanceChanges
  <2>6. QED
    BY <2>1, <2>2, <2>3, <2>4, <2>5 DEF StartsInv
<1>4. QED
  BY <1>1, <1>2, <1>3, CalledKeeps DEF StartsNext

\* So both hold always.
LEMMA StartsHold == Spec => [](StartsTypeOK /\ StartsInv)
<1>1. Init => StartsTypeOK /\ StartsInv
  <2> SUFFICES ASSUME StartsInit PROVE StartsTypeOK /\ StartsInv
    BY DEF Init
  <2>1. FirstSender \in Addresses /\ Unset \in Addresses /\ 0 \in Balances /\ FirstSender \in Accounts
    BY AddressesAssumption DEF Addresses, Balances
  <2>2. ClosuresOf(FirstSender, Unset, 0, 0, "") \subseteq Closures
        /\ ClosuresOf(Unset, Unset, 0, 0, "") \subseteq Closures
    BY <2>1, ClosuresAreTyped
  <2>3. subscribed = ClosuresOf(FirstSender, Unset, 0, 0, "") \cup ClosuresOf(Unset, Unset, 0, 0, "")
    BY DEF StartsInit
  <2>4. StartsTypeOK
    BY <2>1, <2>2, <2>3, AddressesAssumption DEF StartsInit, StartsTypeOK
  <2>5. StartsInv
    BY <2>1, <2>3, AddressesAssumption DEF StartsInit, StartsInv, ClosuresOf
  <2>6. QED
    BY <2>4, <2>5
<1>2. StartsTypeOK /\ StartsInv /\ [Next]_vars => StartsTypeOK' /\ StartsInv'
  <2> SUFFICES ASSUME StartsTypeOK, StartsInv, [Next]_vars PROVE StartsTypeOK' /\ StartsInv'
    OBVIOUS
  <2>1. CASE UNCHANGED startsVars
    BY <2>1 DEF startsVars, StartsTypeOK, StartsInv
  <2>2. QED
    BY <2>1, StartsSteps, StartsKeep
<1>3. QED
  BY <1>1, <1>2, PTL DEF Spec

\* Once no callback is on its way the transfer form shows the balances of its
\* sender and its recipient, though former subscriptions are never ended.
THEOREM TransferSettles == Spec => []TransferSettled
<1>1. StartsTypeOK /\ StartsInv => TransferSettled
  BY DEF StartsInv, TransferSettled
<1>2. QED
  BY <1>1, StartsHold, PTL

-----------------------------------------------------------------------------
(* The modals of the democracy page *)

Transactions == [id : 1..MaxSubmitted, stage : TxStages, at : Buttons \cup {"gone"}]

\* What the modals report of their transactions is never "Sending" again.
LEMMA ReportsDoNotSend ==
    ASSUME NEW text \in TxStatuses \ {"Sending"}, NEW rest, NEW unsubAfter,
           SetStatus(text, rest, unsubAfter), modal # "vote"
    PROVE  modal' = modal /\ txStatus' # "Sending"
  BY DEF SetStatus, SetClose, Shown

\* What disables the button is inductive, given the types.
LEMMA ModalsKeep ==
    ASSUME ModalTypeOK, DisabledMeansSending, ModalNext
    PROVE  DisabledMeansSending'
<1>1. CASE Open
  BY <1>1 DEF Open, fieldVars, DisabledMeansSending
<1>2. CASE Cancel
  BY <1>2 DEF Cancel, SetClose, DisabledMeansSending
<1>3. ASSUME NEW text \in HexTexts \cup OddTexts, TypeHash(text)
      PROVE  DisabledMeansSending'
  BY <1>3 DEF TypeHash, Decoded, DisabledMeansSending
<1>4. ASSUME NEW file, Drop(file) \/ Load(file)
      PROVE  DisabledMeansSending'
  BY <1>4 DEF Drop, Load, DisabledMeansSending
<1>5. ASSUME NEW b \in ButtonsOf(modal), NEW id \in 1..MaxSubmitted, Submit(b, id)
      PROVE  DisabledMeansSending'
  <2>1. CASE modal = "vote"
    BY <1>5, <2>1 DEF Submit, DisabledMeansSending
  <2>2. CASE modal # "vote"
    <3>1. b = "submit"
      BY <2>2 DEF ButtonsOf
    <3>2. [id |-> id, stage |-> "Sent", at |-> b] \in txs'
      BY <1>5 DEF Submit
    <3>3. QED
      BY <3>1, <3>2 DEF DisabledMeansSending
  <2>3. QED
    BY <2>1, <2>2
<1>6. ASSUME NEW tx \in txs, TxThrows(tx)
      PROVE  DisabledMeansSending'
  BY <1>6 DEF TxThrows, fieldVars, DisabledMeansSending
<1>7. ASSUME NEW tx \in txs, TxWatched(tx)
      PROVE  DisabledMeansSending'
  <2>1. tx \in [id : 1..MaxSubmitted, stage : TxStages, at : Buttons \cup {"gone"}]
    BY DEF ModalTypeOK
  <2>2. [tx EXCEPT !.stage = "Watched"].stage = "Watched" /\ [tx EXCEPT !.stage = "Watched"].at = tx.at
    BY <2>1
  <2>3. QED
    BY <1>7, <2>2 DEF TxWatched, DisabledMeansSending
<1>8. ASSUME NEW text \in TxStatuses \ {"Sending"}, NEW rest, NEW unsubAfter,
             SetStatus(text, rest, unsubAfter)
      PROVE  DisabledMeansSending'
  <2>1. modal' = modal
    BY <1>8 DEF SetStatus
  <2>2. QED
    BY <1>8, <2>1, ReportsDoNotSend DEF DisabledMeansSending
<1>9. ASSUME NEW tx \in txs, TxReports(tx) \/ TxFails(tx)
      PROVE  DisabledMeansSending'
  <2>1. \E text \in TxStatuses \ {"Sending"} : \E rest, unsubAfter :
           SetStatus(text, rest, unsubAfter)
    <3>1. CASE TxFails(tx)
      BY <3>1 DEF TxFails, TxStatuses
    <3>2. CASE TxReports(tx)
      <4>1. NextStatus(tx.stage) \subseteq TxStatuses \ {"Sending"}
        <5>1. tx.stage \in TxStages
          BY DEF ModalTypeOK
        <5>2. QED
          BY <5>1 DEF NextStatus, TxStatuses, TxStages
      <4>2. QED
        BY <3>2, <4>1 DEF TxReports
    <3>3. QED
      BY <1>9, <3>1, <3>2
  <2>2. QED
    BY <1>8, <2>1
<1>10. QED
  BY <1>1, <1>2, <1>3, <1>4, <1>5, <1>6, <1>7, <1>9 DEF ModalNext, TxAnswered

\* A closed modal is typed.
LEMMA ClosingTypes ==
    ASSUME ModalTypeOK, NEW ts \in SUBSET Transactions, SetClose(ts),
           modal' = modal, reading' = reading, preimageHashBytes' = preimageHashBytes
    PROVE  ModalTypeOK'
<1>1. Unwatched(ts) \subseteq Transactions
  BY DEF Unwatched, Transactions
<1>2. [b \in Buttons |-> 0] \in [Buttons -> 0..MaxSubmitted]
  BY SubmittedAssumption
<1>3. QED
  BY <1>1, <1>2, HexAssumption DEF SetClose, ModalTypeOK, Transactions, TxStatuses

\* What the button reports is a status of the modals.
LEMMA StatusTypes ==
    ASSUME ModalTypeOK, NEW text \in TxStatuses, NEW rest \in SUBSET Transactions,
           NEW unsubAfter \in [Buttons -> 0..MaxSubmitted], SetStatus(text, rest, unsubAfter)
    PROVE  ModalTypeOK'
<1>1. CASE Closes(text)
  BY <1>1, ClosingTypes DEF SetStatus
<1>2. CASE ~Closes(text)
  BY <1>2 DEF SetStatus, Shown, ModalTypeOK, Transactions
<1>3. QED
  BY <1>1, <1>2

\* The steps of the modals keep their types.
LEMMA ModalTypesKeep ==
    ASSUME ModalTypeOK, ModalNext
    PROVE  ModalTypeOK'
<1>1. CASE Open
  BY <1>1 DEF Open, fieldVars, ModalTypeOK
<1>2. CASE Cancel
  BY <1>2, ClosingTypes DEF Cancel, ModalTypeOK, Transactions
<1>3. ASSUME NEW text \in HexTexts \cup OddTexts, TypeHash(text)
      PROVE  ModalTypeOK'
  BY <1>3 DEF TypeHash, Decoded, ModalTypeOK
<1>4. ASSUME NEW file \in Files, Drop(file) \/ Load(file)
      PROVE  ModalTypeOK'
  BY <1>4 DEF Drop, Load, ModalTypeOK
<1>5. ASSUME NEW b \in ButtonsOf(modal), NEW id \in 1..MaxSubmitted, Submit(b, id)
      PROVE  ModalTypeOK'
  <2>1. b \in Buttons /\ [id |-> id, stage |-> "Sent", at |-> b] \in Transactions
    BY DEF ButtonsOf, Buttons, Transactions, TxStages
  <2>2. txs' \subseteq Transactions
    BY <1>5, <2>1 DEF Submit, ModalTypeOK, Transactions
  <2>3. txUnsub' \in [Buttons -> 0..MaxSubmitted]
    BY <1>5, <2>1, SubmittedAssumption DEF Submit, ModalTypeOK
  <2>4. QED
    BY <1>5, <2>2, <2>3 DEF Submit, fieldVars, ModalTypeOK, Transactions, TxStatuses
<1>6. ASSUME NEW tx \in txs, TxThrows(tx) \/ TxWatched(tx) \/ TxReports(tx) \/ TxFails(tx)
      PROVE  ModalTypeOK'
  <2>1. tx \in Transactions /\ txs \subseteq Transactions
    BY DEF ModalTypeOK, Transactions
  <2>2. \A stage \in TxStages : [tx EXCEPT !.stage = stage] \in Transactions
    BY <2>1 DEF Transactions
  <2>3. \A id \in {0, tx.id} : UnsubAfter(tx, id) \in [Buttons -> 0..MaxSubmitted]
    BY <2>1, SubmittedAssumption DEF UnsubAfter, Transactions, ModalTypeOK
  <2>4. CASE TxThrows(tx)
    BY <2>4 DEF TxThrows, fieldVars, ModalTypeOK
  <2>5. CASE TxWatched(tx)
    <3>1. txs' \subseteq Transactions
      BY <2>1, <2>2, <2>5 DEF TxWatched, TxStages
    <3>2. QED
      BY <2>3, <2>5, <3>1 DEF TxWatched, fieldVars, ModalTypeOK, Transactions
  <2>6. CASE TxReports(tx)
    <3>1. PICK text \in NextStatus(tx.stage) :
             SetStatus(text, (txs \ {tx})
                 \cup {[tx EXCEPT !.stage = text] : s \in {text} \ {"Finalized"}}, txUnsub)
      BY <2>6 DEF TxReports
    <3>2. text \in {"Future", "Ready", "InBlock", "Finalized"}
      BY <2>1 DEF Transactions, TxStages, NextStatus
    <3>3. (txs \ {tx}) \cup {[tx EXCEPT !.stage = text] : s \in {text} \ {"Finalized"}}
             \in SUBSET Transactions
      BY <2>1, <2>2, <3>2 DEF TxStages
    <3>4. txUnsub \in [Buttons -> 0..MaxSubmitted]
      BY DEF ModalTypeOK
    <3>5. QED
      BY <3>1, <3>2, <3>3, <3>4, StatusTypes DEF TxStatuses
  <2>7. CASE TxFails(tx)
    BY <2>1, <2>3, <2>7, StatusTypes DEF TxFails, TxStatuses
  <2>8. QED
    BY <1>6, <2>4, <2>5, <2>6, <2>7
<1>7. reading \subseteq Files
  BY DEF ModalTypeOK
<1>8. QED
  BY <1>1, <1>2, <1>3, <1>4, <1>5, <1>6, <1>7 DEF ModalNext, TxAnswered

\* So the modals keep both.
LEMMA ModalsHold == Spec => [](ModalTypeOK /\ DisabledMeansSending)
<1> DEFINE Inv == ModalTypeOK /\ DisabledMeansSending
<1>1. Init => Inv
  <2>1. [b \in Buttons |-> 0] \in [Buttons -> 0..MaxSubmitted]
    BY SubmittedAssumption
  <2>2. QED
    BY <2>1, HexAssumption
       DEF Init, ModalInit, ModalTypeOK, TxStatuses, DisabledMeansSending
<1>2. Inv /\ [Next]_vars => Inv'
  <2> SUFFICES ASSUME Inv, [Next]_vars PROVE Inv'
    OBVIOUS
  <2>1. CASE UNCHANGED modalVars
    BY <2>1 DEF modalVars, fieldVars, ModalTypeOK, DisabledMeansSending
  <2>2. QED
    BY <2>1, ModalSteps, ModalsKeep, ModalTypesKeep
<1>3. QED
  BY <1>1, <1>2, PTL DEF Spec

\* The submit button of a modal is disabled only while its transaction has
\* reported nothing, or after a click that came to nothing.
THEOREM DisabledButtonsSend == Spec => []DisabledMeansSending
  BY ModalsHold, PTL

-----------------------------------------------------------------------------
(* The buttons *)

CallRecords == [type : ButtonTypes, stage : CallStages, at : Instances \cup {"gone"}]
NotOver(b) == {id \in CallsAt(b) : calls[id].stage # "over"}

\* How many calls of a button can still end only with the button: each early
\* click leaves at most one, as unsub is of one.  While none is on its way,
\* all but the one that unsub ends have been left by early clicks.
FewStand ==
    \A b \in Instances :
        /\ Cardinality(NotOver(b)) <= early[b] + 1
        /\ UnderWay(b) = {} /\ unsub[b] # Promise =>
              Cardinality(Live(b) \ {unsub[b]}) <= early[b]

\* Without an early click only the call of the last click stands.
LastStands ==
    \A b \in Instances :
        early[b] = 0 => \A id \in NotOver(b), later \in CallsAt(b) : later <= id

\* Of the buttons only the one of sudo makes calls that leave a promise, and
\* such a call leaves it when it is sent.
PromisesKept ==
    \A id \in 1..clicks :
        /\ calls[id].at \in Instances =>
              (calls[id].type \in SudoTypes <=> calls[id].at = "SUDO-TX")
        /\ calls[id].at = "SUDO-TX" /\ calls[id].stage = "sent" => unsub["SUDO-TX"] = Promise

TypesOfInstances ==
    \A b \in DOMAIN type : b \in Instances /\ (type[b] \in SudoTypes <=> b = "SUDO-TX")

\* The status is about the last click, unless several buttons were clicked.
AboutLast ==
    \A b \in Instances :
        early[b] = 0 /\ CallsAt(b) = 1..clicks => status.about = clicks

ButtonInv == FewStand /\ LastStands /\ PromisesKept /\ TypesOfInstances /\ AboutLast

\* What the types say of the sets of calls of a button.
LEMMA SetsOfCalls ==
    ASSUME ButtonTypeOK, NEW b \in Instances
    PROVE  /\ CallsAt(b) \subseteq 1..clicks /\ IsFiniteSet(CallsAt(b))
           /\ IsFiniteSet(NotOver(b)) /\ IsFiniteSet(Live(b))
           /\ NotOver(b) \subseteq CallsAt(b) /\ NotOver(b) = Live(b) \cup UnderWay(b)
           /\ Cardinality(NotOver(b)) \in Nat /\ Cardinality(Live(b)) \in Nat
           /\ clicks \in Nat /\ early[b] \in Nat /\ early[b] <= clicks
<1>1. clicks \in Nat /\ early[b] \in 0..clicks
  BY MaxClicksAssumption DEF ButtonTypeOK
<1>2. IsFiniteSet(1..clicks)
  BY <1>1, FS_Interval
<1>3. CallsAt(b) \in SUBSET (1..clicks) /\ NotOver(b) \in SUBSET (1..clicks)
      /\ Live(b) \in SUBSET (1..clicks)
  BY DEF CallsAt, NotOver, Live
<1>4. IsFiniteSet(CallsAt(b)) /\ IsFiniteSet(NotOver(b)) /\ IsFiniteSet(Live(b))
  BY <1>2, <1>3, FS_Subset
<1>5. Cardinality(NotOver(b)) \in Nat /\ Cardinality(Live(b)) \in Nat
  BY <1>4, FS_CardinalityType
<1>6. \A id \in 1..clicks : calls[id].stage \in CallStages
  BY DEF ButtonTypeOK
<1>7. NotOver(b) = Live(b) \cup UnderWay(b)
  BY <1>3, <1>6 DEF NotOver, Live, UnderWay, CallStages, CallsAt
<1>8. NotOver(b) \subseteq CallsAt(b)
  BY DEF NotOver
<1>9. QED
  BY <1>1, <1>3, <1>4, <1>5, <1>7, <1>8

\* Less than a finite set with one element taken out has one element less.
LEMMA OneLess ==
    ASSUME NEW S, IsFiniteSet(S), NEW x \in S, NEW T \in SUBSET (S \ {x}), NEW n \in Nat,
           Cardinality(S) <= n + 1
    PROVE  IsFiniteSet(T) /\ Cardinality(T) \in Nat /\ Cardinality(T) <= n
<1> DEFINE R == S \ {x}
<1>1. IsFiniteSet(R) /\ Cardinality(R) = Cardinality(S) - 1 /\ Cardinality(S) \in Nat
  BY FS_RemoveElement, FS_CardinalityType
<1> HIDE DEF R
<1>2. T \in SUBSET R
  BY DEF R
<1>3. IsFiniteSet(T) /\ Cardinality(T) <= Cardinality(R)
  BY <1>1, <1>2, FS_Subset
<1>4. Cardinality(T) \in Nat
  BY <1>3, FS_CardinalityType
<1>5. QED
  BY <1>1, <1>3, <1>4

\* A call proceeds to another stage.
LEMMA Proceeding ==
    ASSUME ButtonTypeOK, NEW id \in 1..clicks, NEW stage \in CallStages, Proceed(id, stage)
    PROVE  /\ calls' \in [1..clicks -> CallRecords]
           /\ \A i \in 1..clicks : calls'[i].type = calls[i].type /\ calls'[i].at = calls[i].at
           /\ \A i \in 1..clicks : i # id => calls'[i].stage = calls[i].stage
           /\ calls'[id].stage = stage
<1>1. calls \in [1..clicks -> CallRecords]
  BY DEF ButtonTypeOK, CallRecords
<1>2. \A c \in CallRecords : /\ [c EXCEPT !.stage = stage] \in CallRecords
                             /\ [c EXCEPT !.stage = stage].type = c.type
                             /\ [c EXCEPT !.stage = stage].at = c.at
                             /\ [c EXCEPT !.stage = stage].stage = stage
  BY DEF CallRecords
<1>3. calls' = [calls EXCEPT ![id] = [calls[id] EXCEPT !.stage = stage]]
  BY DEF Proceed
<1>4. QED
  BY <1>1, <1>2, <1>3

\* setUnsub writes the unsub of the button of the call only.
LEMMA UnsubSet ==
    ASSUME ButtonTypeOK, NEW id \in 1..clicks, NEW value \in 0..Promise, SetUnsub(id, value)
    PROVE  /\ unsub' \in [Instances -> 0..Promise]
           /\ \A b \in Instances : unsub'[b] = IF b = calls[id].at THEN value ELSE unsub[b]
  BY DEF SetUnsub, ButtonTypeOK

\* What a handler may leave of unsub: the number of calls that stand apart
\* from the one it ends grows for no button.
StandsApart(b) ==
    UnderWay(b)' = {} /\ unsub'[b] # Promise =>
        \/ /\ UnderWay(b) = {} /\ unsub[b] # Promise
           /\ Live(b)' \ {unsub'[b]} \subseteq Live(b) \ {unsub[b]}
        \/ \E x \in NotOver(b) : Live(b)' \ {unsub'[b]} \subseteq NotOver(b) \ {x}

\* So the bounds on what stands are kept, at a button none is started at.
LEMMA FewStandKept ==
    ASSUME ButtonTypeOK, FewStand, NEW b \in Instances, Promise' = Promise,
           early'[b] = early[b], NotOver(b)' \subseteq NotOver(b), StandsApart(b)
    PROVE  /\ Cardinality(NotOver(b)') <= early'[b] + 1
           /\ UnderWay(b)' = {} /\ unsub'[b] # Promise =>
                 Cardinality(Live(b)' \ {unsub'[b]}) <= early'[b]
<1>1. /\ IsFiniteSet(NotOver(b)) /\ IsFiniteSet(Live(b)) /\ early[b] \in Nat
      /\ Cardinality(NotOver(b)) \in Nat
  BY SetsOfCalls
<1>2. Cardinality(NotOver(b)) <= early[b] + 1
  BY DEF FewStand
<1>3. Cardinality(NotOver(b)') <= early[b] + 1
  <2> DEFINE T == NotOver(b)'
  <2>1. T \in SUBSET NotOver(b)
    OBVIOUS
  <2> HIDE DEF T
  <2>2. IsFiniteSet(T) /\ Cardinality(T) <= Cardinality(NotOver(b))
    BY <1>1, <2>1, FS_Subset
  <2>3. Cardinality(T) \in Nat
    BY <2>2, FS_CardinalityType
  <2>4. QED
    BY <1>1, <1>2, <2>2, <2>3 DEF T
<1>4. ASSUME UnderWay(b)' = {}, unsub'[b] # Promise
      PROVE  Cardinality(Live(b)' \ {unsub'[b]}) <= early[b]
  <2> DEFINE T == Live(b)' \ {unsub'[b]}
             R == Live(b) \ {unsub[b]}
  <2>1. CASE UnderWay(b) = {} /\ unsub[b] # Promise /\ T \subseteq R
    <3>1. Cardinality(R) <= early[b]
      BY <2>1 DEF FewStand
    <3>2. R \in SUBSET Live(b) /\ T \in SUBSET R
      BY <2>1
    <3> HIDE DEF T, R
    <3>3. IsFiniteSet(R)
      BY <1>1, <3>2, FS_Subset
    <3>4. IsFiniteSet(T) /\ Cardinality(T) <= Cardinality(R)
      BY <3>2, <3>3, FS_Subset
    <3>5. Cardinality(T) \in Nat /\ Cardinality(R) \in Nat
      BY <3>3, <3>4, FS_CardinalityType
    <3>6. Cardinality(T) <= early[b]
      BY <1>1, <3>1, <3>4, <3>5
    <3>7. QED
      BY <3>6 DEF T
  <2>2. CASE \E x \in NotOver(b) : T \subseteq NotOver(b) \ {x}
    <3>1. PICK x \in NotOver(b) : T \subseteq NotOver(b) \ {x}
      BY <2>2
    <3> HIDE DEF T
    <3>2. T \in SUBSET (NotOver(b) \ {x})
      BY <3>1
    <3>3. Cardinality(T) <= early[b]
      BY <1>1, <1>2, <3>2, OneLess
    <3>4. QED
      BY <3>3 DEF T
  <2>3. QED
    BY <1>4, <2>1, <2>2 DEF StandsApart
<1>5. QED
  BY <1>3, <1>4

\* A handler of a call that is not over keeps the types and the invariant.
LEMMA HandlerKeeps ==
    ASSUME ButtonTypeOK, ButtonInv, NEW id \in 1..clicks, NEW stage \in CallStages,
           Proceed(id, stage), calls[id].stage # "over",
           UNCHANGED <<type, accountPair, clicks, early>>,
           status' = status \/ (\E text \in StatusTexts : status' = Showing(text, id)),
           unsub' \in [Instances -> 0..Promise],
           calls[id].at = "SUDO-TX" => (stage = "sent" => unsub'["SUDO-TX"] = Promise),
           unsub["SUDO-TX"] = Promise => unsub'["SUDO-TX"] = Promise,
           \A b \in Instances : StandsApart(b)
    PROVE  ButtonTypeOK' /\ ButtonInv'
<1>1. /\ calls' \in [1..clicks -> CallRecords]
      /\ \A i \in 1..clicks : calls'[i].type = calls[i].type /\ calls'[i].at = calls[i].at
      /\ \A i \in 1..clicks : i # id => calls'[i].stage = calls[i].stage
      /\ calls'[id].stage = stage
  BY Proceeding
<1>2. Promise' = Promise /\ clicks \in Nat /\ id \in 0..clicks
  BY MaxClicksAssumption DEF Promise, ButtonTypeOK
<1>3. status' \in [text : StatusTexts, about : 0..clicks]
  BY <1>2 DEF ButtonTypeOK, Showing
<1>4. ButtonTypeOK'
  BY <1>1, <1>2, <1>3 DEF ButtonTypeOK, CallRecords
<1>5. \A b \in Instances : CallsAt(b)' = CallsAt(b)
  BY <1>1 DEF CallsAt
<1>6. \A b \in Instances : NotOver(b)' \subseteq NotOver(b)
  <2> SUFFICES ASSUME NEW b \in Instances, NEW i \in NotOver(b)' PROVE i \in NotOver(b)
    OBVIOUS
  <2>1. i \in CallsAt(b) /\ calls'[i].stage # "over"
    BY <1>5 DEF NotOver
  <2>2. i \in 1..clicks
    BY <2>1 DEF CallsAt
  <2>3. calls[i].stage # "over"
    BY <1>1, <2>1, <2>2
  <2>4. QED
    BY <2>1, <2>3 DEF NotOver
<1>7. FewStand'
  <2> SUFFICES ASSUME NEW b \in Instances
               PROVE  /\ Cardinality(NotOver(b)') <= early'[b] + 1
                      /\ UnderWay(b)' = {} /\ unsub'[b] # Promise =>
                            Cardinality(Live(b)' \ {unsub'[b]}) <= early'[b]
    BY <1>2 DEF FewStand
  <2>1. FewStand
    BY DEF ButtonInv
  <2>2. QED
    BY <1>2, <1>6, <2>1, FewStandKept
<1>8. LastStands'
  BY <1>5, <1>6 DEF ButtonInv, LastStands
<1>9. PromisesKept'
  <2> SUFFICES ASSUME NEW i \in 1..clicks
               PROVE  /\ calls'[i].at \in Instances =>
                            (calls'[i].type \in SudoTypes <=> calls'[i].at = "SUDO-TX")
                      /\ calls'[i].at = "SUDO-TX" /\ calls'[i].stage = "sent" =>
                            unsub'["SUDO-TX"] = Promise
    BY <1>2 DEF PromisesKept
  <2>1. /\ calls[i].at \in Instances => (calls[i].type \in SudoTypes <=> calls[i].at = "SUDO-TX")
        /\ calls[i].at = "SUDO-TX" /\ calls[i].stage = "sent" => unsub["SUDO-TX"] = Promise
    BY DEF ButtonInv, PromisesKept
  <2>2. CASE i = id
    BY <1>1, <2>1, <2>2
  <2>3. CASE i # id
    BY <1>1, <2>1, <2>3
  <2>4. QED
    BY <2>2, <2>3
<1>10. TypesOfInstances'
  BY DEF ButtonInv, TypesOfInstances
<1>11. AboutLast'
  <2> SUFFICES ASSUME NEW b \in Instances, early[b] = 0, CallsAt(b) = 1..clicks
               PROVE  status'.about = clicks
    BY <1>5 DEF AboutLast
  <2>1. status.about = clicks
    BY DEF ButtonInv, AboutLast
  <2>2. id \in NotOver(b)
    BY DEF NotOver
  <2>3. clicks \in CallsAt(b)
    BY <1>2
  <2>4. clicks <= id
    BY <2>2, <2>3 DEF ButtonInv, LastStands
  <2>5. id = clicks
    BY <1>2, <2>4
  <2>6. QED
    BY <2>1, <2>5 DEF Showing
<1>12. QED
  BY <1>4, <1>7, <1>8, <1>9, <1>10, <1>11 DEF ButtonInv

\* A click on a button keeps the types.
LEMMA ClickTypes ==
    ASSUME ButtonTypeOK, ButtonInv, NEW b \in DOMAIN type, NEW stage \in CallStages,
           Click(b, stage)
    PROVE  /\ ButtonTypeOK'
           /\ b \in Instances /\ clicks \in Nat /\ clicks' = clicks + 1 /\ Promise' = Promise
           /\ calls' \in [1..clicks' -> CallRecords]
           /\ \A i \in 1..clicks :
                 /\ calls'[i].type = calls[i].type /\ calls'[i].at = calls[i].at
                 /\ calls'[i].stage = IF i = unsub[b] THEN "over" ELSE calls[i].stage
           /\ calls'[clicks'] = [type |-> type[b], stage |-> stage, at |-> b]
           /\ stage # "live"
<1>1. clicks \in Nat /\ clicks < MaxClicks /\ clicks' = clicks + 1 /\ clicks' \in 0..MaxClicks
  BY MaxClicksAssumption DEF ButtonTypeOK, Click
<1>2. b \in Instances /\ Promise' = Promise
  BY DEF ButtonInv, TypesOfInstances, Promise
<1>3. calls \in [1..clicks -> CallRecords] /\ unsub[b] \in 0..Promise
  BY <1>2 DEF ButtonTypeOK, CallRecords
<1>4. Call(b, stage) \in CallRecords
  <2>1. type[b] \in ButtonTypes
    BY DEF ButtonTypeOK
  <2>2. QED
    BY <1>2, <2>1 DEF Call, CallRecords
<1>5. /\ Ended(unsub[b]) \in [1..clicks -> CallRecords]
      /\ \A i \in 1..clicks :
            /\ Ended(unsub[b])[i].type = calls[i].type /\ Ended(unsub[b])[i].at = calls[i].at
            /\ Ended(unsub[b])[i].stage = IF i = unsub[b] THEN "over" ELSE calls[i].stage
  <2>1. CASE unsub[b] \notin 1..clicks
    BY <1>3, <2>1 DEF Ended
  <2>2. CASE unsub[b] \in 1..clicks
    <3>1. Ended(unsub[b]) = [calls EXCEPT ![unsub[b]] = [calls[unsub[b]] EXCEPT !.stage = "over"]]
      BY <1>3, <2>2 DEF Ended
    <3>2. \A c \in CallRecords : /\ [c EXCEPT !.stage = "over"] \in CallRecords
                                 /\ [c EXCEPT !.stage = "over"].type = c.type
                                 /\ [c EXCEPT !.stage = "over"].at = c.at
                                 /\ [c EXCEPT !.stage = "over"].stage = "over"
      BY DEF CallRecords, CallStages
    <3>3. QED
      BY <1>3, <2>2, <3>1, <3>2
  <2>3. QED
    BY <2>1, <2>2
<1>6. /\ calls' \in [1..clicks' -> CallRecords]
      /\ \A i \in 1..clicks : calls'[i] = Ended(unsub[b])[i]
      /\ calls'[clicks'] = Call(b, stage)
  BY <1>1, <1>4, <1>5 DEF Click
<1>7. unsub' \in [Instances -> 0..Promise]
  <2>1. SentUnsub(type[b], 0) \in 0..Promise /\ 0 \in 0..Promise
    BY MaxClicksAssumption DEF SentUnsub, Promise
  <2>2. unsub' = [unsub EXCEPT ![b] = IF stage = "sent" THEN SentUnsub(type[b], 0) ELSE 0]
    BY DEF Click
  <2>3. QED
    BY <2>1, <2>2 DEF ButtonTypeOK
<1>8. early' \in [Instances -> 0..clicks']
  <2>1. early \in [Instances -> 0..clicks]
    BY DEF ButtonTypeOK
  <2>2. \A n \in 0..clicks : n \in 0..clicks' /\ n + 1 \in 0..clicks'
    BY <1>1
  <2>3. early' = early \/ early' = [early EXCEPT ![b] = early[b] + 1]
    BY DEF Click
  <2>4. QED
    BY <1>2, <2>1, <2>2, <2>3
<1>9. status' \in [text : StatusTexts, about : 0..clicks']
  <2>1. clicks' \in 0..clicks' /\ "Reported" \in StatusTexts /\ "Sending" \in StatusTexts
    BY <1>1 DEF StatusTexts
  <2>2. QED
    BY <2>1 DEF Click, Showing
<1>10. type' = type /\ accountPair' = accountPair
  BY DEF Click
<1>11. ButtonTypeOK'
  BY <1>1, <1>2, <1>6, <1>7, <1>8, <1>9, <1>10 DEF ButtonTypeOK, CallRecords
<1>12. stage # "live"
  BY DEF Click, FirstStages
<1>13. QED
  BY <1>1, <1>2, <1>5, <1>6, <1>11, <1>12 DEF Call

\* A click ends what it can of its button, and adds one call to it.
LEMMA ClickKeeps ==
    ASSUME ButtonTypeOK, ButtonInv, NEW b \in DOMAIN type, NEW stage \in CallStages,
           Click(b, stage)
    PROVE  ButtonTypeOK' /\ ButtonInv'
<1>1. /\ ButtonTypeOK'
      /\ b \in Instances /\ clicks \in Nat /\ clicks' = clicks + 1 /\ Promise' = Promise
      /\ calls' \in [1..clicks' -> CallRecords]
      /\ \A i \in 1..clicks :
            /\ calls'[i].type = calls[i].type /\ calls'[i].at = calls[i].at
            /\ calls'[i].stage = IF i = unsub[b] THEN "over" ELSE calls[i].stage
      /\ calls'[clicks'] = [type |-> type[b], stage |-> stage, at |-> b]
      /\ stage # "live"
  BY ClickTypes
<1>2. /\ unsub[b] # Promise
      /\ unsub' = [unsub EXCEPT ![b] = IF stage = "sent" THEN SentUnsub(type[b], 0) ELSE 0]
      /\ early' = IF UnderWay(b) = {} THEN early ELSE [early EXCEPT ![b] = early[b] + 1]
      /\ type' = type /\ status'.about = clicks'
  BY DEF Click, Showing
<1>3. 1..clicks' = (1..clicks) \cup {clicks'} /\ clicks' \notin 1..clicks
  BY <1>1
<1>4. /\ unsub \in [Instances -> 0..Promise] /\ early \in [Instances -> 0..clicks]
      /\ \A c \in Instances : c # b => unsub'[c] = unsub[c] /\ early'[c] = early[c]
  BY <1>1, <1>2 DEF ButtonTypeOK
<1>5. /\ CallsAt(b)' = CallsAt(b) \cup {clicks'}
      /\ \A c \in Instances \ {b} : CallsAt(c)' = CallsAt(c)
  BY <1>1, <1>3 DEF CallsAt
<1>6. /\ NotOver(b)' \subseteq (NotOver(b) \ {unsub[b]}) \cup {clicks'}
      /\ \A c \in Instances \ {b} : NotOver(c)' \subseteq NotOver(c)
  BY <1>1, <1>5 DEF NotOver, CallsAt
<1>7. \A c \in Instances : /\ Live(c)' \subseteq NotOver(c) \ {unsub[b]}
                           /\ Live(c)' \subseteq Live(c)
                           /\ UnderWay(c) \ {unsub[b]} \subseteq UnderWay(c)'
  BY <1>1, <1>3, <1>5 DEF NotOver, CallsAt, Live, UnderWay
<1>8. ASSUME NEW c \in Instances \ {b}
      PROVE  /\ Cardinality(NotOver(c)') <= early'[c] + 1
             /\ UnderWay(c)' = {} /\ unsub'[c] # Promise =>
                   Cardinality(Live(c)' \ {unsub'[c]}) <= early'[c]
  <2>1. StandsApart(c)
    <3> SUFFICES ASSUME UnderWay(c)' = {}, unsub'[c] # Promise
                 PROVE  \/ /\ UnderWay(c) = {} /\ unsub[c] # Promise
                           /\ Live(c)' \ {unsub'[c]} \subseteq Live(c) \ {unsub[c]}
                        \/ \E x \in NotOver(c) : Live(c)' \ {unsub'[c]} \subseteq NotOver(c) \ {x}
      BY DEF StandsApart
    <3>1. CASE UnderWay(c) = {}
      BY <1>4, <1>7, <3>1
    <3>2. CASE UnderWay(c) # {}
      <4>1. unsub[b] \in UnderWay(c)
        BY <1>7, <3>2
      <4>2. unsub[b] \in NotOver(c)
        BY <4>1, SetsOfCalls
      <4>3. QED
        BY <1>7, <4>2
    <3>3. QED
      BY <3>1, <3>2
  <2>2. QED
    BY <1>1, <1>4, <1>6, <2>1, FewStandKept DEF ButtonInv
<1>9. /\ IsFiniteSet(NotOver(b)) /\ IsFiniteSet(Live(b)) /\ early[b] \in Nat
      /\ NotOver(b) = Live(b) \cup UnderWay(b)
      /\ Cardinality(NotOver(b)) \in Nat /\ Cardinality(NotOver(b)) <= early[b] + 1
      /\ UnderWay(b) = {} => Cardinality(Live(b) \ {unsub[b]}) <= early[b]
  BY <1>1, <1>2, SetsOfCalls DEF ButtonInv, FewStand
<1>10. Cardinality(NotOver(b)') <= early'[b] + 1
  <2> DEFINE T == NotOver(b)'
             R == NotOver(b) \ {unsub[b]}
             n == early'[b]
  <2>1. R \in SUBSET NotOver(b)
    OBVIOUS
  <2>2. n \in Nat /\ Cardinality(R) <= n
    <3>1. CASE UnderWay(b) = {}
      BY <1>2, <1>9, <3>1
    <3>2. CASE UnderWay(b) # {}
      <4>1. n = early[b] + 1
        BY <1>1, <1>2, <1>4, <3>2
      <4> HIDE DEF n, R
      <4>2. Cardinality(R) <= Cardinality(NotOver(b)) /\ IsFiniteSet(R)
        BY <1>9, <2>1, FS_Subset
      <4>3. Cardinality(R) \in Nat
        BY <4>2, FS_CardinalityType
      <4>4. QED
        BY <1>9, <4>1, <4>2, <4>3
    <3>3. QED
      BY <3>1, <3>2
  <2>3. T \in SUBSET (R \cup {clicks'})
    BY <1>6
  <2> HIDE DEF n, R, T
  <2>4. IsFiniteSet(R) /\ Cardinality(R) \in Nat
    BY <1>9, <2>1, FS_Subset, FS_CardinalityType
  <2>5. /\ IsFiniteSet(R \cup {clicks'})
        /\ Cardinality(R \cup {clicks'}) \in {Cardinality(R), Cardinality(R) + 1}
    BY <2>4, FS_AddElement
  <2>6. IsFiniteSet(T) /\ Cardinality(T) <= Cardinality(R \cup {clicks'})
    BY <2>3, <2>5, FS_Subset
  <2>7. Cardinality(T) \in Nat
    BY <2>6, FS_CardinalityType
  <2>8. Cardinality(T) <= n + 1
    BY <2>2, <2>4, <2>5, <2>6, <2>7
  <2>9. QED
    BY <2>8 DEF T, n
<1>11. ASSUME UnderWay(b)' = {}
       PROVE  Cardinality(Live(b)' \ {unsub'[b]}) <= early'[b]
  <2> DEFINE T == Live(b)' \ {unsub'[b]}
  <2>1. CASE UnderWay(b) = {}
    <3> DEFINE R == Live(b) \ {unsub[b]}
    <3>1. T \in SUBSET R /\ R \in SUBSET Live(b)
      BY <1>1, <1>7, <1>9
    <3>2. Cardinality(R) <= early[b] /\ early'[b] = early[b]
      BY <1>2, <1>9, <2>1
    <3> HIDE DEF T, R
    <3>3. IsFiniteSet(R) /\ Cardinality(R) \in Nat
      BY <1>9, <3>1, FS_Subset, FS_CardinalityType
    <3>4. IsFiniteSet(T) /\ Cardinality(T) <= Cardinality(R)
      BY <3>1, <3>3, FS_Subset
    <3>5. Cardinality(T) \in Nat
      BY <3>4, FS_CardinalityType
    <3>6. Cardinality(T) <= early'[b]
      BY <1>9, <3>2, <3>3, <3>4, <3>5
    <3>7. QED
      BY <3>6 DEF T
  <2>2. CASE UnderWay(b) # {}
    <3>1. unsub[b] \in UnderWay(b) /\ UnderWay(b) \subseteq NotOver(b)
      BY <1>1, <1>7, <1>9, <1>11, <2>2
    <3>2. T \in SUBSET (NotOver(b) \ {unsub[b]})
      BY <1>1, <1>7
    <3> HIDE DEF T
    <3>3. Cardinality(T) \in Nat /\ Cardinality(T) <= early[b]
      BY <1>9, <3>1, <3>2, OneLess
    <3>4. early'[b] = early[b] + 1
      BY <1>1, <1>2, <1>4, <2>2
    <3>5. Cardinality(T) <= early'[b]
      BY <1>9, <3>3, <3>4
    <3>6. QED
      BY <3>5 DEF T
  <2>3. QED
    BY <2>1, <2>2
<1>12. FewStand'
  BY <1>8, <1>10, <1>11 DEF FewStand
<1>13. LastStands'
  <2> SUFFICES ASSUME NEW c \in Instances, early'[c] = 0, NEW id \in NotOver(c)',
                      NEW later \in CallsAt(c)'
               PROVE  later <= id
    BY DEF LastStands
  <2>1. CASE c # b
    <3>1. early[c] = 0 /\ id \in NotOver(c) /\ later \in CallsAt(c)
      BY <1>4, <1>5, <1>6, <2>1
    <3>2. QED
      BY <3>1 DEF ButtonInv, LastStands
  <2>2. CASE c = b
    <3>1. UnderWay(b) = {} /\ early[b] = 0
      BY <1>1, <1>2, <1>4, <1>9, <2>2
    <3> DEFINE R == Live(b) \ {unsub[b]}
    <3>2. Cardinality(R) <= 0 /\ R \in SUBSET Live(b) /\ R = NotOver(b) \ {unsub[b]}
      BY <1>9, <3>1
    <3> HIDE DEF R
    <3>3. IsFiniteSet(R) /\ Cardinality(R) \in Nat
      BY <1>9, <3>2, FS_Subset, FS_CardinalityType
    <3>4. R = {}
      BY <3>2, <3>3, FS_EmptySet
    <3>5. id = clicks'
      BY <1>6, <2>2, <3>2, <3>4
    <3>6. later \in 1..clicks'
      BY DEF CallsAt
    <3>7. QED
      BY <1>1, <3>5, <3>6
  <2>3. QED
    BY <2>1, <2>2
<1>14. PromisesKept'
  <2> SUFFICES ASSUME NEW i \in 1..clicks'
               PROVE  /\ calls'[i].at \in Instances =>
                            (calls'[i].type \in SudoTypes <=> calls'[i].at = "SUDO-TX")
                      /\ calls'[i].at = "SUDO-TX" /\ calls'[i].stage = "sent" =>
                            unsub'["SUDO-TX"] = Promise
    BY <1>1 DEF PromisesKept
  <2>1. type[b] \in SudoTypes <=> b = "SUDO-TX"
    BY DEF ButtonInv, TypesOfInstances
  <2>2. CASE i = clicks'
    <3>1. calls'[i].type = type[b] /\ calls'[i].at = b /\ calls'[i].stage = stage
      BY <1>1, <2>2
    <3>2. b = "SUDO-TX" /\ stage = "sent" => unsub'[b] = Promise
      BY <1>1, <1>2, <1>4, <2>1 DEF SentUnsub
    <3>3. QED
      BY <2>1, <3>1, <3>2
  <2>3. CASE i \in 1..clicks
    <3>1. /\ calls'[i].type = calls[i].type /\ calls'[i].at = calls[i].at
          /\ calls'[i].stage = "sent" => calls[i].stage = "sent"
      BY <1>1, <2>3
    <3>2. /\ calls[i].at \in Instances => (calls[i].type \in SudoTypes <=> calls[i].at = "SUDO-TX")
          /\ calls[i].at = "SUDO-TX" /\ calls[i].stage = "sent" => unsub["SUDO-TX"] = Promise
      BY <2>3 DEF ButtonInv, PromisesKept
    <3>3. unsub["SUDO-TX"] = Promise => unsub'["SUDO-TX"] = Promise
      BY <1>2, <1>4 DEF Instances, Group
    <3>4. QED
      BY <3>1, <3>2, <3>3
  <2>4. QED
    BY <1>3, <2>2, <2>3
<1>15. TypesOfInstances' /\ AboutLast'
  BY <1>2 DEF ButtonInv, TypesOfInstances, AboutLast
<1>16. QED
  BY <1>1, <1>12, <1>13, <1>14, <1>15 DEF ButtonInv

\* A call changes the calls of no button but its own.
LEMMA ApartElsewhere ==
    ASSUME ButtonTypeOK, NEW id \in 1..clicks, NEW stage \in CallStages, Proceed(id, stage),
           clicks' = clicks, NEW b \in Instances, b # calls[id].at, unsub'[b] = unsub[b]
    PROVE  StandsApart(b)
<1>1. /\ \A i \in 1..clicks : calls'[i].type = calls[i].type /\ calls'[i].at = calls[i].at
      /\ \A i \in 1..clicks : i # id => calls'[i].stage = calls[i].stage
  BY Proceeding
<1>2. CallsAt(b)' = CallsAt(b)
  BY <1>1 DEF CallsAt
<1>3. Live(b)' = Live(b) /\ UnderWay(b)' = UnderWay(b)
  BY <1>1, <1>2 DEF Live, UnderWay, CallsAt
<1>4. QED
  BY <1>3 DEF StandsApart

\* A call that is over, or that unsub ends, is no more among those that stand
\* apart at its own button.
LEMMA ApartAt ==
    ASSUME ButtonTypeOK, NEW id \in 1..clicks, NEW stage \in CallStages, Proceed(id, stage),
           clicks' = clicks, NEW b \in Instances, b = calls[id].at, calls[id].stage # "over",
           stage = "over" \/ unsub'[b] = id
    PROVE  StandsApart(b)
<1>1. /\ \A i \in 1..clicks : calls'[i].type = calls[i].type /\ calls'[i].at = calls[i].at
      /\ \A i \in 1..clicks : i # id => calls'[i].stage = calls[i].stage
      /\ calls'[id].stage = stage
  BY Proceeding
<1>2. CallsAt(b)' = CallsAt(b)
  BY <1>1 DEF CallsAt
<1>3. id \in NotOver(b)
  BY DEF NotOver, CallsAt
<1>4. Live(b)' \ {unsub'[b]} \subseteq NotOver(b) \ {id}
  BY <1>1, <1>2 DEF Live, NotOver, CallsAt
<1>5. QED
  BY <1>3, <1>4 DEF StandsApart

\* What the handlers of a call leave: a stage, unsub, and the status shown.
LEMMA CallKeeps ==
    ASSUME ButtonTypeOK, ButtonInv, NEW id \in 1..clicks,
           \/ SignerFound(id) \/ SignerMissing(id) \/ Established(id) \/ Refused(id)
           \/ Report(id) \/ Finalized(id)
    PROVE  ButtonTypeOK' /\ ButtonInv'
<1>1. clicks \in 0..MaxClicks /\ clicks \in Nat /\ id \in 0..Promise /\ 0 \in 0..Promise
      /\ Promise \in 0..Promise
  BY MaxClicksAssumption DEF ButtonTypeOK, Promise
<1>2. UNCHANGED <<type, accountPair, clicks, early>> /\ calls[id].stage # "over"
  BY DEF SignerFound, SignerMissing, Established, Refused, Report, Finalized
<1>3. status' = status \/ (\E text \in StatusTexts : status' = Showing(text, id))
  BY DEF SignerFound, SignerMissing, Established, Refused, Rejected, Report, Finalized, StatusTexts
<1>4. /\ unsub \in [Instances -> 0..Promise] /\ "SUDO-TX" \in Instances
      /\ calls \in [1..clicks -> CallRecords] /\ calls[id] \in CallRecords
  BY DEF ButtonTypeOK, CallRecords, Instances, Group
<1>5. /\ calls[id].at \in Instances => (calls[id].type \in SudoTypes <=> calls[id].at = "SUDO-TX")
      /\ calls[id].at = "SUDO-TX" /\ calls[id].stage = "sent" => unsub["SUDO-TX"] = Promise
  BY DEF ButtonInv, PromisesKept
<1>6. CASE SignerFound(id)
  <2>1. Proceed(id, "sent") /\ "sent" \in CallStages
        /\ IF calls[id].type \in SudoTypes THEN SetUnsub(id, Promise) ELSE unsub' = unsub
    BY <1>6 DEF SignerFound, CallStages
  <2>2. /\ unsub' \in [Instances -> 0..Promise]
        /\ \A b \in Instances : b # calls[id].at => unsub'[b] = unsub[b]
        /\ calls[id].at = "SUDO-TX" => unsub'["SUDO-TX"] = Promise
        /\ unsub["SUDO-TX"] = Promise => unsub'["SUDO-TX"] = Promise
    BY <1>1, <1>4, <1>5, <2>1, UnsubSet
  <2>3. ASSUME NEW b \in Instances PROVE StandsApart(b)
    <3>1. CASE b # calls[id].at
      BY <1>2, <2>1, <2>2, <3>1, ApartElsewhere
    <3>2. CASE b = calls[id].at
      <4>1. calls'[id].at = b /\ calls'[id].stage = "sent" /\ id \in 1..clicks'
        BY <1>2, <2>1, <3>2, Proceeding
      <4>2. id \in UnderWay(b)'
        BY <4>1 DEF UnderWay, CallsAt
      <4>3. QED
        BY <4>2 DEF StandsApart
    <3>3. QED
      BY <3>1, <3>2
  <2>4. QED
    BY <1>2, <1>3, <2>1, <2>2, <2>3, HandlerKeeps
<1>7. ASSUME Proceed(id, "over"), unsub' \in [Instances -> 0..Promise],
             \A b \in Instances : b # calls[id].at => unsub'[b] = unsub[b],
             unsub["SUDO-TX"] = Promise => unsub'["SUDO-TX"] = Promise
      PROVE  ButtonTypeOK' /\ ButtonInv'
  <2>1. "over" \in CallStages
    BY DEF CallStages
  <2>2. ASSUME NEW b \in Instances PROVE StandsApart(b)
    <3>1. CASE b # calls[id].at
      BY <1>2, <1>7, <2>1, <3>1, ApartElsewhere
    <3>2. CASE b = calls[id].at
      BY <1>2, <1>7, <2>1, <3>2, ApartAt
    <3>3. QED
      BY <3>1, <3>2
  <2>3. QED
    BY <1>2, <1>3, <1>7, <2>1, <2>2, HandlerKeeps
<1>8. CASE SignerMissing(id) \/ Finalized(id)
  BY <1>4, <1>7, <1>8 DEF SignerMissing, Finalized
<1>9. CASE Refused(id)
  <2>1. Proceed(id, "over")
        /\ IF calls[id].type \in {"SIGNED-TX", "UNSIGNED-TX"} THEN SetUnsub(id, 0)
           ELSE unsub' = unsub
    BY <1>9 DEF Refused
  <2>2. calls[id].type \in {"SIGNED-TX", "UNSIGNED-TX"} => calls[id].at # "SUDO-TX"
    BY <1>4, <1>5 DEF SudoTypes
  <2>3. QED
    BY <1>1, <1>4, <1>7, <2>1, <2>2, UnsubSet
<1>10. CASE Established(id)
  <2>1. Proceed(id, "live") /\ calls[id].stage = "sent" /\ "live" \in CallStages
        /\ IF calls[id].type \in SudoTypes THEN unsub' = unsub ELSE SetUnsub(id, id)
    BY <1>10 DEF Established, CallStages
  <2>2. /\ unsub' \in [Instances -> 0..Promise]
        /\ \A b \in Instances : b # calls[id].at => unsub'[b] = unsub[b]
        /\ calls[id].type \notin SudoTypes /\ calls[id].at \in Instances =>
              unsub'[calls[id].at] = id
        /\ unsub["SUDO-TX"] = Promise => unsub'["SUDO-TX"] = Promise
    BY <1>1, <1>4, <1>5, <2>1, UnsubSet
  <2>3. ASSUME NEW b \in Instances PROVE StandsApart(b)
    <3>1. CASE b # calls[id].at
      BY <1>2, <2>1, <2>2, <3>1, ApartElsewhere
    <3>2. CASE b = calls[id].at /\ calls[id].type \notin SudoTypes
      BY <1>2, <2>1, <2>2, <3>2, ApartAt
    <3>3. CASE b = calls[id].at /\ calls[id].type \in SudoTypes
      <4>1. b = "SUDO-TX" /\ unsub[b] = Promise
        BY <1>5, <2>1, <3>3
      <4>2. unsub'[b] = Promise
        BY <2>2, <4>1
      <4>3. QED
        BY <4>2 DEF StandsApart
    <3>4. QED
      BY <3>1, <3>2, <3>3
  <2>4. "live" # "sent"
    OBVIOUS
  <2>5. QED
    BY <1>2, <1>3, <2>1, <2>2, <2>3, <2>4, HandlerKeeps
<1>11. CASE Report(id)
  <2>1. calls' = calls /\ unsub' = unsub /\ calls[id].stage = "live" /\ "live" \in CallStages
    BY <1>11 DEF Report, CallStages
  <2>2. Proceed(id, "live")
    <3>1. \A c \in CallRecords : c.stage = "live" => [c EXCEPT !.stage = "live"] = c
      BY DEF CallRecords
    <3>2. [calls EXCEPT ![id] = [calls[id] EXCEPT !.stage = "live"]] = calls
      BY <1>4, <2>1, <3>1
    <3>3. QED
      BY <2>1, <3>2 DEF Proceed
  <2>3. ASSUME NEW b \in Instances PROVE StandsApart(b)
    <3>1. UnderWay(b)' = UnderWay(b) /\ Live(b)' = Live(b)
      BY <1>2, <2>1 DEF UnderWay, Live, CallsAt
    <3>2. QED
      BY <2>1, <3>1 DEF StandsApart
  <2>4. "live" # "sent"
    OBVIOUS
  <2>5. QED
    BY <1>2, <1>3, <1>4, <2>1, <2>2, <2>3, <2>4, HandlerKeeps
<1>12. QED
  BY <1>6, <1>8, <1>9, <1>10, <1>11

\* The types of the buttons that are shown.
LEMMA SubmitsTypes ==
    ASSUME NEW t \in InterxTypes
    PROVE  /\ Submits(t) \in UNION {[bs -> ButtonTypes] : bs \in {Group, {"single"}}}
           /\ \A b \in DOMAIN Submits(t) :
                 b \in Instances /\ (Submits(t)[b] \in SudoTypes <=> b = "SUDO-TX")
<1>1. CASE t = "EXTRINSIC"
  <2>1. Submits(t) = [b \in Group |-> b]
    BY <1>1 DEF Submits, Group
  <2>2. Group \subseteq ButtonTypes /\ Group \subseteq Instances
    BY DEF Group, ButtonTypes, TxTypes, SignedTypes, SudoTypes, Instances
  <2>3. Submits(t) \in [Group -> ButtonTypes]
    BY <2>1, <2>2
  <2>4. \A b \in Group : b \in SudoTypes <=> b = "SUDO-TX"
    BY DEF Group, SudoTypes
  <2>5. QED
    BY <2>1, <2>2, <2>3, <2>4
<1>2. CASE t # "EXTRINSIC"
  <2>1. Submits(t) = [b \in {"single"} |-> t]
    BY <1>2 DEF Submits
  <2>2. t \in ButtonTypes /\ t \notin SudoTypes /\ "single" \in Instances /\ "single" # "SUDO-TX"
    BY <1>2 DEF InterxTypes, ButtonTypes, SudoTypes, Instances
  <2>3. Submits(t) \in [{"single"} -> ButtonTypes]
    BY <2>1, <2>2
  <2>4. QED
    BY <2>1, <2>2, <2>3
<1>3. QED
  BY <1>1, <1>2

\* Buttons that were just shown have no call and no unsub.
LEMMA RetypeKeeps ==
    ASSUME ButtonTypeOK, ButtonInv, NEW t \in InterxTypes, Retype(Submits(t))
    PROVE  ButtonTypeOK' /\ ButtonInv'
<1>1. UNCHANGED <<accountPair, clicks, status>> /\ type' = Submits(t) /\ Promise' = Promise
  BY DEF Retype, Promise
<1>2. TypesOfInstances'
  BY <1>1, SubmitsTypes DEF TypesOfInstances
<1>3. type' \in UNION {[bs -> ButtonTypes] : bs \in {Group, {"single"}}}
  BY <1>1, SubmitsTypes
<1>4. CASE UNCHANGED <<unsub, calls, early>>
  <2>1. ButtonTypeOK'
    BY <1>1, <1>3, <1>4 DEF ButtonTypeOK
  <2>2. \A b \in Instances : /\ CallsAt(b)' = CallsAt(b) /\ NotOver(b)' = NotOver(b)
                             /\ Live(b)' = Live(b) /\ UnderWay(b)' = UnderWay(b)
    BY <1>1, <1>4 DEF CallsAt, NotOver, Live, UnderWay
  <2>3. FewStand' /\ LastStands' /\ PromisesKept' /\ AboutLast'
    BY <1>1, <1>4, <2>2 DEF ButtonInv, FewStand, LastStands, PromisesKept, AboutLast
  <2>4. QED
    BY <1>2, <2>1, <2>3 DEF ButtonInv
<1>5. CASE /\ unsub' = [b \in Instances |-> 0]
           /\ calls' = [id \in 1..clicks |-> [calls[id] EXCEPT !.at = "gone"]]
           /\ early' = [b \in Instances |-> 0]
  <2>1. calls \in [1..clicks -> CallRecords] /\ clicks \in Nat
    BY MaxClicksAssumption DEF ButtonTypeOK, CallRecords
  <2>2. \A c \in CallRecords : [c EXCEPT !.at = "gone"] \in CallRecords
                               /\ [c EXCEPT !.at = "gone"].at = "gone"
    BY DEF CallRecords
  <2>3. calls' \in [1..clicks -> CallRecords] /\ \A id \in 1..clicks : calls'[id].at = "gone"
    BY <1>5, <2>1, <2>2
  <2>4. 0 \in 0..Promise /\ 0 \in 0..clicks
    BY <2>1, MaxClicksAssumption DEF Promise
  <2>5. ButtonTypeOK'
    BY <1>1, <1>3, <1>5, <2>3, <2>4 DEF ButtonTypeOK, CallRecords
  <2>6. "gone" \notin Instances
    BY DEF Instances, Group
  <2>7. \A b \in Instances : CallsAt(b)' = {} /\ NotOver(b)' = {} /\ Live(b)' = {}
    BY <1>1, <2>3, <2>6 DEF CallsAt, NotOver, Live
  <2>8. FewStand'
    <3>1. Cardinality({}) = 0
      BY FS_EmptySet
    <3>2. \A b \in Instances : early'[b] = 0 /\ Live(b)' \ {unsub'[b]} = {}
      BY <1>5, <2>7
    <3>3. 0 <= 0 /\ 0 <= 0 + 1
      OBVIOUS
    <3>4. QED
      BY <2>7, <3>1, <3>2, <3>3 DEF FewStand
  <2>9. LastStands' /\ PromisesKept'
    BY <1>1, <2>3, <2>6, <2>7 DEF LastStands, PromisesKept, Instances, Group
  <2>10. AboutLast'
    <3> SUFFICES ASSUME {} = 1..clicks PROVE status.about = clicks
      BY <1>1, <2>7 DEF AboutLast
    <3>1. clicks = 0
      BY <2>1
    <3>2. status.about \in 0..clicks
      BY DEF ButtonTypeOK
    <3>3. QED
      BY <3>1, <3>2
  <2>11. QED
    BY <1>2, <2>5, <2>8, <2>9, <2>10 DEF ButtonInv
<1>6. QED
  BY <1>4, <1>5 DEF Retype

\* ButtonInv holds always, with the types.
LEMMA ButtonHolds == Spec => [](ButtonTypeOK /\ ButtonInv)
<1>1. Init => ButtonTypeOK /\ ButtonInv
  <2> SUFFICES ASSUME Init PROVE ButtonTypeOK /\ ButtonInv
    OBVIOUS
  <2>1. interxType \in InterxTypes /\ type = Submits(interxType)
    BY DEF Init, InteractorInit, InterxTypes
  <2>2. /\ clicks = 0 /\ unsub = [b \in Instances |-> 0] /\ calls = << >>
        /\ status = Showing("", 0) /\ early = [b \in Instances |-> 0]
        /\ accountPair \in {"none", "local", "injected"}
    BY DEF Init, ButtonInit
  <2>3. 0 \in 0..Promise /\ 0 \in 0..MaxClicks /\ 1..0 = {} /\ 0 \in 0..0
    BY MaxClicksAssumption DEF Promise
  <2>4. calls \in [1..clicks -> CallRecords]
    <3>1. << >> \in Seq(CallRecords) /\ Len(<< >>) = 0
      OBVIOUS
    <3>2. << >> \in [1..Len(<< >>) -> CallRecords]
      BY <3>1
    <3>3. QED
      BY <2>2, <3>1, <3>2
  <2>5. status \in [text : StatusTexts, about : 0..clicks]
    <3>1. "" \in StatusTexts
      BY Zenon DEF StatusTexts
    <3>2. 0 \in 0..clicks
      BY <2>2, <2>3, Zenon
    <3>3. QED
      BY <2>2, <3>1, <3>2 DEF Showing
  <2>6. ButtonTypeOK
    BY <2>1, <2>2, <2>3, <2>4, <2>5, SubmitsTypes DEF ButtonTypeOK, CallRecords
  <2>7. \A b \in Instances : CallsAt(b) = {} /\ NotOver(b) = {} /\ Live(b) = {}
    BY <2>2, <2>3 DEF CallsAt, NotOver, Live
  <2>8. FewStand
    <3>1. Cardinality({}) = 0
      BY FS_EmptySet
    <3>2. \A b \in Instances : early[b] = 0 /\ Live(b) \ {unsub[b]} = {}
      BY <2>2, <2>7
    <3>3. 0 <= 0 /\ 0 <= 0 + 1
      OBVIOUS
    <3>4. QED
      BY <2>7, <3>1, <3>2, <3>3 DEF FewStand
  <2>9. LastStands /\ PromisesKept
    BY <2>2, <2>3, <2>7 DEF LastStands, PromisesKept
  <2>10. TypesOfInstances /\ AboutLast
    BY <2>1, <2>2, SubmitsTypes DEF TypesOfInstances, AboutLast, Showing
  <2>11. QED
    BY <2>6, <2>8, <2>9, <2>10 DEF ButtonInv
<1>2. ButtonTypeOK /\ ButtonInv /\ [Next]_vars => ButtonTypeOK' /\ ButtonInv'
  <2> SUFFICES ASSUME ButtonTypeOK, ButtonInv, [Next]_vars PROVE ButtonTypeOK' /\ ButtonInv'
    OBVIOUS
  <2>1. CASE ButtonNext
    BY <2>1, ClickKeeps, CallKeeps DEF ButtonNext, Answers, Reports
  <2>2. CASE UNCHANGED buttonVars
    <3>1. UNCHANGED <<type, accountPair, unsub, calls, clicks, status, early>> /\ Promise' = Promise
      BY <2>2 DEF buttonVars, Promise
    <3>2. ButtonTypeOK'
      BY <3>1 DEF ButtonTypeOK
    <3>3. \A b \in Instances : /\ CallsAt(b)' = CallsAt(b) /\ NotOver(b)' = NotOver(b)
                               /\ Live(b)' = Live(b) /\ UnderWay(b)' = UnderWay(b)
      BY <3>1 DEF CallsAt, NotOver, Live, UnderWay
    <3>4. ButtonInv'
      BY <3>1, <3>3
         DEF ButtonInv, FewStand, LastStands, PromisesKept, TypesOfInstances, AboutLast
    <3>5. QED
      BY <3>2, <3>4
  <2>3. QED
    BY <2>1, <2>2, RetypeKeeps, ButtonSteps
<1>3. QED
  BY <1>1, <1>2, PTL DEF Spec

\* A button leaves no more calls subscribed to than one and those of its early
\* clicks, and without these the one it leaves, and when no other button was
\* clicked the status, is of its last click.
THEOREM LatestIsWatched == Spec => []WatchesLatest
<1>1. ButtonTypeOK /\ ButtonInv => WatchesLatest
  <2> SUFFICES ASSUME ButtonTypeOK, ButtonInv, NEW b \in DOMAIN type
               PROVE  /\ Cardinality(Live(b)) <= 1 + early[b]
                      /\ early[b] = 0 => \A id \in Live(b), later \in CallsAt(b) : later <= id
                      /\ early[b] = 0 /\ CallsAt(b) = 1..clicks => status.about = clicks
    BY DEF WatchesLatest
  <2>1. b \in Instances
    BY DEF ButtonInv, TypesOfInstances
  <2>2. /\ IsFiniteSet(NotOver(b)) /\ Live(b) \in SUBSET NotOver(b) /\ early[b] \in Nat
        /\ Cardinality(NotOver(b)) \in Nat /\ Cardinality(Live(b)) \in Nat
    BY <2>1, SetsOfCalls
  <2>3. Cardinality(Live(b)) <= Cardinality(NotOver(b))
    BY <2>2, FS_Subset
  <2>4. Cardinality(NotOver(b)) <= early[b] + 1
    BY <2>1 DEF ButtonInv, FewStand
  <2>5. Cardinality(Live(b)) <= 1 + early[b]
    BY <2>2, <2>3, <2>4
  <2>6. QED
    BY <2>1, <2>2, <2>5 DEF ButtonInv, LastStands, AboutLast
<1>2. QED
  BY <1>1, ButtonHolds, PTL

-----------------------------------------------------------------------------
(* The interactor *)

\* The lists the effects have computed are those of the form, but for the
\* callables of a pallet that is not selected any more, and what was typed is
\* for the parameters in the form.
InteractorInv ==
    /\ interxType \in InterxTypes
    /\ palletRPCs = NonEmptyPallets(interxType)
    /\ palletRpc # "" =>
          palletRpc \in DOMAIN Api[interxType] /\ callables = DOMAIN Api[interxType][palletRpc]
    /\ callables \subseteq Callables
    /\ callable # "" => callable \in callables
    /\ paramFields = IF palletRpc = "" \/ callable = "" THEN << >>
                     ELSE Api[interxType][palletRpc][callable]
    /\ \A i \in DOMAIN inputParams :
          /\ i \in DOMAIN paramFields /\ inputParams[i].type = paramFields[i].type
          /\ inputParams[i].value \in ParamTexts

\* An empty sequence has no indices.
LEMMA EmptyDomain == DOMAIN << >> = {}
<1>1. << >> \in Seq({}) /\ Len(<< >>) = 0
  OBVIOUS
<1>2. DOMAIN << >> = 1..Len(<< >>)
  BY <1>1
<1>3. 1..0 = {}
  OBVIOUS
<1>4. QED
  BY <1>1, <1>2, <1>3

\* The effects of a change to a form without parameters.
LEMMA EffectsEstablish ==
    ASSUME Effects, interxType' \in InterxTypes, inputParams' = << >>,
           palletRpc' # "" => palletRpc' \in DOMAIN Api[interxType'],
           palletRpc' = "" => callables \subseteq Callables,
           callable' # "" => callable' \in callables',
           palletRpc' = "" \/ callables' \subseteq Callables
    PROVE  InteractorInv'
<1>1. DOMAIN << >> = {}
  BY EmptyDomain
<1>2. NonEmptyPallets(interxType)' = NonEmptyPallets(interxType')
  BY DEF NonEmptyPallets
<1>3. QED
  BY <1>1, <1>2 DEF Effects, InteractorInv

\* A pallet's callables are callables.
LEMMA CallablesOf ==
    ASSUME NEW t \in InterxTypes, NEW p \in DOMAIN Api[t]
    PROVE  DOMAIN Api[t][p] \subseteq Callables
  BY DEF Callables

\* InteractorInv is inductive.
LEMMA InteractorKeeps ==
    ASSUME InteractorInv, InteractorNext
    PROVE  InteractorInv'
<1>1. ASSUME NEW t \in InterxTypes, OnInterxTypeChange(t) PROVE InteractorInv'
  <2>1. /\ interxType' = t /\ palletRpc' = "" /\ callable' = "" /\ inputParams' = << >> /\ Effects
    BY <1>1 DEF OnInterxTypeChange
  <2>2. callables \subseteq Callables
    BY DEF InteractorInv
  <2>3. QED
    BY <2>1, <2>2, EffectsEstablish
<1>2. ASSUME NEW p \in palletRPCs, SelectPallet(p) PROVE InteractorInv'
  <2>1. /\ interxType' = interxType /\ palletRpc' = p /\ callable' = "" /\ inputParams' = << >>
        /\ Effects
    BY <1>2 DEF SelectPallet
  <2>2. interxType \in InterxTypes /\ p \in DOMAIN Api[interxType] /\ callables \subseteq Callables
    BY DEF InteractorInv, NonEmptyPallets
  <2>3. palletRpc' = "" \/ callables' \subseteq Callables
    BY <2>1, <2>2, CallablesOf DEF Effects
  <2>4. QED
    BY <2>1, <2>2, <2>3, EffectsEstablish
<1>3. ASSUME NEW c \in callables, SelectCallable(c) PROVE InteractorInv'
  <2>1. /\ interxType' = interxType /\ palletRpc' = palletRpc /\ callable' = c
        /\ inputParams' = << >> /\ Effects
    BY <1>3 DEF SelectCallable, NoParams
  <2>2. interxType \in InterxTypes /\ callables \subseteq Callables
        /\ (palletRpc # "" => palletRpc \in DOMAIN Api[interxType]
                              /\ callables = DOMAIN Api[interxType][palletRpc])
    BY DEF InteractorInv
  <2>3. callables' = callables
    BY <2>1, <2>2 DEF Effects
  <2>4. QED
    BY <2>1, <2>2, <2>3, EffectsEstablish
<1>4. ASSUME NEW i \in DOMAIN paramFields, NEW v \in ParamTexts, TypeParam(i, v)
      PROVE  InteractorInv'
  <2>1. UNCHANGED <<interxType, palletRPCs, callables, paramFields, palletRpc, callable>>
    BY <1>4 DEF TypeParam
  <2>2. \A j \in DOMAIN inputParams' : j = i \/ (j \in DOMAIN inputParams /\ inputParams'[j] = inputParams[j])
    BY <1>4 DEF TypeParam
  <2>3. i \in DOMAIN inputParams' /\ inputParams'[i] = [type |-> paramFields[i].type, value |-> v]
    BY <1>4 DEF TypeParam
  <2>4. \A j \in DOMAIN inputParams' :
           /\ j \in DOMAIN paramFields' /\ inputParams'[j].type = paramFields'[j].type
           /\ inputParams'[j].value \in ParamTexts
    <3>1. SUFFICES ASSUME NEW j \in DOMAIN inputParams'
                   PROVE  /\ j \in DOMAIN paramFields
                          /\ inputParams'[j].type = paramFields[j].type
                          /\ inputParams'[j].value \in ParamTexts
      BY <2>1
    <3>2. CASE j = i
      BY <2>3, <3>2
    <3>3. CASE j # i
      BY <2>2, <3>3 DEF InteractorInv
    <3>4. QED
      BY <3>2, <3>3
  <2>5. QED
    BY <2>1, <2>4 DEF InteractorInv, NonEmptyPallets
<1>5. QED
  BY <1>1, <1>2, <1>3, <1>4 DEF InteractorNext

\* So it holds always.
LEMMA InteractorHolds == Spec => []InteractorInv
<1>1. Init => InteractorInv
  <2>1. DOMAIN << >> = {} /\ "EXTRINSIC" \in InterxTypes
    BY EmptyDomain DEF InterxTypes
  <2>2. QED
    BY <2>1 DEF Init, InteractorInit, InteractorInv
<1>2. InteractorInv /\ [Next]_vars => InteractorInv'
  <2> SUFFICES ASSUME InteractorInv, [Next]_vars PROVE InteractorInv'
    OBVIOUS
  <2>1. CASE UNCHANGED interactorVars
    BY <2>1 DEF interactorVars, InteractorInv, NonEmptyPallets
  <2>2. QED
    BY <2>1, InteractorSteps, InteractorKeeps
<1>3. QED
  BY <1>1, <1>2, PTL DEF Spec

\* The arguments before an RPC leaves out the empty ones.
NullArgument == [type |-> "null", value |-> ""]
AllArguments ==
    [i \in DOMAIN paramFields |-> IF i \in Filled THEN inputParams[i] ELSE NullArgument]

\* The call named by the form, and one argument for each of its parameters.
LEMMA FormsName ==
    ASSUME InteractorInv, SubmitEnabled
    PROVE  /\ interxType \in InterxTypes /\ palletRpc \in DOMAIN Api[interxType]
           /\ callable \in DOMAIN Api[interxType][palletRpc]
           /\ paramFields = Api[interxType][palletRpc][callable]
           /\ DOMAIN paramFields = 1..Len(paramFields) /\ Len(paramFields) \in Nat
           /\ AllArguments \in Seq({AllArguments[i] : i \in DOMAIN paramFields})
           /\ Len(AllArguments) = Len(paramFields)
           /\ \A i \in DOMAIN paramFields :
                 AllArguments[i].type \in {paramFields[i].type, "null"}
<1>1. palletRpc # "" /\ callable # ""
  BY DEF SubmitEnabled
<1>2. /\ interxType \in InterxTypes /\ palletRpc \in DOMAIN Api[interxType]
      /\ callable \in DOMAIN Api[interxType][palletRpc]
      /\ paramFields = Api[interxType][palletRpc][callable]
  BY <1>1 DEF InteractorInv
<1>3. paramFields \in Seq({paramFields[i] : i \in DOMAIN paramFields})
  BY <1>2, ApiAssumption
<1>4. DOMAIN paramFields = 1..Len(paramFields) /\ Len(paramFields) \in Nat
  BY <1>3
<1>5. /\ AllArguments \in Seq({AllArguments[i] : i \in DOMAIN paramFields})
      /\ Len(AllArguments) = Len(paramFields)
  <2>1. AllArguments \in [1..Len(paramFields) -> {AllArguments[i] : i \in DOMAIN paramFields}]
    BY <1>4 DEF AllArguments
  <2>2. QED
    BY <1>4, <2>1
<1>6. \A i \in DOMAIN paramFields : AllArguments[i].type \in {paramFields[i].type, "null"}
  BY DEF AllArguments, NullArgument, Filled, InteractorInv
<1>7. QED
  BY <1>2, <1>4, <1>5, <1>6

\* A position is its own rank exactly when there is no gap before it, and
\* otherwise its rank is less.
LEMMA RanksAndGaps ==
    ASSUME NEW S \in SUBSET Nat, 0 \notin S, NEW x \in S, NEW i \in Nat, RankIn(S, x) = i
    PROVE  IF 1..i \subseteq S THEN x = i ELSE i < x
<1> DEFINE U == {j \in S : j <= x}
<1>1. x \in Nat /\ U \in SUBSET (1..x) /\ x \in U
  <2>1. x \in Nat /\ \A j \in S : j \in Nat /\ j # 0
    OBVIOUS
  <2>2. ASSUME NEW j \in U PROVE j \in 1..x
    <3>1. j \in Nat /\ j # 0 /\ j <= x
      BY <2>1
    <3>2. QED
      BY <2>1, <3>1
  <2>3. x \in U
    BY <2>1
  <2>4. QED
    BY <2>1, <2>2, <2>3
<1>2. Cardinality(U) = i
  BY DEF RankIn
<1>3. ASSUME NEW n \in Nat PROVE IsFiniteSet(1..n) /\ Cardinality(1..n) = n
  <2>1. 1 \in Int /\ n \in Int
    OBVIOUS
  <2>2. IsFiniteSet(1..n) /\ Cardinality(1..n) = IF 1 > n THEN 0 ELSE n - 1 + 1
    BY <2>1, FS_Interval
  <2>3. QED
    BY <2>2
<1>4. \A j \in 1..i : j \in S /\ j <= x => j \in U
  OBVIOUS
<1>5. \A j \in U : j \in S
  OBVIOUS
<1> HIDE DEF U
<1>6. IsFiniteSet(U) /\ i <= x /\ (i = x => U = 1..x)
  <2> DEFINE R == 1..x
  <2>1. IsFiniteSet(R) /\ Cardinality(R) = x /\ U \in SUBSET R
    BY <1>1, <1>3
  <2> HIDE DEF R
  <2>2. IsFiniteSet(U) /\ Cardinality(U) <= Cardinality(R)
        /\ (Cardinality(U) = Cardinality(R) => U = R)
    BY <2>1, FS_Subset
  <2>3. QED
    BY <1>2, <2>1, <2>2 DEF R
<1>7. CASE 1..i \subseteq S
  <2>1. 1..i \in SUBSET U
    BY <1>1, <1>4, <1>6, <1>7
  <2>2. 1..i = U
    <3> DEFINE T == 1..i
    <3>1. Cardinality(T) = i /\ T \in SUBSET U
      BY <1>3, <2>1
    <3> HIDE DEF T
    <3>2. T = U
      BY <1>2, <1>6, <3>1, FS_Subset
    <3>3. QED
      BY <3>2 DEF T
  <2>3. x <= i
    BY <1>1, <2>2
  <2>4. QED
    BY <1>1, <1>6, <1>7, <2>3
<1>8. CASE ~(1..i \subseteq S)
  <2>1. i # x
    BY <1>5, <1>6, <1>8
  <2>2. QED
    BY <1>1, <1>6, <1>8, <2>1
<1>9. QED
  BY <1>7, <1>8

\* An RPC is given its parameters up to the first that is left empty, and
\* after it later ones.
LEMMA RpcsFit ==
    ASSUME InteractorInv, SubmitEnabled, interxType = "RPC"
    PROVE  /\ Len(Arguments) <= Len(paramFields)
           /\ \A i \in DOMAIN Arguments :
                 IF 1..i \subseteq Filled THEN Arguments[i].type = paramFields[i].type
                 ELSE \E k \in DOMAIN paramFields :
                         i < k /\ Arguments[i].type = paramFields[k].type
<1> DEFINE T == {AllArguments[i] : i \in DOMAIN paramFields}
           n == Cardinality(Filled)
<1>1. /\ AllArguments \in Seq(T) /\ Len(AllArguments) = Len(paramFields)
      /\ DOMAIN paramFields = 1..Len(paramFields) /\ Len(paramFields) \in Nat
  BY FormsName
<1>2. Filled \in SUBSET (1..Len(AllArguments))
  BY <1>1 DEF Filled, InteractorInv
<1>3. {i \in DOMAIN paramFields : AllArguments[i] # NullArgument} = Filled
  <2>1. Filled \subseteq DOMAIN paramFields
    BY <1>1, <1>2
  <2>2. ASSUME NEW i \in DOMAIN paramFields
        PROVE  AllArguments[i] # NullArgument <=> i \in Filled
    <3>1. CASE i \in Filled
      <4>1. AllArguments[i].value = "text" /\ NullArgument.value = ""
        BY <3>1 DEF AllArguments, NullArgument, Filled
      <4>2. QED
        BY <3>1, <4>1
    <3>2. CASE i \notin Filled
      BY <3>2 DEF AllArguments
    <3>3. QED
      BY <3>1, <3>2
  <2>3. QED
    BY <2>1, <2>2
<1>4. Arguments = EntriesAt(AllArguments, Filled)
  <2>1. Arguments = EntriesAt(AllArguments, {i \in DOMAIN paramFields : AllArguments[i] # NullArgument})
    BY DEF Arguments, AllArguments, NullArgument
  <2>2. QED
    BY <1>3, <2>1
<1> HIDE DEF T
<1>5. /\ Arguments \in Seq(T) /\ n \in Nat /\ Len(Arguments) = n
      /\ \A k \in 1..n : \E i \in Filled : RankIn(Filled, i) = k /\ Arguments[k] = AllArguments[i]
  BY <1>1, <1>2, <1>4, EntriesKept
<1>6. Filled \in SUBSET Nat /\ 0 \notin Filled
  BY <1>1, <1>2
<1>7. n <= Len(paramFields)
  <2> DEFINE m == Len(paramFields)
  <2>1. m \in Nat /\ Filled \in SUBSET (1..m)
    BY <1>1, <1>2
  <2> HIDE DEF m
  <2>2. IsFiniteSet(1..m) /\ Cardinality(1..m) = m
    BY <2>1, FS_Interval
  <2>3. n <= m
    BY <2>1, <2>2, FS_Subset
  <2>4. QED
    BY <2>3 DEF m
<1>8. ASSUME NEW i \in 1..n
      PROVE  IF 1..i \subseteq Filled THEN Arguments[i].type = paramFields[i].type
             ELSE \E k \in DOMAIN paramFields :
                     i < k /\ Arguments[i].type = paramFields[k].type
  <2>1. PICK k \in Filled : RankIn(Filled, k) = i /\ Arguments[i] = AllArguments[k]
    BY <1>5
  <2>2. i \in Nat
    BY <1>5
  <2>3. IF 1..i \subseteq Filled THEN k = i ELSE i < k
    BY <1>6, <2>1, <2>2, RanksAndGaps
  <2>4. k \in DOMAIN paramFields
    BY <1>1, <1>2
  <2>5. Arguments[i] = inputParams[k] /\ k \in DOMAIN inputParams
    BY <2>1, <2>4 DEF AllArguments, Filled
  <2>6. Arguments[i].type = paramFields[k].type
    BY <2>5 DEF InteractorInv
  <2>7. QED
    BY <2>3, <2>4, <2>6
<1>9. DOMAIN Arguments = 1..n
  BY <1>5
<1>10. QED
  BY <1>5, <1>7, <1>8, <1>9

\* What is submitted is a call of the api with arguments for its parameters.
LEMMA FormsFit ==
    ASSUME InteractorInv
    PROVE  SubmitFits
<1> SUFFICES ASSUME SubmitEnabled PROVE SubmitFits
  BY DEF SubmitFits
<1>1. /\ palletRpc \in DOMAIN Api[interxType]
      /\ callable \in DOMAIN Api[interxType][palletRpc]
      /\ paramFields = Api[interxType][palletRpc][callable]
  BY FormsName
<1>2. CASE interxType = "RPC"
  BY <1>1, <1>2, RpcsFit DEF SubmitFits
<1>3. CASE interxType # "RPC"
  <2>1. Arguments = AllArguments
    BY <1>3 DEF Arguments, AllArguments, NullArgument
  <2>2. DOMAIN Arguments = DOMAIN paramFields
    BY <2>1 DEF AllArguments
  <2>3. /\ Len(Arguments) = Len(paramFields)
        /\ \A i \in DOMAIN Arguments : Arguments[i].type \in {paramFields[i].type, "null"}
    BY <2>1, <2>2, FormsName
  <2>4. QED
    BY <1>1, <1>3, <2>3 DEF SubmitFits
<1>4. QED
  BY <1>2, <1>3

\* Whatever was selected and typed before, a call that can be submitted fits
\* its callable, and an RPC is given its own parameters in their order.
THEOREM SubmittedCallsFit == Spec => []SubmitFits
<1>1. InteractorInv => SubmitFits
  BY FormsFit
<1>2. QED
  BY <1>1, InteractorHolds, PTL

\* InteractorInv implies the types.
LEMMA InteractorTypes ==
    ASSUME InteractorInv
    PROVE  InteractorTypeOK
<1>1. palletRPCs \subseteq Pallets
  BY ApiAssumption DEF InteractorInv, NonEmptyPallets, Pallets
<1>2. palletRpc \in Pallets \cup {""} /\ callable \in Callables \cup {""}
  BY ApiAssumption DEF InteractorInv, Pallets
<1>3. \A i \in DOMAIN paramFields : paramFields[i].optional \in BOOLEAN
  <2>1. CASE palletRpc = "" \/ callable = ""
    <3>1. paramFields = << >>
      BY <2>1 DEF InteractorInv
    <3>2. QED
      BY <3>1, EmptyDomain
  <2>2. CASE palletRpc # "" /\ callable # ""
    BY <2>2, ApiAssumption DEF InteractorInv
  <2>3. QED
    BY <2>1, <2>2
<1>4. QED
  BY <1>1, <1>2, <1>3 DEF InteractorInv, InteractorTypeOK

\* The states of all pages keep their types, whichever is mounted.
THEOREM TypeCorrect == Spec => []TypeOK
<1>1. Spec => [](page \in Pages)
  <2>1. Init => page \in Pages
    BY DEF Init
  <2>2. page \in Pages /\ [Next]_vars => (page \in Pages)'
    BY DEF Next, InteractorPage, AmountsPage, BalancesPage, DemocracyPage, vars
  <2>3. QED
    BY <2>1, <2>2, PTL DEF Spec
<1>2. page \in Pages /\ ButtonTypeOK /\ InteractorInv /\ AmountsTypeOK /\ StartsTypeOK /\ ModalTypeOK
      => TypeOK
  BY InteractorTypes DEF TypeOK
<1>3. QED
  BY <1>1, <1>2, ButtonHolds, InteractorHolds, AmountsHold, StartsHold, ModalsHold, PTL

=============================================================================
