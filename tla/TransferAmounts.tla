-------------------------- MODULE TransferAmounts ---------------------------
(***************************************************************************)
(* The amounts of the transfer form (TransferCoins.js): the change of the  *)
(* sender's and of the recipient's balance and both balances after the     *)
(* transfer can each be typed, and every other is computed from it, unless *)
(* what was typed is no number, ends in a dot, or makes a negative amount. *)
(* Balances that arrive set the end of their side too.  Amounts are whole  *)
(* coins.                                                                  *)
(***************************************************************************)
EXTENDS Integers

CONSTANTS
    MaxCoins,   \* bound: balances and numbers typed
    NaN         \* what parseFloat makes of no number

ASSUME CoinsAssumption == MaxCoins \in Nat /\ NaN \notin Int

VARIABLES
    start,      \* the balances shown: sndrStart and rcptStart
    delta,      \* sndrDelta and rcptDelta: a number, and whether a dot ends it
    end,        \* sndrEnd and rcptEnd, in the same way
    fieldOk,    \* sndrDeltaCrit, sndrEndCrit, ...: no line starts with Err:
    amount,     \* what is transferred
    rendered,   \* the amounts it was, which the callbacks of renders keep
    outdated    \* history: the sides whose end is of an amount before

amountsVars == <<start, delta, end, fieldOk, amount, rendered, outdated>>

Sides == {"sndr", "rcpt"}
AmountFields == {"sndrDelta", "sndrEnd", "rcptDelta", "rcptEnd"}
Coins == 0..MaxCoins
Transferred == 0..2 * MaxCoins
Amounts == -2 * MaxCoins..3 * MaxCoins

Number(n) == [num |-> n, dot |-> FALSE]

\* What can be typed: a number, no number, or one that ends in a dot, before
\* its fraction is typed ("0." for all of them: their amount is ignored).
TypedTexts ==
    {Number(n) : n \in {NaN} \cup (-MaxCoins..MaxCoins)} \cup {[num |-> 0, dot |-> TRUE]}

AmountsTypeOK ==
    /\ start \in [Sides -> Coins]
    /\ delta \in [Sides -> [num : {NaN} \cup Amounts, dot : BOOLEAN]]
    /\ fieldOk \in [AmountFields -> BOOLEAN]
    /\ end \in [Sides -> [num : {NaN} \cup Amounts, dot : BOOLEAN]]
    /\ amount \in Transferred /\ rendered \subseteq Transferred
    /\ outdated \subseteq Sides

AmountsInit ==
    /\ start = [s \in Sides |-> 0]
    /\ delta = [s \in Sides |-> Number(0)] /\ end = [s \in Sides |-> Number(0)]
    /\ fieldOk = [f \in AmountFields |-> TRUE]
    /\ amount = 0 /\ rendered = {0} /\ outdated = {}

-----------------------------------------------------------------------------
(* Typing *)

Minus(m, n) == IF NaN \in {m, n} THEN NaN ELSE m - n

\* Mutant: updateSndrDelta takes the change for the amount.
AmountOfUnsigned(f, n) ==
    CASE f = "sndrDelta" -> n
      [] f = "sndrEnd"   -> Minus(start["sndr"], n)
      [] f = "rcptDelta" -> n
      [] f = "rcptEnd"   -> Minus(n, start["rcpt"])

\* The amount updateSndrDelta, updateSndrEnd, updateRcptDelta and
\* updateRcptEnd compute from the number typed.
AmountOf(f, n) ==
    CASE f = "sndrDelta" -> Minus(0, n)
      [] f = "sndrEnd"   -> Minus(start["sndr"], n)
      [] f = "rcptDelta" -> n
      [] f = "rcptEnd"   -> Minus(n, start["rcpt"])

\* criteriaString: a number of the right sign.
CriteriaOk(f, n) == n # NaN /\ IF f = "sndrDelta" THEN n <= 0 ELSE n >= 0

\* What a transfer leaves of the balance of a side.
After(side, coins, new) == IF side = "sndr" THEN coins - new ELSE coins + new

\* updateAmount, unless it returns early: every other field is computed and
\* every criterion met.
UpdateAmount(new) ==
    /\ delta' = [sndr |-> Number(-new), rcpt |-> Number(new)]
    /\ end' = [s \in Sides |-> Number(After(s, start[s], new))]
    /\ amount' = new /\ rendered' = rendered \cup {new}
    /\ outdated' = {}

\* Mutant: a negative amount is taken over.
IgnoresNoNumber(text, new) == text.dot \/ new = NaN

\* updateAmount returns early.
IgnoresAmount(text, new) == text.dot \/ new = NaN \/ new < 0

\* What is typed stays in its field.
TypedInto(f, text) ==
    /\ delta' = CASE f = "sndrDelta" -> [delta EXCEPT !["sndr"] = text]
                  [] f = "rcptDelta" -> [delta EXCEPT !["rcpt"] = text]
                  [] OTHER -> delta
    /\ end' = CASE f = "sndrEnd" -> [end EXCEPT !["sndr"] = text]
                [] f = "rcptEnd" -> [end EXCEPT !["rcpt"] = text]
                [] OTHER -> end
    /\ UNCHANGED <<amount, rendered, outdated>>

\* One of the four handlers.
TypeAmount(f, text) ==
    LET new == AmountOf(f, text.num)
    IN  IF IgnoresAmount(text, new)
        THEN /\ TypedInto(f, text)
             /\ fieldOk' = [fieldOk EXCEPT ![f] = CriteriaOk(f, text.num)]
             /\ UNCHANGED start
        ELSE /\ UpdateAmount(new)
             /\ fieldOk' = [g \in AmountFields |-> g = f => CriteriaOk(f, text.num)]
             /\ UNCHANGED start

\* A callback of updateStarting sets the balance shown, and what is left of it
\* by the amount of the render it is of; TransferStarts has which and when.
BalanceShown(side, coins, old) ==
    /\ start' = [start EXCEPT ![side] = coins]
    /\ end' = [end EXCEPT ![side] = Number(After(side, coins, old))]
    /\ outdated' = IF old = amount THEN outdated \ {side} ELSE outdated \cup {side}
    /\ UNCHANGED <<delta, fieldOk, amount, rendered>>

AmountsNext ==
    \/ \E f \in AmountFields, text \in TypedTexts : TypeAmount(f, text)
    \/ \E side \in Sides, coins \in Coins, old \in rendered : BalanceShown(side, coins, old)

-----------------------------------------------------------------------------
(* Properties *)

\* isValid, but for the address.
IsValid == \A f \in AmountFields : fieldOk[f]

\* A balance typed as an end that no transfer leaves: it is ignored, but
\* stays in its field.
OutOfReach(side) == AmountOf(IF side = "sndr" THEN "sndrEnd" ELSE "rcptEnd", end[side].num) < 0

\* When the form can be submitted, what is transferred is what both changes
\* say, and each end is what the transfer leaves of the balance shown,
\* whichever fields were typed before, with balances arriving meanwhile, and
\* although ignored input stays in its field.  Of the ends two are excluded:
\* one that was ignored, being the wrong side of the balance, and one that
\* a callback of a former render computed.  A number that ends in a dot is
\* not taken over before its next digit.
ShownIsTransferred ==
    IsValid /\ (\A side \in Sides : ~delta[side].dot /\ ~end[side].dot) =>
        /\ delta["rcpt"].num = amount /\ delta["sndr"].num = -amount
        /\ \A side \in Sides \ outdated :
              end[side].num = After(side, start[side], amount) \/ OutOfReach(side)

=============================================================================
