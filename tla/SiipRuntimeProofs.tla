------------------------- MODULE SiipRuntimeProofs --------------------------
(***************************************************************************)
(* Proofs about SiipRuntime: the coins of the accounts and the issuance,   *)
(* the cap, the existential deposit, who pays, and that the runtime drives *)
(* the registry only through the calls of CertRegistry, so that all that   *)
(* is proved of those holds on the chain.                                  *)
(***************************************************************************)
EXTENDS SiipRuntime, DataLemmas, TLAPS

\* The type of the runtime's own variables, with an issuance that may be any
\* integer: that it is a natural number follows from CoinsAccounted.
Typed ==
    /\ balance \in [Accounts -> Nat]
    /\ issuance \in Int
    /\ author \in Accounts \cup {NoMiner, NoBlock}
    /\ body \in Seq(Accounts)

\* The inductive invariant.  The cap needs the type of the issuance, the
\* deposit needs the type of the balances.
IInv == Typed /\ IssuanceCapped /\ NoPoorAccounts

Balances == [Accounts -> Nat]
Healthy(bal) == \A a \in Accounts : bal[a] = 0 \/ bal[a] >= ED

\* The reward is a part of what the cap leaves.
LEMMA RewardBound ==
    ASSUME issuance \in Int, issuance <= MaxTokens
    PROVE  Reward \in Nat /\ issuance + Reward <= MaxTokens
<1>1. MaxTokens \in Nat /\ RewardDivisor \in Nat \ {0}
    BY Parameters
<1>2. ASSUME NEW n \in Nat, NEW d \in Nat \ {0}
      PROVE  n \div d \in Nat /\ n \div d <= n
    BY <1>2, SMT
<1>3. CASE issuance < MaxTokens
    <2>1. MaxTokens - issuance \in Nat
        BY <1>1, <1>3
    <2> QED  BY <1>1, <1>2, <1>3, <2>1 DEF Reward
<1>4. CASE ~(issuance < MaxTokens)
    BY <1>4, <1>1 DEF Reward
<1> QED  BY <1>3, <1>4

\* Crediting keeps balances healthy, takes from nobody, and gives to at most
\* one account.
LEMMA Credits ==
    ASSUME NEW bal \in Balances, NEW who, NEW amount \in Nat
    PROVE  /\ Credit(bal, who, amount) \in Balances
           /\ Healthy(bal) => Healthy(Credit(bal, who, amount))
           /\ \A a \in Accounts : Credit(bal, who, amount)[a] >= bal[a]
           /\ \A a \in Accounts :
                a # who => Credit(bal, who, amount)[a] = bal[a]
           /\ who \in Accounts /\ CanCredit(bal, who, amount) =>
                Credit(bal, who, amount)[who] = bal[who] + amount
<1>1. ED \in Nat
    BY Parameters
<1> QED  BY <1>1 DEF Credit, CanCredit, Balances, Healthy

\* Withdrawing the fee from an account that can pay it.
LEMMA Withdrawals ==
    ASSUME IInv, NEW signer \in Accounts, CanPay(signer)
    PROVE  /\ Withdrawn(signer) \in Balances
           /\ Healthy(Withdrawn(signer))
           /\ \A a \in Accounts :
                a # signer => Withdrawn(signer)[a] = balance[a]
           /\ Withdrawn(signer)[signer] = balance[signer] - Fee
<1>1. Fee \in Nat /\ ED \in Nat
    BY Parameters
<1> QED  BY <1>1 DEF IInv, Typed, NoPoorAccounts, CanPay, Withdrawn, Balances,
                     Healthy

\* A transfer moves coins out of the sender's account only.
LEMMA Moves ==
    ASSUME NEW bal \in Balances, Healthy(bal), NEW from \in Accounts,
           NEW x \in Transfers, Transferable(bal, from, x)
    PROVE  /\ Moved(bal, from, x) \in Balances
           /\ Healthy(Moved(bal, from, x))
           /\ \A a \in Accounts : a # from => Moved(bal, from, x)[a] >= bal[a]
           /\ DustOf(bal, from, x) \in Nat
           /\ DustOf(bal, from, x) = 0 \/ DustOf(bal, from, x) < ED
<1>1. ED \in Nat /\ x.to \in Accounts /\ x.value \in Nat
    BY Parameters DEF Transfers
<1>2. bal[from] \in Nat /\ bal[x.to] \in Nat
    BY <1>1 DEF Balances
<1>3. x.to # from /\ bal[from] >= x.value /\ bal[x.to] + x.value >= ED
    BY DEF Transferable
<1>4. /\ DustOf(bal, from, x) \in Nat
      /\ DustOf(bal, from, x) = 0 \/ DustOf(bal, from, x) < ED
      /\ bal[from] - x.value - DustOf(bal, from, x) \in Nat
      /\ \/ bal[from] - x.value - DustOf(bal, from, x) = 0
         \/ bal[from] - x.value - DustOf(bal, from, x) >= ED
    BY <1>1, <1>2, <1>3 DEF DustOf
<1>5. \A a \in Accounts : Moved(bal, from, x)[a] =
        IF a = x.to THEN bal[a] + x.value
        ELSE IF a = from THEN bal[a] - x.value - DustOf(bal, from, x)
        ELSE bal[a]
    BY <1>1, <1>3 DEF Moved, Balances
<1>6. Moved(bal, from, x) \in Balances
    BY <1>1, <1>2, <1>4, <1>5 DEF Moved, Balances
<1>7. Healthy(Moved(bal, from, x))
    BY <1>1, <1>2, <1>3, <1>4, <1>5 DEF Healthy
<1>8. \A a \in Accounts : a # from => Moved(bal, from, x)[a] >= bal[a]
    BY <1>1, <1>5 DEF Balances
<1> QED  BY <1>4, <1>6, <1>7, <1>8

-----------------------------------------------------------------------------
\* What an extrinsic does to the coins, whatever the call: the balances stay
\* healthy, only the signer can lose, and the issuance shrinks by the dust
\* and, where no account can take the fee, by the fee.
LEMMA Settlement ==
    ASSUME IInv, NEW signer \in Accounts, Included(signer),
           NEW bal \in Balances, Healthy(bal), NEW dust \in Nat,
           \A a \in Accounts : a # signer => bal[a] >= balance[a],
           Settle(bal, dust)
    PROVE  /\ IInv'
           /\ \A a \in Accounts :
                balance'[a] < balance[a] => body' = Append(body, a)
           /\ author \in Accounts => issuance' = issuance - dust
<1>1. Fee \in Nat /\ ED \in Nat /\ MaxTokens \in Nat /\ Fee >= ED
    BY Parameters
<1>2. /\ balance' = Credit(bal, author, Fee)
      /\ balance' \in Balances /\ Healthy(balance')
      /\ \A a \in Accounts : balance'[a] >= bal[a]
    BY <1>1, Credits DEF Settle
<1>3. body' = Append(body, signer) /\ author' = author /\ author # NoBlock
    BY DEF Included
<1>4. issuance' \in Int /\ issuance' <= issuance
    BY <1>1 DEF Settle, IInv, Typed
<1>5. author \in Accounts => issuance' = issuance - dust
    BY <1>1 DEF Settle, CanCredit, Healthy, Balances, IInv, Typed
<1>6. IInv'
    BY <1>1, <1>2, <1>3, <1>4
        DEF IInv, Typed, IssuanceCapped, NoPoorAccounts, Balances, Healthy
<1>7. ASSUME NEW a \in Accounts, balance'[a] < balance[a]
      PROVE  body' = Append(body, a)
    <2>1. balance[a] \in Nat /\ bal[a] \in Nat /\ balance'[a] \in Nat
        BY <1>2 DEF IInv, Typed, Balances
    <2>2. a = signer
        BY <1>2, <1>7, <2>1
    <2> QED  BY <1>3, <2>2
<1> QED  BY <1>5, <1>6, <1>7

\* The same for a call to the pallet, where the signer loses the fee alone.
LEMMA RegistrySettles ==
    ASSUME IInv, NEW signer \in Accounts, Included(signer),
           Settle(Withdrawn(signer), 0)
    PROVE  /\ IInv'
           /\ \A a \in Accounts :
                balance'[a] < balance[a] => body' = Append(body, a)
           /\ author \in Accounts => issuance' = issuance
           /\ balance'[signer] =
                balance[signer] - (IF signer = author THEN 0 ELSE Fee)
<1>1. Fee \in Nat /\ ED \in Nat /\ Fee >= ED
    BY Parameters
<1>2. CanPay(signer)
    BY DEF Included
<1>3. /\ Withdrawn(signer) \in Balances /\ Healthy(Withdrawn(signer))
      /\ \A a \in Accounts : a # signer => Withdrawn(signer)[a] = balance[a]
      /\ Withdrawn(signer)[signer] = balance[signer] - Fee
    BY <1>2, Withdrawals
<1>4. \A a \in Accounts : a # signer => Withdrawn(signer)[a] >= balance[a]
    BY <1>3 DEF IInv, Typed
<1>5. /\ IInv'
      /\ \A a \in Accounts : balance'[a] < balance[a] => body' = Append(body, a)
      /\ author \in Accounts => issuance' = issuance - 0
    BY <1>3, <1>4, Settlement
<1>6. balance' = Credit(Withdrawn(signer), author, Fee)
    BY DEF Settle
<1>7. CASE signer # author
    <2>1. balance'[signer] = Withdrawn(signer)[signer]
        BY <1>1, <1>3, <1>6, <1>7, Credits
    <2> QED  BY <1>3, <1>5, <1>7, <2>1 DEF IInv, Typed
<1>8. CASE signer = author
    <2>1. CanCredit(Withdrawn(signer), author, Fee)
        BY <1>1, <1>8 DEF CanCredit
    <2>2. balance'[signer] = Withdrawn(signer)[signer] + Fee
        BY <1>1, <1>3, <1>6, <1>8, <2>1, Credits
    <2>3. balance[signer] \in Nat
        BY DEF IInv, Typed
    <2> QED  BY <1>1, <1>3, <1>5, <1>8, <2>2, <2>3 DEF IInv, Typed
<1> QED  BY <1>7, <1>8

-----------------------------------------------------------------------------
\* What a transfer does to the coins.
LEMMA TransferSettles ==
    ASSUME IInv, NEW signer \in Accounts, NEW x \in Transfers,
           ApplyTransfer(signer, x)
    PROVE  /\ IInv'
           /\ \A a \in Accounts :
                balance'[a] < balance[a] => body' = Append(body, a)
           /\ author \in Accounts =>
                \/ issuance' = issuance
                \/ /\ issuance - issuance' < ED
                   /\ body' = Append(body, signer)
<1> DEFINE bal == Withdrawn(signer)
<1>1. Included(signer) /\ CanPay(signer) /\ body' = Append(body, signer)
    BY DEF ApplyTransfer, Included
<1>2. /\ bal \in Balances /\ Healthy(bal)
      /\ \A a \in Accounts : a # signer => bal[a] >= balance[a]
    BY <1>1, Withdrawals DEF IInv, Typed
<1>3. ED \in Nat /\ issuance \in Int
    BY Parameters DEF IInv, Typed
<1>4. CASE Transferable(bal, signer, x)
             /\ Settle(Moved(bal, signer, x), DustOf(bal, signer, x))
    <2> DEFINE new == Moved(bal, signer, x)
               dust == DustOf(bal, signer, x)
    <2>1. /\ new \in Balances /\ Healthy(new) /\ dust \in Nat
          /\ dust = 0 \/ dust < ED
          /\ \A a \in Accounts : a # signer => new[a] >= bal[a]
        BY <1>2, <1>4, Moves
    <2>2. \A a \in Accounts : a # signer => new[a] >= balance[a]
        BY <1>2, <2>1 DEF Balances, IInv, Typed
    <2>3. /\ IInv'
          /\ \A a \in Accounts :
                balance'[a] < balance[a] => body' = Append(body, a)
          /\ author \in Accounts => issuance' = issuance - dust
        BY <1>1, <1>4, <2>1, <2>2, Settlement
    <2> QED  BY <1>1, <1>3, <2>1, <2>3
<1>5. CASE Settle(bal, 0)
    <2>1. /\ IInv'
          /\ \A a \in Accounts :
                balance'[a] < balance[a] => body' = Append(body, a)
          /\ author \in Accounts => issuance' = issuance - 0
        BY <1>1, <1>2, <1>5, Settlement
    <2> QED  BY <1>3, <2>1
<1> QED  BY <1>4, <1>5 DEF ApplyTransfer

\* Starting and finalizing a block takes coins from nobody.
LEMMA BlockBounds ==
    ASSUME IInv,
           FinalizeBlock \/ \E miner \in Accounts \cup {NoMiner} : StartBlock(miner)
    PROVE  /\ IInv'
           /\ \A a \in Accounts : ~(balance'[a] < balance[a])
           /\ ~(issuance' < issuance)
<1>1. ASSUME NEW miner \in Accounts \cup {NoMiner}, StartBlock(miner)
      PROVE  /\ IInv'
             /\ \A a \in Accounts : ~(balance'[a] < balance[a])
             /\ ~(issuance' < issuance)
    BY <1>1 DEF StartBlock, IInv, Typed, IssuanceCapped, NoPoorAccounts
<1>2. CASE FinalizeBlock
    <2>1. Reward \in Nat /\ issuance + Reward <= MaxTokens
        BY RewardBound DEF IInv, Typed, IssuanceCapped
    <2>2. balance' = Credit(balance, author, Reward)
        BY <1>2 DEF FinalizeBlock
    <2>3. balance \in Balances /\ Healthy(balance)
        BY DEF IInv, Typed, NoPoorAccounts, Balances, Healthy
    <2>4. /\ balance' \in Balances /\ Healthy(balance')
          /\ \A a \in Accounts : balance'[a] >= balance[a]
        BY <2>1, <2>2, <2>3, Credits
    <2>5. issuance' = issuance \/ issuance' = issuance + Reward
        BY <1>2 DEF FinalizeBlock, IInv, Typed
    <2>6. author' = NoBlock /\ body' = body
        BY <1>2 DEF FinalizeBlock
    <2>7. issuance \in Int /\ issuance <= MaxTokens
        BY DEF IInv, Typed, IssuanceCapped
    <2>8. issuance' \in Int /\ issuance' <= MaxTokens /\ ~(issuance' < issuance)
        BY <2>1, <2>5, <2>7
    <2>9. \A a \in Accounts : ~(balance'[a] < balance[a])
        BY <2>3, <2>4 DEF Balances
    <2> QED  BY <2>4, <2>6, <2>8, <2>9
                DEF IInv, Typed, IssuanceCapped, NoPoorAccounts, Balances,
                    Healthy
<1> QED  BY <1>1, <1>2

\* The invariant holds initially and each step keeps it.
LEMMA Inductive == Init => IInv
<1> SUFFICES ASSUME Init PROVE IInv
    OBVIOUS
<1>1. balance \in [Accounts -> Nat] /\ NoPoorAccounts
    BY EndowedAccounts, Parameters DEF Init, NoPoorAccounts
<1>2. issuance \in Int /\ issuance <= MaxTokens
    BY GenesisWithinCap, Parameters DEF Init
<1> QED  BY <1>1, <1>2 DEF Init, IInv, Typed, IssuanceCapped

\* The three kinds of step, and what each does to coins and registry.
LEMMA Steps ==
    ASSUME IInv, [Next]_vars
    PROVE  /\ IInv'
           /\ \A a \in Accounts :
                balance'[a] < balance[a] => body' = Append(body, a)
           /\ author \in Accounts /\ issuance' < issuance =>
                /\ issuance - issuance' < ED
                /\ Len(body) < Len(body')
<1>1. ASSUME NEW signer \in Accounts, NEW x \in RegistryCalls,
             ApplyRegistry(signer, x)
      PROVE  /\ IInv'
             /\ \A a \in Accounts :
                  balance'[a] < balance[a] => body' = Append(body, a)
             /\ author \in Accounts => issuance' = issuance
    BY <1>1, RegistrySettles DEF ApplyRegistry
<1>2. ASSUME NEW signer \in Accounts, body' = Append(body, signer)
      PROVE  Len(body) < Len(body')
    <2>1. body \in Seq(Accounts)
        BY DEF IInv, Typed
    <2> QED  BY <1>2, <2>1
<1>3. CASE UNCHANGED vars
    BY <1>3 DEF vars, IInv, Typed, IssuanceCapped, NoPoorAccounts
<1>4. issuance \in Int
    BY DEF IInv, Typed
<1>5. ASSUME NEW signer \in Accounts, NEW x \in RegistryCalls,
             ApplyRegistry(signer, x)
      PROVE  author \in Accounts => ~(issuance' < issuance)
    BY <1>1, <1>4, <1>5
<1>6. ASSUME NEW signer \in Accounts, NEW x \in Transfers,
             ApplyTransfer(signer, x)
      PROVE  author \in Accounts /\ issuance' < issuance =>
                /\ issuance - issuance' < ED
                /\ Len(body) < Len(body')
    <2>1. author \in Accounts => \/ issuance' = issuance
                                 \/ /\ issuance - issuance' < ED
                                    /\ body' = Append(body, signer)
        BY <1>6, TransferSettles
    <2> QED  BY <1>2, <1>4, <2>1
<1> QED  BY <1>1, <1>3, <1>5, <1>6, TransferSettles, BlockBounds DEF Next

-----------------------------------------------------------------------------
\* The inductive invariant holds in every reachable state.
LEMMA Invariance == Spec => []IInv
<1>1. IInv /\ [Next]_vars => IInv'
    BY Steps
<1> QED  BY Inductive, <1>1, PTL DEF Spec

\* Whatever the fees, rewards and transfers, no block takes the issuance
\* past MAX_TOKENS.
THEOREM IssuanceCappedHolds == Spec => []IssuanceCapped
<1>1. IInv => IssuanceCapped
    BY DEF IInv
<1> QED  BY Invariance, <1>1, PTL

\* No account ever lives below the existential deposit.
THEOREM NoPoorAccountsHolds == Spec => []NoPoorAccounts
<1>1. IInv => NoPoorAccounts
    BY DEF IInv
<1> QED  BY Invariance, <1>1, PTL

\* In a block with a miner the issuance only loses the dust of a transfer.
THEOREM NoCoinsLostHolds == Spec => NoCoinsLost
<1>1. IInv /\ [Next]_vars =>
        [issuance' < issuance /\ author \in Accounts =>
            /\ issuance - issuance' < ED
            /\ Len(body) < Len(body')]_vars
    BY Steps
<1> QED  BY Invariance, <1>1, PTL DEF Spec, NoCoinsLost

\* Nobody but the signer of the extrinsic just included loses coins.
THEOREM OnlySignersPayHolds == Spec => OnlySignersPay
<1>1. IInv /\ [Next]_vars =>
        [\A a \in Accounts : balance'[a] < balance[a] =>
            body' = Append(body, a)]_vars
    BY Steps
<1> QED  BY Invariance, <1>1, PTL DEF Spec, OnlySignersPay

-----------------------------------------------------------------------------
(* Every coin is somebody's *)

LEMMA BalancesTotal ==
    ASSUME NEW bal \in Balances
    PROVE  Total(bal) \in Nat
BY AccountsAreFinite, TotalType DEF Total, Balances

\* Changing one account changes the total by as much.
LEMMA BalanceChange ==
    ASSUME NEW bal \in Balances, NEW new \in Balances, NEW a \in Accounts,
           \A b \in Accounts : b # a => new[b] = bal[b]
    PROVE  Total(new) = Total(bal) + (new[a] - bal[a])
BY AccountsAreFinite, TotalUpdate DEF Total, Balances

LEMMA CreditTotal ==
    ASSUME NEW bal \in Balances, NEW who, NEW amount \in Nat
    PROVE  Total(Credit(bal, who, amount)) =
               Total(bal) + (IF CanCredit(bal, who, amount) THEN amount ELSE 0)
<1> DEFINE new == Credit(bal, who, amount)
<1>1. new \in Balances
    BY Credits
<1>2. Total(bal) \in Nat
    BY BalancesTotal
<1>3. CASE CanCredit(bal, who, amount)
    <2>1. who \in Accounts
        BY <1>3 DEF CanCredit
    <2>2. /\ \A b \in Accounts : b # who => new[b] = bal[b]
          /\ new[who] = bal[who] + amount
        BY <1>3, <2>1, Credits
    <2>3. bal[who] \in Nat
        BY <2>1 DEF Balances
    <2> HIDE DEF new
    <2>4. Total(new) = Total(bal) + (new[who] - bal[who])
        BY <1>1, <2>1, <2>2, BalanceChange
    <2> QED  BY <1>2, <1>3, <2>2, <2>3, <2>4 DEF new
<1>4. CASE ~CanCredit(bal, who, amount)
    BY <1>2, <1>4 DEF Credit
<1> QED  BY <1>3, <1>4

LEMMA WithdrawnTotal ==
    ASSUME IInv, NEW signer \in Accounts, CanPay(signer)
    PROVE  Total(Withdrawn(signer)) = Total(balance) - Fee
<1>1. balance \in Balances
    BY DEF IInv, Typed, Balances
<1>2. /\ Withdrawn(signer) \in Balances
      /\ \A a \in Accounts : a # signer => Withdrawn(signer)[a] = balance[a]
      /\ Withdrawn(signer)[signer] = balance[signer] - Fee
    BY Withdrawals
<1>3. Total(Withdrawn(signer)) =
        Total(balance) + (Withdrawn(signer)[signer] - balance[signer])
    BY <1>1, <1>2, BalanceChange
<1>4. Total(balance) \in Nat /\ balance[signer] \in Nat /\ Fee \in Nat
    BY <1>1, BalancesTotal, Parameters DEF Balances
<1> QED  BY <1>2, <1>3, <1>4

\* A transfer moves all but the dust it leaves behind.
LEMMA MovedTotal ==
    ASSUME NEW bal \in Balances, Healthy(bal), NEW from \in Accounts,
           NEW x \in Transfers, Transferable(bal, from, x)
    PROVE  Total(Moved(bal, from, x)) = Total(bal) - DustOf(bal, from, x)
<1> DEFINE dust == DustOf(bal, from, x)
           paid == [bal EXCEPT ![from] = bal[from] - x.value - dust]
           new == Moved(bal, from, x)
<1>1. x.to \in Accounts /\ x.value \in Nat /\ x.to # from
    BY Parameters DEF Transfers, Transferable
<1>2. bal[from] \in Nat /\ bal[x.to] \in Nat /\ Total(bal) \in Nat
    BY <1>1, BalancesTotal DEF Balances
<1>3. new \in Balances /\ dust \in Nat
    BY Moves
<1>4. bal[from] - x.value - dust \in Nat
    BY <1>1, <1>2, Parameters DEF Transferable, DustOf
<1>5. /\ paid \in Balances /\ paid[from] = bal[from] - x.value - dust
      /\ paid[x.to] = bal[x.to]
      /\ \A b \in Accounts : b # from => paid[b] = bal[b]
    BY <1>1, <1>4 DEF Balances
<1>6. /\ new[x.to] = bal[x.to] + x.value
      /\ \A b \in Accounts : b # x.to => new[b] = paid[b]
    BY <1>1 DEF Moved, Balances
<1> HIDE DEF paid, new, dust
<1>7. Total(paid) = Total(bal) + (paid[from] - bal[from])
    BY <1>5, BalanceChange
<1>8. Total(new) = Total(paid) + (new[x.to] - paid[x.to])
    BY <1>1, <1>3, <1>5, <1>6, BalanceChange
<1>9. Total(new) = Total(bal) - dust
    BY <1>1, <1>2, <1>3, <1>5, <1>6, <1>7, <1>8
<1> QED  BY <1>9 DEF new, dust

\* The settlement keeps the account of the coins when the balances it is
\* given lack the fee and the dust.
LEMMA SettlementCounts ==
    ASSUME IInv, NEW bal \in Balances, NEW dust \in Nat,
           Total(bal) = issuance - dust - Fee, Settle(bal, dust)
    PROVE  CoinsAccounted'
<1>1. Fee \in Nat /\ issuance \in Int /\ Total(bal) \in Nat
    BY Parameters, BalancesTotal DEF IInv, Typed
<1>2. /\ balance' = Credit(bal, author, Fee)
      /\ issuance' = (issuance - dust)
                       - (IF CanCredit(bal, author, Fee) THEN 0 ELSE Fee)
    BY DEF Settle
<1>3. Total(balance') =
        Total(bal) + (IF CanCredit(bal, author, Fee) THEN Fee ELSE 0)
    BY <1>1, <1>2, CreditTotal
<1>4. issuance' = Total(balance')
    BY <1>1, <1>2, <1>3
<1> QED  BY <1>4 DEF CoinsAccounted, Total

LEMMA CoinSteps ==
    ASSUME IInv, CoinsAccounted, [Next]_vars
    PROVE  CoinsAccounted'
<1>1. /\ balance \in Balances /\ Healthy(balance)
      /\ issuance \in Int /\ issuance = Total(balance) /\ Fee \in Nat
    BY Parameters
        DEF IInv, Typed, Balances, NoPoorAccounts, Healthy, CoinsAccounted
<1>2. ASSUME NEW signer \in Accounts, Included(signer)
      PROVE  /\ Withdrawn(signer) \in Balances /\ Healthy(Withdrawn(signer))
             /\ Total(Withdrawn(signer)) = issuance - Fee
    BY <1>1, <1>2, Withdrawals, WithdrawnTotal DEF Included
<1>3. ASSUME NEW signer \in Accounts, NEW x \in RegistryCalls,
             ApplyRegistry(signer, x)
      PROVE  CoinsAccounted'
    <2>1. Included(signer) /\ Settle(Withdrawn(signer), 0)
        BY <1>3 DEF ApplyRegistry
    <2>2. Total(Withdrawn(signer)) = issuance - 0 - Fee
        BY <1>1, <1>2, <2>1
    <2> QED  BY <1>2, <2>1, <2>2, SettlementCounts
<1>4. ASSUME NEW signer \in Accounts, NEW x \in Transfers,
             ApplyTransfer(signer, x)
      PROVE  CoinsAccounted'
    <2> DEFINE bal == Withdrawn(signer)
               dust == DustOf(bal, signer, x)
    <2>1. Included(signer)
        BY <1>4 DEF ApplyTransfer
    <2>2. bal \in Balances /\ Healthy(bal) /\ Total(bal) = issuance - Fee
        BY <1>2, <2>1
    <2>3. CASE Transferable(bal, signer, x) /\ Settle(Moved(bal, signer, x), dust)
        <3>1. Moved(bal, signer, x) \in Balances /\ dust \in Nat
            BY <2>2, <2>3, Moves
        <3>2. Total(Moved(bal, signer, x)) = Total(bal) - dust
            BY <2>2, <2>3, MovedTotal
        <3>3. Total(Moved(bal, signer, x)) = issuance - dust - Fee
            BY <1>1, <2>2, <3>1, <3>2
        <3> QED  BY <2>3, <3>1, <3>3, SettlementCounts
    <2>4. CASE Settle(bal, 0)
        <3>1. Total(bal) = issuance - 0 - Fee
            BY <1>1, <2>2
        <3> QED  BY <2>2, <2>4, <3>1, SettlementCounts
    <2> QED  BY <1>4, <2>3, <2>4 DEF ApplyTransfer
<1>5. CASE FinalizeBlock
    <2>1. Reward \in Nat
        BY RewardBound DEF IInv, Typed, IssuanceCapped
    <2>2. /\ balance' = Credit(balance, author, Reward)
          /\ issuance' = issuance
                 + (IF CanCredit(balance, author, Reward) THEN Reward ELSE 0)
        BY <1>5 DEF FinalizeBlock
    <2>3. issuance' = Total(balance')
        BY <1>1, <2>1, <2>2, CreditTotal
    <2> QED  BY <2>3 DEF CoinsAccounted, Total
<1>6. CASE UNCHANGED <<balance, issuance>>
    BY <1>6 DEF CoinsAccounted, Total
<1> QED  BY <1>3, <1>4, <1>5, <1>6 DEF Next, vars, StartBlock

\* Every coin is somebody's, in every reachable state.
THEOREM CoinsAccountedHolds == Spec => []CoinsAccounted
<1>1. Init => CoinsAccounted
    BY DEF Init, CoinsAccounted
<1>2. IInv /\ CoinsAccounted /\ [Next]_vars => CoinsAccounted'
    BY CoinSteps
<1> QED  BY Invariance, <1>1, <1>2, PTL DEF Spec

\* The runtime's own variables keep their types: what dust and dropped fees
\* take off the issuance never takes it below zero.
THEOREM TypeCorrect == Spec => []TypeOK
<1>1. IInv /\ CoinsAccounted => TypeOK
    <2>1. IInv /\ CoinsAccounted => issuance \in Nat
        BY BalancesTotal DEF IInv, Typed, CoinsAccounted, Balances
    <2> QED  BY <2>1 DEF IInv, Typed, TypeOK
<1> QED  BY Invariance, CoinsAccountedHolds, <1>1, PTL

-----------------------------------------------------------------------------
(* The registry in the blocks *)

\* A step of the runtime is a step of the registry or leaves it alone.
LEMMA RegistrySteps ==
    ASSUME [Next]_vars
    PROVE  [Siip!Next]_(Siip!vars)
<1>1. ASSUME NEW signer \in Accounts, NEW x \in RegistryCalls,
             ApplyRegistry(signer, x)
      PROVE  Siip!Next
    <2>1. signer \in Siip!Origins
        BY DEF Siip!Origins
    <2>2. Dispatch(signer, x)
        BY <1>1 DEF ApplyRegistry
    <2>3. CASE x.call = "register"
        <3>1. x.args \in Siip!Submissions
            BY <2>3 DEF RegistryCalls
        <3> QED  BY <2>1, <2>2, <2>3, <3>1 DEF Dispatch, Siip!Next
    <2>4. CASE x.call = "modify"
        <3>1. x.args \in Siip!Submissions
            BY <2>4 DEF RegistryCalls
        <3> QED  BY <2>1, <2>2, <2>4, <3>1 DEF Dispatch, Siip!Next
    <2>5. CASE x.call = "remove"
        <3>1. x.args \in Domains
            BY <2>5 DEF RegistryCalls
        <3> QED  BY <2>1, <2>2, <2>5, <3>1 DEF Dispatch, Siip!Next
    <2> QED  BY <2>3, <2>4, <2>5 DEF RegistryCalls
<1>2. CASE UNCHANGED <<certificateMap, reverseMap, events, result>>
    BY <1>2 DEF Siip!vars
<1> QED  BY <1>1, <1>2
            DEF Next, StartBlock, ApplyTransfer, FinalizeBlock, vars

\* The blocks drive the registry through its calls alone, so what
\* CertRegistryProofs proves of the calls holds of the chain.
THEOREM RuntimeRunsRegistry == Spec => Siip!Spec
<1>1. Init => Siip!Init
    BY DEF Init
<1> QED  BY <1>1, RegistrySteps, PTL DEF Spec, Siip!Spec

\* The theorems about the registry, for the runtime's constants and variables.
Facts == INSTANCE CertRegistryProofs

\* The instance the theorems are about is the one the runtime runs.
LEMMA SameRegistry ==
    /\ Siip!Init => Facts!Init
    /\ [Siip!Next]_(Siip!vars) => [Facts!Next]_(Facts!vars)
    /\ Facts!TypeOK => Siip!TypeOK
    /\ Facts!LatestListing => Siip!LatestListing
<1>1. /\ \A s : Siip!FieldError(s) = Facts!FieldError(s)
      /\ \A d : Siip!Registered(d) <=> Facts!Registered(d)
      /\ \A o, s : Siip!NewCertificate(o, s) = Facts!NewCertificate(o, s)
      /\ \A certs, d : Siip!Retain(certs, d) = Facts!Retain(certs, d)
      /\ \A c, o, a : Siip!Modified(c, o, a) = Facts!Modified(c, o, a)
      /\ Siip!Ok = Facts!Ok
    BY DEF Siip!FieldError, Facts!FieldError, Siip!Registered,
        Facts!Registered, Siip!NewCertificate, Facts!NewCertificate,
        Siip!Retain, Facts!Retain, Siip!EntriesAt, Facts!EntriesAt,
        Siip!Kept, Facts!Kept, Siip!RankIn, Facts!RankIn,
        Siip!Cardinality, Facts!Cardinality,
        Siip!Modified, Facts!Modified, Siip!Ok, Facts!Ok
<1>2. /\ \A o, s : Siip!RegisterResult(o, s) = Facts!RegisterResult(o, s)
      /\ \A o, s : Siip!ModifyResult(o, s) = Facts!ModifyResult(o, s)
      /\ \A o, d : Siip!RemoveResult(o, d) = Facts!RemoveResult(o, d)
    BY <1>1 DEF Siip!RegisterResult, Facts!RegisterResult, Siip!ModifyResult,
        Facts!ModifyResult, Siip!RemoveResult, Facts!RemoveResult
<1>3. /\ \A e : Siip!Fail(e) <=> Facts!Fail(e)
      /\ \A e : Siip!Deposit(e) <=> Facts!Deposit(e)
    BY <1>1 DEF Siip!Fail, Facts!Fail, Siip!Deposit, Facts!Deposit
<1>4. ASSUME NEW o, NEW s, Siip!Register(o, s) PROVE Facts!Register(o, s)
    BY <1>1, <1>2, <1>3, <1>4 DEF Siip!Register, Facts!Register
<1>5. ASSUME NEW o, NEW s, Siip!Modify(o, s) PROVE Facts!Modify(o, s)
    BY <1>1, <1>2, <1>3, <1>5 DEF Siip!Modify, Facts!Modify
<1>6. ASSUME NEW o, NEW d, Siip!Remove(o, d) PROVE Facts!Remove(o, d)
    BY <1>1, <1>2, <1>3, <1>6 DEF Siip!Remove, Facts!Remove
<1>7. Siip!Next => Facts!Next
    BY <1>4, <1>5, <1>6 DEF Siip!Next, Facts!Next, Siip!Origins,
        Facts!Origins, Siip!Submissions, Facts!Submissions
<1>8. [Siip!Next]_(Siip!vars) => [Facts!Next]_(Facts!vars)
    BY <1>7 DEF Siip!vars, Facts!vars
<1>9. Siip!Init => Facts!Init
    BY <1>1 DEF Siip!Init, Facts!Init
<1>10. Facts!TypeOK => Siip!TypeOK
    BY <1>1 DEF Siip!TypeOK, Facts!TypeOK, Siip!Certificates,
        Facts!Certificates, Siip!Events, Facts!Events, Siip!Errors,
        Facts!Errors
<1>11. Facts!LatestListing => Siip!LatestListing
    BY <1>1 DEF Siip!LatestListing, Facts!LatestListing, Siip!Latest,
        Facts!Latest, Siip!EntriesOf, Facts!EntriesOf
<1> QED  BY <1>8, <1>9, <1>10, <1>11

\* The registry inside the blocks keeps its types, and reverse lookup finds
\* every live certificate of the chain.
THEOREM ChainRegistryHolds == Spec => [](Siip!TypeOK /\ Siip!LatestListing)
<1>1. Facts!Spec => []Facts!TypeOK /\ []Facts!LatestListing
    BY RegistryConstants, Facts!TypeCorrect, Facts!LatestListingHolds
        DEF Siip!Certificates, Facts!Certificates
<1>2. Siip!Spec => Facts!Spec
    BY SameRegistry, PTL DEF Siip!Spec, Facts!Spec
<1> QED  BY <1>1, <1>2, SameRegistry, RuntimeRunsRegistry, PTL

\* The two instances state the same of the events and of the listings.
LEMMA SameStories ==
    /\ Facts!EventsTellStorage => Siip!EventsTellStorage
    /\ Facts!ListingsWereAnnounced => Siip!ListingsWereAnnounced
<1>1. /\ \A d : Siip!Registered(d) <=> Facts!Registered(d)
      /\ \A e : Siip!InForceAfter(e) = Facts!InForceAfter(e)
      /\ \A d : Siip!EventsOn(d) = Facts!EventsOn(d)
    BY DEF Siip!Registered, Facts!Registered, Siip!InForceAfter,
        Facts!InForceAfter, Siip!EventsOn, Facts!EventsOn
<1>2. Facts!EventsTellStorage => Siip!EventsTellStorage
    BY <1>1 DEF Siip!EventsTellStorage, Facts!EventsTellStorage
<1>3. Facts!ListingsWereAnnounced => Siip!ListingsWereAnnounced
    BY <1>1 DEF Siip!ListingsWereAnnounced, Facts!ListingsWereAnnounced
<1> QED  BY <1>2, <1>3

\* Whoever follows the events of the blocks knows the certificates, and every
\* listing in the reverse table was announced by one of them.
THEOREM ChainEventsTell ==
    Spec => [](Siip!EventsTellStorage /\ Siip!ListingsWereAnnounced)
<1>1. Facts!Spec => []Facts!EventsTellStorage /\ []Facts!ListingsWereAnnounced
    BY RegistryConstants, Facts!EventsTellStorageHolds,
       Facts!ListingsWereAnnouncedHolds
        DEF Siip!Certificates, Facts!Certificates
<1>2. Siip!Spec => Facts!Spec
    BY SameRegistry, PTL DEF Siip!Spec, Facts!Spec
<1> QED  BY <1>1, <1>2, SameStories, RuntimeRunsRegistry, PTL

\* On the chain, too, a certificate is changed by its owner alone, a call keeps
\* the listings of other domains, and a removal ends those at its address.
THEOREM ChainOwnersControl ==
    Spec => Siip!OwnerControls /\ Siip!OthersKeepListings /\ Siip!RemovalUnlists
<1>1. Facts!Spec =>
        Facts!OwnerControls /\ Facts!OthersKeepListings /\ Facts!RemovalUnlists
    BY RegistryConstants, Facts!OwnerControlsHolds,
       Facts!OthersKeepListingsHolds, Facts!RemovalUnlistsHolds
        DEF Siip!Certificates, Facts!Certificates
<1>2. Siip!Spec => Facts!Spec
    BY SameRegistry, PTL DEF Siip!Spec, Facts!Spec
<1>3. Facts!OwnerControls => Siip!OwnerControls
    BY PTL DEF Siip!OwnerControls, Facts!OwnerControls, Siip!Registered,
        Facts!Registered, Siip!vars, Facts!vars
<1>4. Facts!OthersKeepListings => Siip!OthersKeepListings
    BY PTL DEF Siip!OthersKeepListings, Facts!OthersKeepListings,
        Siip!EntriesAt, Facts!EntriesAt, Siip!Kept, Facts!Kept, Siip!RankIn,
        Facts!RankIn, Siip!Cardinality, Facts!Cardinality, Siip!vars,
        Facts!vars
<1>5. Facts!RemovalUnlists => Siip!RemovalUnlists
    BY PTL DEF Siip!RemovalUnlists, Facts!RemovalUnlists, Siip!Registered,
        Facts!Registered, Siip!EntriesOf, Facts!EntriesOf, Siip!vars,
        Facts!vars
<1> QED  BY <1>1, <1>2, <1>3, <1>4, <1>5, RuntimeRunsRegistry, PTL

\* The two instances read the same holdings off the storage.
LEMMA SameService ==
    /\ Facts!Service!ServiceInit => Siip!Service!ServiceInit
    /\ [Facts!Service!ServiceNext]_(Facts!holdings) =>
            [Siip!Service!ServiceNext]_(Siip!holdings)
<1>1. Siip!holdings = Facts!holdings
    BY DEF Siip!holdings, Facts!holdings, Siip!HoldingOf, Facts!HoldingOf,
        Siip!BindingOf, Facts!BindingOf
<1>2. Siip!holdings' = Facts!holdings'
    BY DEF Siip!holdings, Facts!holdings, Siip!HoldingOf, Facts!HoldingOf,
        Siip!BindingOf, Facts!BindingOf
<1>3. \A h, b : Siip!Service!Holding(h, b) = Facts!Service!Holding(h, b)
    BY DEF Siip!Service!Holding, Facts!Service!Holding
<1>4. Facts!Service!ServiceInit => Siip!Service!ServiceInit
    BY <1>1 DEF Siip!Service!ServiceInit, Facts!Service!ServiceInit
<1>5. /\ \A h, n, b : Facts!Service!Claim(h, n, b) =>
                Siip!Service!Claim(h, n, b)
      /\ \A h, n, b : Facts!Service!Rebind(h, n, b) =>
                Siip!Service!Rebind(h, n, b)
      /\ \A h, n : Facts!Service!Release(h, n) =>
                Siip!Service!Release(h, n)
    BY <1>1, <1>2, <1>3 DEF Siip!Service!Claim, Facts!Service!Claim,
        Siip!Service!Rebind, Facts!Service!Rebind, Siip!Service!Release,
        Facts!Service!Release
<1>6. Facts!Service!ServiceNext => Siip!Service!ServiceNext
    BY <1>5 DEF Siip!Service!ServiceNext, Facts!Service!ServiceNext
<1> QED  BY <1>1, <1>2, <1>4, <1>6

\* The chain as a whole is a name service: whatever blocks the miners build of
\* whatever extrinsics, names go to who claims them first and are rebound and
\* released by their holders alone.
THEOREM ChainIsNameService == Spec => Siip!ImplementsService
<1>1. Facts!Spec => Facts!Service!ServiceSpec
    BY RegistryConstants, Facts!RegistryImplementsService
        DEF Siip!Certificates, Facts!Certificates, Facts!ImplementsService
<1>2. Siip!Spec => Facts!Spec
    BY SameRegistry, PTL DEF Siip!Spec, Facts!Spec
<1>3. Facts!Service!ServiceSpec => Siip!Service!ServiceSpec
    BY SameService, PTL DEF Facts!Service!ServiceSpec, Siip!Service!ServiceSpec
<1> QED  BY <1>1, <1>2, <1>3, RuntimeRunsRegistry, PTL
            DEF Siip!ImplementsService

\* A call by an account that changes the certificates ends in an event that
\* names that account.
LEMMA EventNamesSigner ==
    ASSUME Siip!TypeOK, NEW signer \in Accounts, NEW x \in RegistryCalls,
           Dispatch(signer, x), certificateMap' # certificateMap
    PROVE  events'[Len(events')].who = signer
<1>1. /\ \A e : Siip!Fail(e) => certificateMap' = certificateMap
      /\ \A e : Siip!Deposit(e) => events' = Append(events, e)
    BY DEF Siip!Fail, Siip!Deposit
<1>2. PICK e : e.who = signer /\ events' = Append(events, e)
    <2>1. CASE x.call = "register"
        BY <1>1, <2>1 DEF Dispatch, Siip!Register
    <2>2. CASE x.call = "modify"
        BY <1>1, <2>2 DEF Dispatch, Siip!Modify, Siip!Modified
    <2>3. CASE x.call = "remove"
        BY <1>1, <2>3 DEF Dispatch, Siip!Remove
    <2> QED  BY <2>1, <2>2, <2>3 DEF RegistryCalls
<1>3. events \in Seq(Siip!Events)
    BY DEF Siip!TypeOK
<1>4. events'[Len(events')] = e
    BY <1>2, <1>3
<1> QED  BY <1>2, <1>4

\* A change of the registry is paid for by the account its event names.
THEOREM ChangesArePaidHolds == Spec => ChangesArePaid
<1>1. ASSUME IInv, Siip!TypeOK, [Next]_vars,
             certificateMap' # certificateMap
      PROVE  LET who == events'[Len(events')].who
                 cost == IF who = author THEN 0 ELSE Fee
             IN  /\ body' = Append(body, who)
                 /\ balance'[who] = balance[who] - cost
    <2>1. PICK signer \in Accounts, x \in RegistryCalls : ApplyRegistry(signer, x)
        BY <1>1 DEF Next, vars, StartBlock, ApplyTransfer, FinalizeBlock
    <2>2. events'[Len(events')].who = signer
        BY <1>1, <2>1, EventNamesSigner DEF ApplyRegistry
    <2>3. body' = Append(body, signer)
        BY <2>1 DEF ApplyRegistry, Included
    <2>4. balance'[signer] =
            balance[signer] - (IF signer = author THEN 0 ELSE Fee)
        BY <1>1, <2>1, RegistrySettles DEF ApplyRegistry
    <2> QED  BY <2>2, <2>3, <2>4
<1>2. IInv /\ Siip!TypeOK /\ [Next]_vars =>
        [certificateMap' # certificateMap =>
          LET who == events'[Len(events')].who
              cost == IF who = author THEN 0 ELSE Fee
          IN  /\ body' = Append(body, who)
              /\ balance'[who] = balance[who] - cost]_vars
    BY <1>1
<1> QED  BY <1>2, Invariance, ChainRegistryHolds, PTL
            DEF Spec, ChangesArePaid

=============================================================================
