---------------------------- MODULE SiipRuntime -----------------------------
(***************************************************************************)
(* The runtime the SIIP pallet runs in (node/runtime/src/lib.rs and        *)
(* reward_miner.rs): blocks are started with their miner's account in the  *)
(* digest, signed extrinsics are applied for a constant fee that goes to   *)
(* that miner, and finalizing the block mints the inflationary reward.     *)
(* The balances and fee pallets are modelled by what the runtime gets from *)
(* them, with the parameters it gives them.                                *)
(***************************************************************************)
EXTENDS Integers, Sequences, FiniteSets, Functions

CONSTANTS
    Accounts, Unsigned, Names, ValidNames, Domains, ValidDomains, Ips,
    ValidIps, Infos, ValidInfos, Keys, ValidKeys, Absent, MaxEvents,
    NoBlock,         \* no block is being built
    NoMiner,         \* the block's digest names no miner
    Genesis,         \* the endowed balances
    Fee,             \* what ConstFee comes to for one extrinsic
    ED,              \* ExistentialDeposit
    MaxTokens,       \* MAX_TOKENS
    RewardDivisor,   \* the 1000 of inflationary_reward
    Amounts,         \* what a transfer may be asked to move
    MaxBody          \* bound: extrinsics in a block

\* An AccountId is a 256-bit key.
ASSUME AccountsAreFinite == IsFiniteSet(Accounts)
ASSUME NoAuthors ==
    NoBlock \notin Accounts /\ NoMiner \notin Accounts /\ NoBlock # NoMiner
ASSUME Parameters ==
    /\ Fee \in Nat /\ ED \in Nat /\ MaxTokens \in Nat
    /\ Fee >= ED    \* 10^12 at least, and 500
    /\ RewardDivisor \in Nat \ {0}
    /\ Amounts \subseteq Nat
    /\ MaxBody \in Nat
ASSUME EndowedAccounts ==
    Genesis \in [Accounts -> {0} \cup {n \in Nat : n >= ED}]

VARIABLES
    certificateMap, reverseMap, events, result,  \* the pallet's
    balance,    \* account -> free balance, 0 when it does not exist
    issuance,   \* Balances::total_issuance
    author,     \* the miner the digest of the block in progress names
    body        \* who signed the extrinsics of the block so far

registry == <<certificateMap, reverseMap, events, result>>
vars == <<certificateMap, reverseMap, events, result,
          balance, issuance, author, body>>

Siip == INSTANCE CertRegistry

\* What CertRegistry assumes of its constants.
ASSUME RegistryConstants ==
    /\ ValidNames \subseteq Names
    /\ ValidDomains \subseteq Domains
    /\ ValidIps \subseteq Ips
    /\ ValidInfos \subseteq Infos
    /\ ValidKeys \subseteq Keys
    /\ Absent \notin Siip!Certificates
    /\ Absent \notin [holder : Accounts,
                      binding : [name : ValidNames, ip : ValidIps,
                                 info : ValidInfos, key : ValidKeys]]
    /\ Unsigned \notin Accounts
    /\ MaxEvents \in Nat

\* The extrinsics a user signs: the calls of the pallet and a transfer.
RegistryCalls ==
    [call : {"register", "modify"}, args : Siip!Submissions]
      \cup [call : {"remove"}, args : Domains]
Transfers == [call : {"transfer"}, to : Accounts, value : Amounts]

\* All coins of the balances.
Total(bal) == SumFunction(bal)

\* MAX_TOKENS is 10^18, the twelve genesis accounts have 2^50 each.
ASSUME GenesisWithinCap == Total(Genesis) \in 0..MaxTokens

TypeOK ==
    /\ balance \in [Accounts -> Nat]
    /\ issuance \in Nat
    /\ author \in Accounts \cup {NoMiner, NoBlock}
    /\ body \in Seq(Accounts)

Init ==
    /\ Siip!Init
    /\ balance = Genesis
    /\ issuance = Total(Genesis)
    /\ author = NoBlock
    /\ body = <<>>

-----------------------------------------------------------------------------
(* The currency *)

\* Mutant: an account may be created with less than the deposit.
CanCreditAny(bal, who, amount) == who \in Accounts

\* deposit_creating makes no account poorer than the existential deposit;
\* get_block_miner is None when the digest names no miner.
CanCredit(bal, who, amount) ==
    who \in Accounts /\ (bal[who] > 0 \/ amount >= ED)

Credit(bal, who, amount) ==
    IF CanCredit(bal, who, amount) THEN [bal EXCEPT ![who] = @ + amount]
    ELSE bal

\* Mutant: the extrinsic is free.
WithdrawnWaived(signer) == balance

\* The balances when the fee has been withdrawn and before the dispatch.
Withdrawn(signer) == [balance EXCEPT ![signer] = @ - Fee]

\* Mutant: OnChargeTransaction drops the fee, as OnUnbalanced () does.
SettleBurned(bal, dust) ==
    /\ balance' = bal
    /\ issuance' = issuance - dust - Fee

\* Mutant: total_issuance is not reduced by what no account received.
SettleUncounted(bal, dust) ==
    /\ balance' = Credit(bal, author, Fee)
    /\ issuance' = issuance

\* Mutant: the fee leaves the issuance although the miner receives it.
SettleTwice(bal, dust) ==
    /\ balance' = Credit(bal, author, Fee)
    /\ issuance' = issuance - dust - Fee

\* Mutant: the fee is taken from the miner instead of given to it.
SettleDebits(bal, dust) ==
    /\ balance' = IF author \in Accounts /\ bal[author] >= Fee
                  THEN [bal EXCEPT ![author] = @ - Fee] ELSE bal
    /\ issuance' = issuance - dust - Fee

\* After the dispatch RewardMiner resolves the fee into the miner's account;
\* a fee nobody can receive, and dust, are dropped and leave the issuance.
Settle(bal, dust) ==
    /\ balance' = Credit(bal, author, Fee)
    /\ issuance' = (issuance - dust)
                     - (IF CanCredit(bal, author, Fee) THEN 0 ELSE Fee)

\* Balances::transfer, which may empty the sender's account: a remainder
\* below the existential deposit is dust, removed with the account.
Transferable(bal, from, x) ==
    /\ x.value > 0 /\ x.to # from
    /\ bal[from] >= x.value
    /\ bal[x.to] + x.value >= ED

DustOf(bal, from, x) ==
    IF bal[from] - x.value < ED THEN bal[from] - x.value ELSE 0

Moved(bal, from, x) ==
    [bal EXCEPT ![from] = @ - x.value - DustOf(bal, from, x),
                ![x.to] = @ + x.value]

-----------------------------------------------------------------------------
(* A block *)

\* initialize_block, with the pre-runtime digest of the mining worker.
StartBlock(miner) ==
    /\ author = NoBlock
    /\ author' = miner
    /\ body' = <<>>
    /\ UNCHANGED <<certificateMap, reverseMap, events, result,
                   balance, issuance>>

Dispatch(signer, x) ==
    CASE x.call = "register" -> Siip!Register(signer, x.args)
      [] x.call = "modify"   -> Siip!Modify(signer, x.args)
      [] x.call = "remove"   -> Siip!Remove(signer, x.args)

\* ChargeTransactionPayment withdraws the fee and keeps the account alive;
\* an extrinsic that cannot pay is invalid and is not included.
CanPay(signer) == balance[signer] >= Fee + ED

Included(signer) ==
    /\ author # NoBlock
    /\ Len(body) < MaxBody
    /\ CanPay(signer)
    /\ body' = Append(body, signer)
    /\ author' = author

\* apply_extrinsic of a call to the pallet; a call that fails pays as well.
ApplyRegistry(signer, x) ==
    /\ Included(signer)
    /\ Dispatch(signer, x)
    /\ Settle(Withdrawn(signer), 0)

\* apply_extrinsic of a transfer, one that fails included.
ApplyTransfer(signer, x) ==
    /\ Included(signer)
    /\ UNCHANGED <<certificateMap, reverseMap, events, result>>
    /\ LET bal == Withdrawn(signer) IN
        \/ Transferable(bal, signer, x)
            /\ Settle(Moved(bal, signer, x), DustOf(bal, signer, x))
        \/ ~Transferable(bal, signer, x) /\ Settle(bal, 0)

\* Mutant: a constant reward, the cap not looked at.
RewardConstant == MaxTokens \div RewardDivisor

\* Runtime::inflationary_reward
Reward == IF issuance < MaxTokens
          THEN (MaxTokens - issuance) \div RewardDivisor
          ELSE 0

\* finalize_block, with the pallet's on_finalize.
FinalizeBlock ==
    /\ author # NoBlock
    /\ balance' = Credit(balance, author, Reward)
    /\ issuance' = issuance
                     + (IF CanCredit(balance, author, Reward) THEN Reward
                        ELSE 0)
    /\ author' = NoBlock
    /\ UNCHANGED <<certificateMap, reverseMap, events, result, body>>

Next ==
    \/ \E miner \in Accounts \cup {NoMiner} : StartBlock(miner)
    \/ \E signer \in Accounts :
        \/ \E x \in RegistryCalls : ApplyRegistry(signer, x)
        \/ \E x \in Transfers : ApplyTransfer(signer, x)
    \/ FinalizeBlock

Spec == Init /\ [][Next]_vars

-----------------------------------------------------------------------------
(* Properties *)

\* Every coin is somebody's: total_issuance, the figure the reward is
\* computed from, is the sum of the balances, through fees withdrawn and
\* resolved or dropped, rewards that no account can receive, and dust.
CoinsAccounted == issuance = Total(balance)

\* Inflation never takes the issuance past MAX_TOKENS (Backlog.md:54, "the
\* total number of coins in existence does not grow without bound").
IssuanceCapped == issuance <= MaxTokens

\* No account lives below the existential deposit: fees leave it at least
\* that, transfers reap it, and neither fee nor reward creates it poorer.
NoPoorAccounts == \A a \in Accounts : balance[a] = 0 \/ balance[a] >= ED

\* In a block with a miner no coins are lost (Backlog.md:50): the issuance
\* goes down only by the dust of an account that a transfer emptied.
NoCoinsLost ==
    [][issuance' < issuance /\ author \in Accounts =>
          /\ issuance - issuance' < ED
          /\ Len(body) < Len(body')]_vars

\* A change of the registry is paid for by the account the pallet's event
\* names: it signed the extrinsic just included and is a fee poorer, unless
\* it mines the block and has its fee back.
ChangesArePaid ==
    [][certificateMap' # certificateMap =>
          LET who == events'[Len(events')].who
              cost == IF who = author THEN 0 ELSE Fee
          IN  /\ body' = Append(body, who)
              /\ balance'[who] = balance[who] - cost]_vars

\* Only the signer of the extrinsic just included can lose coins.
OnlySignersPay ==
    [][\A a \in Accounts : balance'[a] < balance[a] =>
          body' = Append(body, a)]_vars

=============================================================================
