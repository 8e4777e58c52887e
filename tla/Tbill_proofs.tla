---------------------------- MODULE Tbill_proofs ----------------------------
(***************************************************************************)
(* For every sequence of rotations and rebindings the Move package keeps    *)
(* the promise of SupplyController, touches only the account that an        *)
(* authorization names, and refuses an authorization for its nonce exactly  *)
(* if another ledger's was honoured with that nonce.                        *)
(***************************************************************************)
EXTENDS Tbill, TLAPS

\* What the package remembers of the messages: the used nonces are those of the
\* Authorized events, and only signed messages were honoured.
RecordInv ==
  /\ signatures \subseteq Message
  /\ honoured \subseteq signatures
  /\ used_nonces = {m.nonce : m \in honoured}

\* A ledger had one message signed for a nonce.
SignedOnce ==
  \A m, n \in signatures : m.ledger = n.ledger /\ m.nonce = n.nonce => m = n

Inv == RecordInv /\ SignedOnce

LEMMA InitInv == Init => Inv
  BY DEF Init, Inv, RecordInv, SignedOnce

LEMMA HonourInv ==
  ASSUME Inv, NEW m \in signatures, VerifyAndConsume(m), signatures' = signatures
  PROVE  Inv'
  <1>1. used_nonces' = used_nonces \cup {m.nonce} /\ honoured' = honoured \cup {m}
    BY DEF VerifyAndConsume
  <1>2. {h.nonce : h \in honoured'} = {h.nonce : h \in honoured} \cup {m.nonce}
    BY <1>1
  <1>3. RecordInv'
    BY <1>1, <1>2 DEF Inv, RecordInv
  <1>4. SignedOnce'
    BY DEF Inv, SignedOnce
  <1> QED BY <1>3, <1>4 DEF Inv

LEMMA SignInv ==
  ASSUME Inv, NEW m \in Message, DWalletSigns(m)
  PROVE  Inv'
  <1>1. /\ \A s \in signatures : s.ledger = m.ledger /\ s.nonce = m.nonce => s = m
        /\ signatures' = signatures \cup {m}
        /\ UNCHANGED <<used_nonces, honoured>>
    BY DEF DWalletSigns
  <1>2. RecordInv'
    BY <1>1 DEF Inv, RecordInv
  <1>3. SignedOnce'
    BY <1>1 DEF Inv, SignedOnce
  <1> QED BY <1>2, <1>3 DEF Inv

\* The steps that neither sign nor honour a message.
Quiet ==
  \/ \E k \in DWallets, b \in Bindings : SetParams(k, b)
  \/ \E k \in DWallets : SetDwalletPubkey(k)
  \/ \E g \in GenesisAmounts : GenesisMint(g, GenesisTo)
  \/ \E x, y \in Addresses, v \in Amounts : TransferCoin(x, y, v)
  \/ UNCHANGED vars

LEMMA QuietRecords == Quiet => UNCHANGED <<used_nonces, signatures, honoured>>
  BY DEF Quiet, SetParams, NoncesOf, SetDwalletPubkey, GenesisMint, TransferCoin, vars, paramVars

LEMMA NextInv == ASSUME Inv, [Next]_vars PROVE Inv'
  <1>1. CASE \E m \in signatures : MintWithAuthorization(m)
    BY <1>1, HonourInv DEF MintWithAuthorization
  <1>2. CASE \E m \in signatures, x \in Addresses : BurnWithAuthorization(m, x)
    BY <1>2, HonourInv DEF BurnWithAuthorization
  <1>3. CASE \E m \in Message : DWalletSigns(m)
    BY <1>3, SignInv
  <1>4. CASE Quiet
    BY <1>4, QuietRecords DEF Inv, RecordInv, SignedOnce
  <1> QED BY <1>1, <1>2, <1>3, <1>4 DEF Next, Quiet

LEMMA InvHolds == Spec => []Inv
  <1>1. Init => Inv
    BY InitInv
  <1>2. Inv /\ [Next]_vars => Inv'
    BY NextInv
  <1> QED BY <1>1, <1>2, PTL DEF Spec

-----------------------------------------------------------------------------

LEMMA HonourRefines ==
  ASSUME Inv, NEW m \in signatures,
         MintWithAuthorization(m) \/ \E x \in Addresses : BurnWithAuthorization(m, x)
  PROVE  Controller!Honour(m)
  <1>1. VerifyAndConsume(m) /\ UNCHANGED <<genesis_done, signatures>>
    BY DEF MintWithAuthorization, BurnWithAuthorization
  <1>2. \A h \in honoured : h.nonce # m.nonce
    BY <1>1 DEF VerifyAndConsume, Unused, Inv, RecordInv
  <1>3. \/ m.action = "mint" /\ total_supply' = total_supply + m.amount
        \/ m.action = "burn" /\ m.amount <= total_supply /\ total_supply' = total_supply - m.amount
    BY DEF MintWithAuthorization, BurnWithAuthorization
  <1> QED BY <1>1, <1>2, <1>3 DEF VerifyAndConsume, Controller!Honour

LEMMA QuietRefines == ASSUME Quiet PROVE [Controller!Next]_(Controller!vars)
  <1>1. CASE \E g \in GenesisAmounts : GenesisMint(g, GenesisTo)
    <2>1. Controller!Seed
      BY <1>1 DEF GenesisMint, GenesisOpen, Controller!Seed
    <2> QED BY <2>1 DEF Controller!Next
  <1>2. CASE UNCHANGED <<total_supply, genesis_done, signatures, honoured>>
    BY <1>2 DEF Controller!vars
  <1> QED
    BY <1>1, <1>2 DEF Quiet, SetParams, SetDwalletPubkey, TransferCoin, vars, paramVars

LEMMA NextRefines == ASSUME Inv, [Next]_vars PROVE [Controller!Next]_(Controller!vars)
  <1>1. CASE \E m \in signatures :
               MintWithAuthorization(m) \/ \E x \in Addresses : BurnWithAuthorization(m, x)
    <2> PICK m \in signatures :
               MintWithAuthorization(m) \/ \E x \in Addresses : BurnWithAuthorization(m, x)
      BY <1>1
    <2>1. m \in Message /\ Controller!Honour(m)
      BY HonourRefines DEF Inv, RecordInv
    <2> QED BY <2>1 DEF Controller!Next
  <1>2. CASE \E m \in Message : DWalletSigns(m)
    <2> PICK m \in Message : DWalletSigns(m)
      BY <1>2
    <2>1. Controller!Sign(m)
      BY DEF DWalletSigns, Controller!Sign
    <2> QED BY <2>1 DEF Controller!Next
  <1>3. CASE Quiet
    BY <1>3, QuietRefines
  <1> QED BY <1>1, <1>2, <1>3 DEF Next, Quiet

\* The package implements SupplyController: one seed, then only authorizations as
\* they were signed, each nonce once, through every call of set_params and
\* set_dwallet_pubkey (tbill.move:116-199).
THEOREM ControllerImplemented == Spec => ImplementsController
  <1>1. Init => Controller!Init
    BY DEF Init, Controller!Init
  <1>2. Inv /\ [Next]_vars => [Controller!Next]_(Controller!vars)
    BY NextRefines
  <1> QED BY <1>1, <1>2, InvHolds, PTL DEF Spec, ImplementsController, Controller!Spec

\* Through every rebinding, an authorization that was not honoured is refused for
\* its nonce exactly if another ledger's was honoured with that nonce
\* (tbill.move:119-130, 193-199).
THEOREM LostExactlyToOtherLedgerHolds == Spec => []LostExactlyToOtherLedger
  <1>1. Inv => LostExactlyToOtherLedger
    <2> SUFFICES ASSUME Inv, NEW m \in signatures, m \notin honoured
                 PROVE  m.nonce \in used_nonces <=>
                          \E h \in honoured : h.nonce = m.nonce /\ h.ledger # m.ledger
      BY DEF LostExactlyToOtherLedger, Unused
    <2>1. m.nonce \in used_nonces <=> \E h \in honoured : h.nonce = m.nonce
      BY DEF Inv, RecordInv
    <2>2. ASSUME NEW h \in honoured, h.nonce = m.nonce
          PROVE  h.ledger # m.ledger
      BY <2>2 DEF Inv, RecordInv, SignedOnce
    <2> QED BY <2>1, <2>2
  <1> QED BY <1>1, InvHolds, PTL
-----------------------------------------------------------------------------

\* What addresses hold, and what there is, are natural numbers.
CoinsInv == total_supply \in Nat /\ coins \in [Addresses -> Nat]

LEMMA AmountsAreNatural == Amounts \subseteq Nat /\ GenesisAmounts \subseteq Nat
  BY TbillAssumption DEF TbillAssumption, U64

LEMMA HonourableIsMessage ==
  ASSUME Inv, NEW m \in signatures, VerifyAndConsume(m)
  PROVE  m.amount \in Nat /\ m.account \in Addresses
  BY AmountsAreNatural DEF VerifyAndConsume, Parses, Inv, RecordInv, Message

\* The message that a step honours is a new one, and the only one.
LEMMA HonouredByStep ==
  ASSUME Inv, NEW m \in signatures, VerifyAndConsume(m)
  PROVE  honoured' \ honoured = {m}
  <1>1. m \notin honoured
    BY DEF VerifyAndConsume, Unused, Inv, RecordInv
  <1> QED BY <1>1 DEF VerifyAndConsume

LEMMA MintNames ==
  ASSUME Inv, CoinsInv, NEW m \in signatures, MintWithAuthorization(m)
  PROVE  /\ CoinsInv'
         /\ total_supply' # total_supply =>
              \A x \in Addresses : coins'[x] # coins[x] <=> Named(x)
  <1>1. m.amount \in Nat /\ m.account \in Addresses /\ \A x : Named(x) <=> m.account = x
    BY HonourableIsMessage, HonouredByStep DEF MintWithAuthorization, Named
  <1>2. /\ total_supply' = total_supply + m.amount
        /\ coins' = [coins EXCEPT ![m.account] = @ + m.amount]
    BY DEF MintWithAuthorization
  <1> QED BY <1>1, <1>2 DEF CoinsInv

LEMMA BurnNames ==
  ASSUME Inv, CoinsInv, NEW m \in signatures, NEW sender \in Addresses,
         BurnWithAuthorization(m, sender)
  PROVE  /\ CoinsInv'
         /\ total_supply' # total_supply =>
              \A x \in Addresses : coins'[x] # coins[x] <=> Named(x)
  <1>1. m.amount \in Nat /\ m.account = sender /\ \A x : Named(x) <=> m.account = x
    BY HonourableIsMessage, HonouredByStep DEF BurnWithAuthorization, IsAccount, Named
  <1>2. /\ m.amount <= coins[sender] /\ m.amount <= total_supply
        /\ total_supply' = total_supply - m.amount
        /\ coins' = [coins EXCEPT ![sender] = @ - m.amount]
    BY DEF BurnWithAuthorization
  <1> QED BY <1>1, <1>2 DEF CoinsInv

\* The other steps move coins, or mint the seed.
LEMMA QuietCoins ==
  ASSUME CoinsInv, Quiet
  PROVE  CoinsInv' /\ (genesis_done' = genesis_done => total_supply' = total_supply)
  <1>1. CASE \E g \in GenesisAmounts : GenesisMint(g, GenesisTo)
    <2> PICK g \in GenesisAmounts : GenesisMint(g, GenesisTo)
      BY <1>1
    <2>1. CoinsInv'
      <3>1. g \in Nat /\ GenesisTo \in Addresses
        BY AmountsAreNatural, TbillAssumption DEF TbillAssumption
      <3>2. /\ total_supply' = total_supply + g
            /\ coins' = [coins EXCEPT ![GenesisTo] = @ + g]
        BY DEF GenesisMint
      <3> QED BY <3>1, <3>2 DEF CoinsInv
    <2>2. genesis_done' = TRUE /\ ~genesis_done
      BY DEF GenesisMint, GenesisOpen
    <2>3. genesis_done' # genesis_done
      BY ONLY <2>2, Zenon
    <2> QED BY <2>1, <2>3
  <1>2. CASE \E x, y \in Addresses, v \in Amounts : TransferCoin(x, y, v)
    <2> PICK x \in Addresses, y \in Addresses, v \in Amounts : TransferCoin(x, y, v)
      BY <1>2
    <2>1. coins' \in [Addresses -> Nat]
      BY AmountsAreNatural DEF TransferCoin, CoinsInv
    <2> QED BY <2>1 DEF TransferCoin, CoinsInv
  <1>3. CASE UNCHANGED <<total_supply, coins>>
    BY <1>3 DEF CoinsInv
  <1> QED BY <1>1, <1>2, <1>3 DEF Quiet, SetParams, SetDwalletPubkey, vars, paramVars

LEMMA NextNames ==
  ASSUME Inv, CoinsInv, [Next]_vars
  PROVE  /\ CoinsInv'
         /\ total_supply' # total_supply /\ genesis_done' = genesis_done =>
              \A x \in Addresses : coins'[x] # coins[x] <=> Named(x)
  <1>1. CASE \E m \in signatures : MintWithAuthorization(m)
    BY <1>1, MintNames
  <1>2. CASE \E m \in signatures, x \in Addresses : BurnWithAuthorization(m, x)
    BY <1>2, BurnNames
  <1>3. CASE \E m \in Message : DWalletSigns(m)
    BY <1>3 DEF DWalletSigns, CoinsInv
  <1>4. CASE Quiet
    BY <1>4, QuietCoins
  <1> QED BY <1>1, <1>2, <1>3, <1>4 DEF Next, Quiet

\* Whoever relays an authorization, it burns from and mints to the account the
\* ledger named and touches no other (tbill.move:155-174).
THEOREM OnlyNamedAccountsHolds == Spec => OnlyNamedAccounts
  <1>1. Init => CoinsInv
    BY DEF Init, CoinsInv
  <1>2. Inv /\ CoinsInv /\ [Next]_vars => CoinsInv'
    BY NextNames
  <1>3. Inv /\ CoinsInv /\ [Next]_vars =>
          [total_supply' # total_supply /\ genesis_done' = genesis_done =>
             \A x \in Addresses : coins'[x] # coins[x] <=> Named(x)]_vars
    BY NextNames
  <1> QED BY <1>1, <1>2, <1>3, InvHolds, PTL DEF Spec, OnlyNamedAccounts
=============================================================================
