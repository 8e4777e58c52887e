-------------------------------- MODULE Tbill --------------------------------
(***************************************************************************)
(* contracts/sui/tbill: the Move package that holds the TreasuryCap of the *)
(* token on Sui.  One action per public function; an abort leaves no trace. *)
(*                                                                          *)
(* Unlike the EVM controller it can be pointed at another dWallet or at     *)
(* another ledger after it is published, and its starting supply is minted  *)
(* by a call of its own.  Coins are counted per owner: a transaction may    *)
(* merge and split the coins of its sender before it burns one.             *)
(***************************************************************************)
EXTENDS Integers, FiniteSets

CONSTANTS
  Addresses,  \* Sui addresses, 32 bytes
  Accounts,   \* accounts an authorization may name; those of other chains are shorter
  DWallets,   \* Ed25519 public keys of dWallets
  Bindings,   \* the [ledger, domain] pairs set_params may be called with
  Amounts, Nonces,
  GenesisAmounts, GenesisTo,
  SignBound,  \* how many messages get signed
  U64Max

Unset == "unset"  \* the empty vector
U64 == 0 .. U64Max

Binding == [ledger |-> Unset, domain |-> Unset]
Ledgers == {b.ledger : b \in Bindings}
DomainSeparators == {b.domain : b \in Bindings}

\* The 161-byte message with the dWallet that signed it.
Message ==
  [key : DWallets, domain : DomainSeparators, ledger : Ledgers, action : {"mint", "burn"},
   amount : Amounts, account : Accounts, nonce : Nonces]

ASSUME TbillAssumption ==
  /\ U64Max \in Nat /\ Amounts \subseteq U64 /\ GenesisAmounts \subseteq U64
  /\ Addresses \subseteq Accounts /\ GenesisTo \in Addresses
  /\ Unset \notin DWallets \cup Ledgers \cup DomainSeparators /\ SignBound \in Nat

VARIABLES
  total_supply,   \* of the TreasuryCap
  coins,          \* address -> value of the coins it owns
  dwallet_pubkey,
  bound,          \* the ledger and domain fields
  used_nonces,
  genesis_done,
  signatures,     \* the messages signed by a dWallet for some ledger
  honoured        \* the Authorized events, as the message that was honoured

paramVars == <<dwallet_pubkey, bound>>
vars == <<total_supply, coins, paramVars, used_nonces, genesis_done, signatures, honoured>>

Init ==
  /\ total_supply = 0
  /\ coins = [x \in Addresses |-> 0]
  /\ dwallet_pubkey = Unset /\ bound = Binding
  /\ used_nonces = {} /\ genesis_done = FALSE
  /\ signatures = {} /\ honoured = {}

\* _m1 starts a fresh ledger on a fresh set of nonces.
NoncesOf_m1(b) == IF b = bound THEN used_nonces ELSE {}
NoncesOf(b) == used_nonces
SetParams(key, b) ==
  /\ dwallet_pubkey' = key /\ bound' = b
  /\ used_nonces' = NoncesOf(b)
  /\ UNCHANGED <<total_supply, coins, genesis_done, signatures, honoured>>

SetDwalletPubkey(key) ==
  /\ dwallet_pubkey' = key
  /\ UNCHANGED <<total_supply, coins, bound, used_nonces, genesis_done, signatures, honoured>>

\* _m1 looks at the wrong record of what has happened.
GenesisOpen_m1 == honoured = {}
GenesisOpen == ~genesis_done
GenesisMint(amount, to) ==
  /\ GenesisOpen
  /\ total_supply + amount <= U64Max
  /\ genesis_done' = TRUE
  /\ total_supply' = total_supply + amount
  /\ coins' = [coins EXCEPT ![to] = @ + amount]
  /\ UNCHANGED <<paramVars, used_nonces, signatures, honoured>>

\* ed25519_verify against the current key, and parse.
Parses(m) ==
  /\ m.key = dwallet_pubkey
  /\ m.domain = bound.domain /\ m.ledger = bound.ledger
  /\ m.account \in Addresses

\* verify_and_consume.
Unused(nonce) == nonce \notin used_nonces
VerifyAndConsume(m) ==
  /\ m \in signatures
  /\ Parses(m)
  /\ Unused(m.nonce)
  /\ used_nonces' = used_nonces \cup {m.nonce}
  /\ honoured' = honoured \cup {m}

MintWithAuthorization(m) ==
  /\ m.action = "mint"
  /\ VerifyAndConsume(m)
  /\ total_supply + m.amount <= U64Max
  /\ total_supply' = total_supply + m.amount
  /\ coins' = [coins EXCEPT ![m.account] = @ + m.amount]
  /\ UNCHANGED <<paramVars, genesis_done, signatures>>

\* The sender owns the coin it burns, and must be the account of the
\* authorization.  _m1 does not compare the two.
IsAccount_m1(m, sender) == sender \in Addresses
IsAccount(m, sender) == m.account = sender
BurnWithAuthorization(m, sender) ==
  /\ m.action = "burn"
  /\ VerifyAndConsume(m)
  /\ IsAccount(m, sender)
  /\ m.amount <= coins[sender] /\ m.amount <= total_supply
  /\ total_supply' = total_supply - m.amount
  /\ coins' = [coins EXCEPT ![sender] = @ - m.amount]
  /\ UNCHANGED <<paramVars, genesis_done, signatures>>

\* public_transfer of a coin by its owner.
TransferCoin(from, to, value) ==
  /\ from # to /\ value <= coins[from]
  /\ coins' = [coins EXCEPT ![from] = @ - value, ![to] = @ + value]
  /\ UNCHANGED <<total_supply, paramVars, used_nonces, genesis_done, signatures, honoured>>

\* A ledger gets one message per nonce signed (IssuerLedger,
\* OneAuthorizationPerLeg); another ledger counts its own nonces from 0.
DWalletSigns(m) ==
  /\ \A s \in signatures : s.ledger = m.ledger /\ s.nonce = m.nonce => s = m
  /\ Cardinality(signatures \cup {m}) <= SignBound
  /\ signatures' = signatures \cup {m}
  /\ UNCHANGED <<total_supply, coins, paramVars, used_nonces, genesis_done, honoured>>

Next ==
  \/ \E k \in DWallets, b \in Bindings : SetParams(k, b)
  \/ \E k \in DWallets : SetDwalletPubkey(k)
  \/ \E g \in GenesisAmounts : GenesisMint(g, GenesisTo)
  \/ \E m \in signatures : MintWithAuthorization(m)
  \/ \E m \in signatures, x \in Addresses : BurnWithAuthorization(m, x)
  \/ \E x, y \in Addresses, v \in Amounts : TransferCoin(x, y, v)
  \/ \E m \in Message : DWalletSigns(m)

Spec == Init /\ [][Next]_vars

-----------------------------------------------------------------------------

\* The package keeps the promise of SupplyController through every rotation of
\* the key and every rebinding: one seed, then only signed authorizations, each
\* nonce once (tbill.move:134-199).
Controller ==
  INSTANCE SupplyController WITH
    Messages <- Message, Genesis <- GenesisAmounts,
    supply <- total_supply, seeded <- genesis_done, signed <- signatures
ImplementsController == Controller!Spec

\* Every authorization burns from and mints to the account the ledger named:
\* what an address holds changes only by its own transfers and by authorizations
\* that name it, whoever relays them (tbill.move:155-174).
Named(x) == \E m \in honoured' \ honoured : m.account = x
OnlyNamedAccounts ==
  [][total_supply' # total_supply /\ genesis_done' = genesis_done =>
       \A x \in Addresses : coins'[x] # coins[x] <=> Named(x)]_vars

\* tbill.move:55-57 lets set_params "bind a fresh ledger deployment", 127 keeps
\* used_nonces when it does, and the fresh ledger counts from 0.  However often
\* the package is rebound, there and back, an authorization that was not honoured
\* is refused for its nonce exactly if another ledger's was honoured with it: these
\* the ledgers cost each other, none is lost in any other way, and no rebinding
\* makes a used nonce free again.
LostExactlyToOtherLedger ==
  \A m \in signatures \ honoured :
    ~Unused(m.nonce) <=> \E h \in honoured : h.nonce = m.nonce /\ h.ledger # m.ledger
=============================================================================
